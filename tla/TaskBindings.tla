----------------------------- MODULE TaskBindings -----------------------------
(***************************************************************************)
(* Which task of an agent host works in which worktree (journal.rs, the    *)
(* binding half, and store/origin_links.rs).  An observation is a list of  *)
(* associations with one time; observations arrive in any order and may be *)
(* repeated.                                                               *)
(*                                                                         *)
(* File store: task-bindings.jsonl holds a record per change of a task's *)
(* worktree, task-binding-watermarks.json the newest time each task was    *)
(* observed at.  The watermarks are published first (through a .pending    *)
(* file), the records are appended after; both under the file lock, so one *)
(* update is under way at a time.  Nothing repairs a leftover .pending or  *)
(* an unfinished line: every later operation is refused.                   *)
(* SQL store: one transaction, which also keeps each record's origin     *)
(* links and each task's cursor with the incarnation of its worktree.      *)
(*                                                                         *)
(* Bounds: MaxCuts interruptions; worktrees pass through 1..MaxLife      *)
(* (an odd number is a live incarnation, an even one means removed).       *)
(***************************************************************************)
EXTENDS Naturals, Sequences, FiniteSets

CONSTANTS
    Tasks, Worktrees,
    Observations,   \* records [at, list]; list is a sequence of [task, wt]
    Stores,       \* the backends the repository may start with
    MaxCuts, MaxLife,
    None

\* A worktree in one of its incarnations (or in none that is known), and what
\* the SQL store keeps of a task.
Anchors == Worktrees \X (Nat \cup {None})
Cursors == [at : Nat, current : Anchors \cup {None}, history : Nat]

\* The commands that observe tasks refuse an inventory that lists one twice.
ASSUME BindingAssumption ==
    /\ \A o \in Observations :
          /\ o.at \in Nat \ {0}
          /\ o.list \in Seq([task : Tasks, wt : Worktrees])
          /\ \A i, j \in 1..Len(o.list) : o.list[i].task = o.list[j].task => i = j
    /\ Stores \subseteq {"file", "sql"}
    /\ MaxCuts \in Nat /\ MaxLife \in Nat
    /\ None \notin Worktrees \cup Anchors \cup Cursors

VARIABLES
    store,
    records,    \* the history: a sequence of [task, wt, from, at]
    unfinished,       \* file: an unfinished line ends the journal
    marks,      \* each task's watermark, 0 without one
    pending,    \* file: the .pending file exists
    links,      \* sql: origin links of the records, [dest, source]
    cursors,    \* sql: None or [at, current, history] of each task
    registry,   \* sql: the registered origins <<worktree, incarnation>>
    life,       \* the incarnation of each worktree
    update,       \* file: the update under way, [pc, obs, todo]
    acked,      \* history: observations answered with Ok
    newest,     \* history: [at, wt] of the newest observation of each task
    cut,        \* history: tasks whose newest observation was interrupted
    broken,     \* history: an update was cut off inside a file
    cuts

fileVars == <<records, unfinished, marks, pending>>
sqlVars == <<links, cursors, registry>>
history == <<newest, cut, broken>>
bindingVars == <<store, fileVars, sqlVars, life, update, acked, history, cuts>>

NoUpdate == [pc |-> "idle", obs |-> None, todo |-> <<>>]

BindingsInit ==
    /\ store \in Stores
    /\ records = <<>> /\ unfinished = FALSE /\ pending = FALSE
    /\ marks = [k \in Tasks |-> 0]
    /\ links = <<>> /\ registry = {} /\ cursors = [k \in Tasks |-> None]
    /\ life = [w \in Worktrees |-> 1]
    /\ update = NoUpdate /\ acked = {} /\ cut = {} /\ broken = FALSE /\ cuts = 0
    /\ newest = [k \in Tasks |-> [at |-> 0, wt |-> None]]

-----------------------------------------------------------------------------
Of(k) == {i \in 1..Len(records) : records[i].task = k}
LastOf(k) == CHOOSE i \in Of(k) : \A j \in Of(k) : j <= i
\* The worktree of the task's last record.
Where(k) == IF Of(k) = {} THEN None ELSE records[LastOf(k)].wt

Live(w) == life[w] % 2 = 1
Origin(w) == <<w, life[w]>>

\* The n-th smallest element of a set of numbers.
Nth(S, n) == CHOOSE i \in S : Cardinality({j \in S : j <= i}) = n

\* update_bindings: associations newer than the task's watermark apply; of
\* those, the ones that name another worktree than the last record add one.
Fresh(o) == {i \in 1..Len(o.list) : marks[o.list[i].task] < o.at}
Moved(o) == {i \in Fresh(o) : Where(o.list[i].task) # o.list[i].wt}

RecordOf(o, i) == [task |-> o.list[i].task, wt |-> o.list[i].wt,
                   from |-> Where(o.list[i].task), at |-> o.at]
RecordsOf(o, S) == [n \in 1..Cardinality(S) |-> RecordOf(o, Nth(S, n))]

FaultAdditionsEvery(o) == RecordsOf(o, Fresh(o))
FaultAdditionsFirst(o) ==
    LET First(k) == records[CHOOSE i \in Of(k) : \A j \in Of(k) : i <= j].wt
    IN  RecordsOf(o, {i \in Fresh(o) : \/ Of(o.list[i].task) = {}
                                      \/ First(o.list[i].task) # o.list[i].wt})

Additions(o) == RecordsOf(o, Moved(o))
Touched(o) == {o.list[i].task : i \in Fresh(o)}
Target(o, k) == o.list[CHOOSE i \in 1..Len(o.list) : o.list[i].task = k].wt

MarksAfter(o) == [k \in Tasks |-> IF k \in Touched(o) THEN o.at ELSE marks[k]]
NewestAfter(o) ==
    [k \in Tasks |-> IF k \in Touched(o) THEN [at |-> o.at, wt |-> Target(o, k)] ELSE newest[k]]

\* parse_binding_records: each record continues its task's previous one, at a
\* later time and with another worktree.
HistoryValid ==
    \A i \in 1..Len(records) :
        LET earlier == {j \in Of(records[i].task) : j < i}
            prev == CHOOSE j \in earlier : \A l \in earlier : l <= j
        IN  IF earlier = {} THEN records[i].from = None
            ELSE /\ records[i].from = records[prev].wt
                 /\ records[i].wt # records[prev].wt
                 /\ records[prev].at < records[i].at

\* What validate_bindings demands of a task's cursor, given the task's history,
\* watermark and the links of its last record.
CursorValid(k) ==
    LET c == cursors[k]
        last == IF Of(k) = {} THEN 0 ELSE LastOf(k)
    IN  /\ (c = None) = (marks[k] = 0)
        /\ c = None => last = 0
        /\ c # None =>
              /\ c.at = marks[k] /\ c.history = last
              /\ (c.current = None) = (last = 0)
              /\ last # 0 =>
                    /\ c.current[1] = records[last].wt
                    /\ c.at >= records[last].at
                    /\ c.at = records[last].at => c.current = links[last].dest

\* Every record has its links, and the incarnations they name are registered.
LinksValid ==
    /\ Len(links) = Len(records)
    /\ \A i \in 1..Len(records) :
          LET dest == links[i].dest  source == links[i].source
          IN  /\ dest[1] = records[i].wt
              /\ (source = None) = (records[i].from = None)
              /\ source # None => source[1] = records[i].from
              /\ dest[2] # None => dest \in registry

\* What a read of the files refuses: a pending watermark file, an unfinished line.
WatermarksReadable == ~pending
FilesReadable == WatermarksReadable /\ ~unfinished /\ HistoryValid

\* sql_binding_snapshot: the tables are cross-checked before every use.
TablesReadable == HistoryValid /\ LinksValid /\ \A k \in Tasks : CursorValid(k)

\* observe_task_bindings with the file store: the files are read, and refused
\* with an unfinished line or a pending watermark file.
ObserveFile(o) ==
    /\ store = "file" /\ update = NoUpdate /\ FilesReadable
    /\ update' = [pc |-> IF Touched(o) = {} THEN "answer" ELSE "watermarks",
                obs |-> o, todo |-> Additions(o)]
    /\ UNCHANGED <<store, fileVars, sqlVars, life, acked, history, cuts>>

\* write_binding_watermarks: the new file is written beside the old one ...
WritePending ==
    /\ update.pc = "watermarks" /\ ~pending
    /\ pending' = TRUE
    /\ update' = [update EXCEPT !.pc = "publish"]
    /\ UNCHANGED <<store, records, unfinished, marks, sqlVars, life, acked, history, cuts>>

\* ... and renamed over it.
PublishWatermarks ==
    /\ update.pc = "publish"
    /\ pending' = FALSE /\ marks' = MarksAfter(update.obs)
    /\ newest' = NewestAfter(update.obs)
    /\ cut' = cut \ Touched(update.obs)
    /\ update' = [update EXCEPT !.pc = IF update.todo = <<>> THEN "answer" ELSE "append"]
    /\ UNCHANGED <<store, records, unfinished, sqlVars, life, acked, broken, cuts>>

\* The added lines reach the journal one after another.
AppendRecord ==
    /\ update.pc = "append"
    /\ IF unfinished
       THEN /\ records' = Append(records, Head(update.todo)) /\ unfinished' = FALSE
            /\ update' = [update EXCEPT !.todo = Tail(@),
                            !.pc = IF Len(update.todo) = 1 THEN "answer" ELSE "append"]
       ELSE unfinished' = TRUE /\ UNCHANGED <<records, update>>
    /\ UNCHANGED <<store, marks, pending, sqlVars, life, acked, history, cuts>>

AnswerObservation ==
    /\ update.pc = "answer"
    /\ acked' = acked \cup {update.obs} /\ update' = NoUpdate
    /\ UNCHANGED <<store, fileVars, sqlVars, life, history, cuts>>

\* The process is killed or an operation on the files fails.
InterruptUpdate ==
    /\ update # NoUpdate /\ cuts < MaxCuts
    /\ cuts' = cuts + 1
    /\ update' = NoUpdate
    /\ cut' = cut \cup {update.todo[i].task : i \in
                 IF update.pc = "append" THEN 1..Len(update.todo) ELSE {}}
    /\ broken' = (broken \/ update.pc = "publish" \/ (update.pc = "append" /\ unfinished))
    /\ UNCHANGED <<store, fileVars, sqlVars, life, acked, newest>>

-----------------------------------------------------------------------------
\* update_sql_bindings refuses an observation of a known time that names
\* another origin, and one whose worktree is not live.
Conflict(o) == \E i \in 1..Len(o.list) :
    LET k == o.list[i].task  w == o.list[i].wt  c == cursors[k]
    IN  \/ c = None /\ ~Live(w)
        \/ c # None /\ c.at < o.at /\ ~Live(w)
        \/ /\ c # None /\ c.at = o.at /\ c.current # None
           /\ ~Live(w) \/ c.current # Origin(w)

\* register_origin, insert_binding and upsert_cursor.
RegistryAfter(o) == registry \cup {Origin(Target(o, k)) : k \in Touched(o)}
LinksAfter(new) ==
    links \o [i \in 1..Len(new) |->
        [dest |-> Origin(new[i].wt),
         source |-> IF cursors[new[i].task] = None THEN None
                    ELSE cursors[new[i].task].current]]
CursorsAfter(o, new) ==
    [k \in Tasks |->
        IF k \notin Touched(o) THEN cursors[k]
        ELSE [at |-> o.at, current |-> Origin(Target(o, k)),
              history |-> IF \E i \in 1..Len(new) : new[i].task = k
                          THEN Len(records) + (CHOOSE i \in 1..Len(new) : new[i].task = k)
                          ELSE cursors[k].history]]

\* The transaction of update_sql_bindings: registry, history with links,
\* watermarks and cursors change together.
ObserveSql(o) ==
    /\ store = "sql" /\ TablesReadable /\ ~Conflict(o)
    /\ records' = records \o Additions(o)
    /\ links' = LinksAfter(Additions(o))
    /\ cursors' = CursorsAfter(o, Additions(o))
    /\ registry' = RegistryAfter(o)
    /\ marks' = MarksAfter(o) /\ newest' = NewestAfter(o)
    /\ cut' = cut \ Touched(o)
    /\ acked' = acked \cup {o}
    /\ UNCHANGED <<store, unfinished, pending, life, update, broken, cuts>>

\* The migration imports a complete file journal: frozen_bindings anchors every
\* record to the worktree's incarnation at the freeze, or to none.
FrozenLink(w) == IF w = None THEN None ELSE IF Live(w) THEN Origin(w) ELSE <<w, None>>

Activate ==
    /\ store = "file" /\ update = NoUpdate /\ FilesReadable
    /\ store' = "sql"
    /\ links' = [i \in 1..Len(records) |-> [dest |-> FrozenLink(records[i].wt),
                                            source |-> FrozenLink(records[i].from)]]
    /\ registry' = {Origin(w) : w \in {v \in Worktrees : Live(v)}}
    /\ cursors' = [k \in Tasks |->
           IF marks[k] = 0 THEN None
           ELSE [at |-> marks[k], current |-> FrozenLink(Where(k)),
                 history |-> IF Of(k) = {} THEN 0 ELSE LastOf(k)]]
    /\ UNCHANGED <<fileVars, life, update, acked, history, cuts>>

\* Outside this program a worktree is removed, or created again.
MoveWorktree(w) ==
    /\ life[w] < MaxLife
    /\ life' = [life EXCEPT ![w] = @ + 1]
    /\ UNCHANGED <<store, fileVars, sqlVars, update, acked, history, cuts>>

BindingsNext ==
    \/ \E o \in Observations : ObserveFile(o) \/ ObserveSql(o)
    \/ WritePending \/ PublishWatermarks \/ AppendRecord \/ AnswerObservation \/ InterruptUpdate
    \/ Activate \/ \E w \in Worktrees : MoveWorktree(w)

BindingsSpec == BindingsInit /\ [][BindingsNext]_bindingVars

-----------------------------------------------------------------------------
\* Every variable has its type; a pending file or a torn line without an update
\* under way is the mark of an interruption.
BindingsTypeOK ==
    /\ store \in {"file", "sql"}
    /\ marks \in [Tasks -> Nat] /\ life \in [Worktrees -> Nat]
    /\ acked \subseteq Observations /\ cut \subseteq Tasks
    /\ broken \in BOOLEAN
    /\ (unfinished \/ pending) /\ update = NoUpdate => cuts > 0

\* Whatever arrives in whatever order, is cut off or imported, the next
\* operation finds the stored history and its SQL metadata valid; one failure
\* would lock the whole repository out.  Of the files this holds unless an
\* update was cut off between the creation and the renaming of the .pending
\* file or within a line of the journal: then every later operation is refused
\* until somebody repairs the files, none ever takes them for complete.
BindingsReadable ==
    /\ HistoryValid
    /\ store = "sql" => TablesReadable
    /\ store = "file" /\ update = NoUpdate => (FilesReadable <=> ~broken)

\* A delayed observation never undoes a newer one: the last record of a task is
\* its newest observation, unless exactly that one was cut off between its
\* watermark and its record; and an observation answered with Ok has been
\* applied, or a newer one of the task has.
NewestObservationHolds ==
    /\ \A k \in Tasks :
          update.pc = "append" \/ k \in cut \/ Where(k) = newest[k].wt
    /\ \A o \in acked : \A i \in 1..Len(o.list) : marks[o.list[i].task] >= o.at
=============================================================================
