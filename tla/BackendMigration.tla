--------------------------- MODULE BackendMigration ---------------------------
(***************************************************************************)
(* The move of a repository from domain files to SQLite, with readers and  *)
(* writers at work (store/migration.rs, startup.rs, transition.rs, mod.rs).*)
(*                                                                         *)
(* A writer first calls prepare_first_write, which moves an empty          *)
(* repository to SQLite on the way, and then domain_write or origin_write, *)
(* which decides which backend is live and writes to it.  An administrator *)
(* calls ensure with a backup directory: freeze, import_shadow, activate.  *)
(* Both hold the transition guard from the decision to the write.  Readers *)
(* take no guard, and a binary of an older version knows neither guard nor *)
(* database: it takes the lock of the domain file it appends to.           *)
(*                                                                         *)
(* A manifest names the items of the domain files and the worktrees they   *)
(* were found in.  Its time of evaluation makes two manifests of the same  *)
(* files different, so a manifest is known by its snapshot directory.      *)
(*                                                                         *)
(* Bounds: MaxCalls operations, MaxCrashes of them cut off, MaxMishaps     *)
(* writes of an old binary, removed worktrees and lost database files.     *)
(***************************************************************************)
EXTENDS Naturals, FiniteSets

CONSTANTS
    Procs, Items, Origins,
    OriginOf,      \* the worktree whose domain file an item is appended to
    Common,        \* the worktree that cannot be removed
    Backups,       \* directories an administrator names
    Startup,       \* the directory of the startup attempt
    MaxCalls, MaxCrashes, MaxMishaps,
    Absent, Partial, Nobody

ASSUME MigrationAssumption ==
    /\ Startup \notin Backups /\ Absent # Partial /\ Nobody \notin Procs
    /\ Common \in Origins /\ \A x \in Items : OriginOf[x] \in Origins
    /\ MaxCalls \in Nat /\ MaxCrashes \in Nat /\ MaxMishaps \in Nat
    \* Absent is no directory; neither Absent nor Partial is a manifest.
    /\ Absent \notin Backups \cup {Startup}
    /\ \A m \in [items : SUBSET Items, origins : SUBSET Origins] : m \notin {Absent, Partial}

VARIABLES
    db,        \* devmap.db: "absent", "empty" (no schema yet), "shadow", "active"
    sql,       \* the items in its domain tables
    imported,  \* the snapshot its @snapshot row names, or Absent
    cached,    \* it holds an agent inventory
    fence,     \* the snapshot activation-intent.json names, or Absent
    attempt,   \* attempt.json of an empty startup: Absent or its worktrees
    dirs,      \* each snapshot directory: Absent, Partial or its manifest
    legacy,    \* the items in the domain files
    origins,   \* the worktrees that exist
    guard,     \* the process that holds the transition guard
    locked,    \* worktrees whose files a freeze or an activation has locked
    doer,      \* each process: [pc, op, item, dir, saw]
    committed, \* history: items whose writer was answered with Ok
    answered,  \* history: [seen, due] of each read that was answered
    cutover,   \* history: SQLite was the live backend once
    used       \* history: operations, crashes and mishaps so far

files == <<legacy, origins>>
stores == <<db, sql, imported, cached, fence, attempt, dirs, files>>
told == <<committed, answered, cutover>>
migrationVars == <<stores, guard, locked, doer, told, used>>

Resting == [pc |-> "rest", op |-> "none", item |-> Nobody, dir |-> Startup, saw |-> {}]

MigrationInit ==
    /\ db = "absent" /\ sql = {} /\ imported = Absent /\ cached = FALSE /\ fence = Absent
    /\ attempt = Absent /\ dirs = [d \in Backups \cup {Startup} |-> Absent]
    /\ legacy \in {{}} \cup {{x} : x \in Items} /\ origins = Origins
    /\ guard = Nobody /\ locked = {} /\ doer = [p \in Procs |-> Resting]
    /\ committed = legacy /\ answered = {} /\ cutover = FALSE
    /\ used = [calls |-> 0, crashes |-> 0, mishaps |-> 0]

-----------------------------------------------------------------------------
Is(p, pc) == doer[p].pc = pc
Move(p, pc) == doer' = [doer EXCEPT ![p].pc = pc]
Done(p) ==
    /\ doer' = [doer EXCEPT ![p] = Resting]
    /\ guard' = IF guard = p THEN Nobody ELSE guard
    /\ locked' = IF guard = p THEN {} ELSE locked
Release(p, pc) == Move(p, pc) /\ guard' = Nobody /\ locked' = {}
Count(what) == used' = [used EXCEPT ![what] = @ + 1]

\* open_existing: a database without a schema, and a missing one whose
\* activation was intended, are errors.
Openable == db # "empty" /\ (db = "absent" => fence = Absent)
Of(items, o) == {x \in items : OriginOf[x] = o}
Holding(items) == {OriginOf[x] : x \in items}
\* inventory: what the files hold now.
Inventory == [items |-> legacy, origins |-> origins]

\* load_snapshot: the manifest was written and lists what the directory holds.
Complete(d) == dirs[d] \notin {Absent, Partial}

\* revalidate: every worktree of the manifest is still there, every file as it was.
Unchanged(m) == m.origins \subseteq origins /\ m.items = legacy
\* observe_active_origins: the files of a removed worktree are not missed.
Qualified(m) == \A o \in origins : Of(legacy, o) = Of(m.items, o)

Admitted(op) ==
    IF op = "strict" THEN Unchanged(dirs[imported]) ELSE Qualified(dirs[imported])

WriteCall(p, x, op) ==
    /\ Is(p, "rest") /\ used.calls < MaxCalls
    /\ OriginOf[x] \in origins /\ x \notin committed \cup legacy \cup sql
    /\ \A q \in Procs : doer[q].item # x
    /\ doer' = [doer EXCEPT ![p] = [Resting EXCEPT !.pc = "prepare", !.op = op, !.item = x]]
    /\ Count("calls")
    /\ UNCHANGED <<stores, guard, locked, told>>

EnsureCall(p, d) ==
    /\ Is(p, "rest") /\ used.calls < MaxCalls
    /\ doer' = [doer EXCEPT ![p] = [Resting EXCEPT !.pc = "prepare", !.op = "ensure", !.dir = d]]
    /\ Count("calls")
    /\ UNCHANGED <<stores, guard, locked, told>>

\* Agent synchronisation opens the database to keep its inventory in it.
CacheCall(p) ==
    /\ Is(p, "rest") /\ used.calls < MaxCalls
    /\ doer' = [doer EXCEPT ![p] = [Resting EXCEPT !.pc = "prepare", !.op = "cache"]]
    /\ Count("calls")
    /\ UNCHANGED <<stores, guard, locked, told>>

ReadCall(p) ==
    /\ Is(p, "rest") /\ used.calls < MaxCalls
    /\ doer' = [doer EXCEPT ![p] = [Resting EXCEPT !.pc = "read", !.op = "read", !.saw = committed]]
    /\ Count("calls")
    /\ UNCHANGED <<stores, guard, locked, told>>

First(op) == CASE op = "ensure" -> "ensure" [] op = "cache" -> "open" [] OTHER -> "startup"

\* transition::Guard::acquire; it gives up after two seconds.
AcquireGuard(p) ==
    /\ guard = Nobody
    /\ \/ Is(p, "prepare") /\ Move(p, First(doer[p].op))
       \/ Is(p, "write") /\ Move(p, "decide")
    /\ guard' = p
    /\ UNCHANGED <<stores, locked, told, used>>

GuardTimeout(p) ==
    /\ guard # Nobody /\ (Is(p, "prepare") \/ Is(p, "write"))
    /\ Done(p)
    /\ UNCHANGED <<stores, told, used>>

-----------------------------------------------------------------------------
\* validate_shadow: nothing but this snapshot was imported or intended.
OwnShadow(d) ==
    /\ imported \in {Absent, d} /\ (imported = Absent => sql = {})
    /\ fence = Absent \/ (fence = d /\ imported = d)

\* prepare_first_write_for: only an empty repository without a database begins a
\* migration, only an attempt whose snapshot is complete is resumed, any other
\* shadow than one that holds an agent inventory alone is refused.
Resumable ==
    /\ db = "shadow" /\ attempt = origins
    /\ dirs[Startup] = [items |-> {}, origins |-> attempt] /\ Unchanged(dirs[Startup])
    /\ OwnShadow(Startup)

StartupNext(op) ==
    IF ~Openable THEN "refuse"
    ELSE IF db = "active" THEN IF op = "strict" /\ ~Admitted(op) THEN "refuse" ELSE "write"
    ELSE IF attempt # Absent THEN IF Resumable THEN "import" ELSE "refuse"
    ELSE IF db = "shadow" THEN IF cached /\ imported = Absent THEN "write" ELSE "refuse"
    ELSE IF legacy # {} THEN "write" ELSE "publish"

Prepare(p) ==
    LET next == StartupNext(doer[p].op)
    IN  /\ Is(p, "startup") /\ next # "refuse"
        /\ IF next = "write" THEN Release(p, next) ELSE Move(p, next) /\ UNCHANGED <<guard, locked>>
        /\ UNCHANGED <<stores, told, used>>

\* The durable backup directory is not available: the files stay in use.
NoBackup(p) ==
    /\ Is(p, "publish") /\ legacy = {}
    /\ Release(p, "write")
    /\ UNCHANGED <<stores, told, used>>

PublishAttempt(p) ==
    /\ Is(p, "publish")
    /\ attempt' = origins /\ Move(p, "open")
    /\ UNCHANGED <<db, sql, imported, cached, fence, dirs, files, guard, locked, told, used>>

\* ensure: an active store is verified, a complete snapshot is used again.
EnsureNext(d) ==
    IF ~Openable THEN "refuse"
    ELSE IF db = "active" THEN IF Admitted("strict") THEN "answer" ELSE "refuse"
    ELSE IF Complete(d) THEN "import"
    ELSE IF dirs[d] = Partial THEN "refuse" ELSE "open"

Ensure(p) ==
    /\ Is(p, "ensure") /\ EnsureNext(doer[p].dir) # "refuse"
    /\ Move(p, EnsureNext(doer[p].dir))
    /\ UNCHANGED <<stores, guard, locked, told, used>>

\* open_guarded: the file is created, then the schema is committed.
CreateDatabase(p) ==
    /\ Is(p, "open") /\ db = "absent" /\ fence = Absent
    /\ db' = "empty" /\ Move(p, "schema")
    /\ UNCHANGED <<sql, imported, cached, fence, attempt, dirs, files, guard, locked, told, used>>

OpenDatabase(p) ==
    /\ \/ Is(p, "schema") /\ db' = "shadow"
       \/ Is(p, "open") /\ db \in {"shadow", "active"} /\ UNCHANGED db
    /\ IF doer[p].op = "cache"
       THEN Release(p, "row")
       ELSE Move(p, "freeze") /\ UNCHANGED <<guard, locked>>
    /\ UNCHANGED <<sql, imported, cached, fence, attempt, dirs, files, told, used>>

SaveInventory(p) ==
    /\ Is(p, "row") /\ db \in {"shadow", "active"}
    /\ cached' = TRUE
    /\ Done(p)
    /\ UNCHANGED <<db, sql, imported, fence, attempt, dirs, files, told, used>>

\* freeze: the files that exist are locked and copied to a new directory ...
Freeze(p) ==
    /\ Is(p, "freeze") /\ dirs[doer[p].dir] = Absent
    /\ locked' = Holding(legacy)
    /\ dirs' = [dirs EXCEPT ![doer[p].dir] = Partial]
    /\ doer' = [doer EXCEPT ![p].pc = "manifest", ![p].saw = Inventory]
    /\ UNCHANGED <<db, sql, imported, cached, fence, attempt, files, guard, told, used>>

\* ... and the manifest is written last, when the files are still the same.  An
\* empty startup whose proof of emptiness changed stops here.
WriteManifest(p) ==
    LET manifest == doer[p].saw
    IN  /\ Is(p, "manifest") /\ Unchanged(manifest)
        /\ dirs' = [dirs EXCEPT ![doer[p].dir] = manifest]
        /\ locked' = {}
        /\ IF doer[p].dir = Startup /\ manifest # [items |-> {}, origins |-> attempt]
           THEN doer' = [doer EXCEPT ![p] = Resting] /\ guard' = Nobody
           ELSE Move(p, "import") /\ UNCHANGED guard
        /\ UNCHANGED <<db, sql, imported, cached, fence, attempt, files, told, used>>

\* import: every frozen record goes into its table; compare_domains reads them back.
ImportDomains(d) == sql' = dirs[d].items /\ imported' = d
DomainsMatch(d) == sql = dirs[d].items

FaultImportable(d) == Unchanged(dirs[d])

\* import_shadow, one transaction: the files must still be the snapshot, and an
\* earlier import must be of the same one.
Importable(d) == Unchanged(dirs[d]) /\ (imported = Absent \/ (imported = d /\ DomainsMatch(d)))

ImportShadow(p) ==
    /\ Is(p, "import") /\ db = "shadow" /\ Importable(doer[p].dir)
    /\ ImportDomains(doer[p].dir)
    /\ Move(p, "activate")
    /\ UNCHANGED <<db, cached, fence, attempt, dirs, files, guard, locked, told, used>>

FaultActivateUnfenced(p) ==
    /\ Is(p, "activate") /\ db = "shadow"
    /\ imported = doer[p].dir /\ Unchanged(dirs[imported]) /\ DomainsMatch(imported)
    /\ locked' = Holding(legacy) /\ Move(p, "commit")
    /\ UNCHANGED <<db, sql, imported, cached, fence, attempt, dirs, files, guard, told, used>>

\* activate: locks, checks again and writes the fence ...
ActivateStore(p) ==
    /\ Is(p, "activate") /\ db = "shadow"
    /\ imported = doer[p].dir /\ Unchanged(dirs[imported]) /\ DomainsMatch(imported)
    /\ fence \in {Absent, imported}
    /\ fence' = imported
    /\ locked' = Holding(legacy) /\ Move(p, "commit")
    /\ UNCHANGED <<db, sql, imported, cached, attempt, dirs, files, guard, told, used>>

\* ... before the transaction that selects SQLite commits.
CommitActive(p) ==
    /\ Is(p, "commit")
    /\ db' = "active" /\ cutover' = TRUE
    /\ IF doer[p].op = "ensure"
       THEN Move(p, "answer") /\ locked' = {} /\ UNCHANGED guard
       ELSE Release(p, "write")
    /\ UNCHANGED <<sql, imported, cached, fence, attempt, dirs, files, committed, answered, used>>

AnswerEnsure(p) ==
    /\ Is(p, "answer")
    /\ Done(p)
    /\ UNCHANGED <<stores, told, used>>

-----------------------------------------------------------------------------
\* domain_write and origin_write: the live backend is decided under the guard,
\* and files that changed after activation stop the write.
DecideNext(op) ==
    IF ~Openable THEN "refuse"
    ELSE IF db = "active" THEN IF Admitted(op) THEN "sql" ELSE "refuse"
    ELSE "files"

Decide(p) ==
    /\ Is(p, "decide") /\ DecideNext(doer[p].op) # "refuse"
    /\ Move(p, DecideNext(doer[p].op))
    /\ UNCHANGED <<stores, guard, locked, told, used>>

\* The qualified write looks at the worktrees again before it commits.
CommitWrite(p) ==
    LET x == doer[p].item
    IN  /\ doer[p].pc \in {"files", "sql"} /\ OriginOf[x] \in origins
        /\ \/ Is(p, "files") /\ legacy' = legacy \cup {x} /\ UNCHANGED sql
           \/ /\ Is(p, "sql") /\ (doer[p].op = "qualified" => Admitted(doer[p].op))
              /\ sql' = sql \cup {x} /\ UNCHANGED legacy
        /\ committed' = committed \cup {x}
        /\ Done(p)
        /\ UNCHANGED <<db, imported, cached, fence, attempt, dirs, origins, answered, cutover, used>>

FaultReadDecide(p) ==
    /\ Is(p, "read")
    /\ Move(p, "readfiles")
    /\ UNCHANGED <<stores, guard, locked, told, used>>

\* A reader decides without the guard and reads one snapshot, or the files after.
ReadDecide(p) ==
    /\ Is(p, "read") /\ Openable
    /\ IF db = "active"
       THEN /\ Admitted("qualified")
            /\ answered' = answered \cup {[seen |-> sql, due |-> doer[p].saw \cap committed]}
            /\ Done(p)
       ELSE Move(p, "readfiles") /\ UNCHANGED <<guard, locked, answered>>
    /\ UNCHANGED <<stores, committed, cutover, used>>

\* The files of a worktree that is gone cannot be due from a reader of files.
ReadFiles(p) ==
    /\ Is(p, "readfiles")
    /\ answered' = answered \cup
          {[seen |-> legacy, due |-> {x \in doer[p].saw \cap committed : OriginOf[x] \in origins}]}
    /\ Done(p)
    /\ UNCHANGED <<stores, committed, cutover, used>>

\* The operation ends in an error: a check above does not hold.
Refused(p) ==
    /\ \/ Is(p, "startup") /\ StartupNext(doer[p].op) = "refuse"
       \/ Is(p, "publish") /\ legacy # {}
       \/ Is(p, "ensure") /\ EnsureNext(doer[p].dir) = "refuse"
       \/ Is(p, "open") /\ ~Openable
       \/ Is(p, "row") /\ db \notin {"shadow", "active"}
       \/ Is(p, "freeze") /\ dirs[doer[p].dir] # Absent
       \/ Is(p, "manifest") /\ ~Unchanged(doer[p].saw)
       \/ Is(p, "import") /\ ~(db = "shadow" /\ Importable(doer[p].dir))
       \/ Is(p, "activate") /\ ~(Unchanged(dirs[imported]) /\ fence \in {Absent, imported})
       \/ Is(p, "decide") /\ DecideNext(doer[p].op) = "refuse"
       \/ /\ doer[p].pc \in {"files", "sql"}
          /\ OriginOf[doer[p].item] \notin origins \/ (Is(p, "sql") /\ ~Admitted(doer[p].op))
       \/ Is(p, "read") /\ (~Openable \/ (db = "active" /\ ~Admitted("qualified")))
    /\ Done(p)
    /\ UNCHANGED <<stores, told, used>>

\* The process dies: the kernel drops the guard and the file locks.
Crash(p) ==
    /\ ~Is(p, "rest") /\ used.crashes < MaxCrashes
    /\ Done(p) /\ Count("crashes")
    /\ UNCHANGED <<stores, told>>

Mishap == used.mishaps < MaxMishaps /\ Count("mishaps")

\* A binary that knows nothing of the migration appends to a domain file.
OldWrite(x) ==
    /\ Mishap
    /\ OriginOf[x] \in origins \ locked
    /\ x \notin legacy \cup sql /\ \A q \in Procs : doer[q].item # x
    /\ legacy' = legacy \cup {x}
    /\ UNCHANGED <<db, sql, imported, cached, fence, attempt, dirs, origins, guard, locked, doer, told>>

\* git worktree remove takes the files of a linked worktree with it.
RemoveWorktree(o) ==
    /\ Mishap
    /\ o \in origins \ {Common}
    /\ origins' = origins \ {o} /\ legacy' = legacy \ Of(legacy, o)
    /\ committed' = IF db = "active" THEN committed ELSE committed \ Of(committed, o)
    /\ UNCHANGED <<db, sql, imported, cached, fence, attempt, dirs, guard, locked, doer, answered, cutover>>

\* The database file is removed by somebody else, while nobody has it open.
LoseDatabase ==
    /\ Mishap
    /\ db # "absent"
    /\ \A p \in Procs : doer[p].pc \in {"rest", "prepare", "write", "row", "read", "readfiles"}
    /\ db' = "absent" /\ sql' = {} /\ imported' = Absent /\ cached' = FALSE
    /\ UNCHANGED <<fence, attempt, dirs, files, guard, locked, doer, told>>

MigrationNext ==
    \/ \E p \in Procs :
          \/ \E x \in Items : WriteCall(p, x, "strict") \/ WriteCall(p, x, "qualified")
          \/ \E d \in Backups : EnsureCall(p, d)
          \/ CacheCall(p) \/ ReadCall(p) \/ AcquireGuard(p) \/ GuardTimeout(p)
          \/ Prepare(p) \/ NoBackup(p) \/ PublishAttempt(p) \/ Ensure(p)
          \/ CreateDatabase(p) \/ OpenDatabase(p) \/ SaveInventory(p) \/ Freeze(p)
          \/ WriteManifest(p) \/ ImportShadow(p) \/ ActivateStore(p) \/ CommitActive(p)
          \/ AnswerEnsure(p) \/ Decide(p) \/ CommitWrite(p) \/ ReadDecide(p) \/ ReadFiles(p)
          \/ Refused(p) \/ Crash(p)
    \/ \E x \in Items : OldWrite(x)
    \/ \E o \in Origins : RemoveWorktree(o)
    \/ LoseDatabase

MigrationSpec == MigrationInit /\ [][MigrationNext]_migrationVars
-----------------------------------------------------------------------------
Snapshots == Backups \cup {Startup}

\* Every variable has its type; file locks are held under the guard only.
MigrationTypeOK ==
    /\ db \in {"absent", "empty", "shadow", "active"}
    /\ sql \subseteq Items /\ legacy \subseteq Items /\ committed \subseteq Items
    /\ imported \in {Absent} \cup Snapshots /\ fence \in {Absent} \cup Snapshots
    /\ \A d \in Snapshots : dirs[d] \in {Absent, Partial} \cup
          [items : SUBSET Items, origins : SUBSET Origins]
    /\ origins \subseteq Origins /\ attempt \in {Absent} \cup SUBSET Origins
    /\ guard \in Procs \cup {Nobody} /\ locked \subseteq Origins
    /\ locked # {} => guard # Nobody

\* The live backend holds every write that was answered with Ok, wherever the
\* migration was cut off and whoever wrote meanwhile; when an active database is
\* lost nothing is served from the files that stopped being current.
AcceptedKept ==
    IF db = "active" THEN committed \subseteq sql
    ELSE IF cutover THEN ~Openable
    ELSE committed \subseteq legacy

\* A reader, who takes no guard, never misses a write that was answered before
\* he began.
ReadsSeeAccepted == \A r \in answered : r.due \subseteq r.seen

\* A migration that was cut off after its import locks nobody out: while the
\* files are as they were imported, ensure with the same directory goes through
\* every check, and the snapshot an intent names is one that is complete and
\* imported.  Of one cut off earlier, before there is an import, nothing is
\* said.
CutOffCompletes ==
    guard = Nobody /\ db = "shadow" =>
        /\ imported # Absent /\ Unchanged(dirs[imported]) =>
              /\ EnsureNext(imported) = "import" /\ Importable(imported)
              /\ fence \in {Absent, imported}
        /\ fence # Absent => Complete(fence)
=============================================================================
