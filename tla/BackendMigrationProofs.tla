------------------------ MODULE BackendMigrationProofs ------------------------
(***************************************************************************)
(* The move to SQLite loses no write that was answered, for every number   *)
(* of processes, items, worktrees and backup directories and however many  *)
(* operations are cut off.  What makes it so: whoever changes the database *)
(* or decides where to write holds the transition guard, so what was true  *)
(* of the database when the operation decided is true until it ends.       *)
(***************************************************************************)
EXTENDS BackendMigration, TLAPS

Guarded == {"startup", "publish", "ensure", "open", "schema", "freeze", "manifest",
            "import", "activate", "commit", "answer", "decide", "files", "sql"}
Free == {"rest", "prepare", "write", "row", "read", "readfiles"}

Manifests == [items : SUBSET Items, origins : SUBSET Origins]

\* Where an operation may be: a writer has an item, and goes where it goes.
Writing == {"strict", "qualified"}
Legal(d) ==
    /\ d.op \in Writing => d.item \in Items
    /\ d.pc \in {"startup", "publish", "write", "decide", "files", "sql"} => d.op \in Writing
    /\ d.pc \in {"freeze", "manifest", "import", "activate", "commit"} =>
          d.op \in Writing \cup {"ensure"}
    /\ d.pc \in {"prepare", "open", "schema"} => d.op \in Writing \cup {"ensure", "cache"}
    /\ d.pc = "ensure" => d.op = "ensure"
    /\ d.op \in Writing => d.dir = Startup

Doings == [pc : Guarded \cup Free,
           op : {"none", "strict", "qualified", "ensure", "cache", "read"},
           item : Items \cup {Nobody}, dir : Snapshots, saw : (SUBSET Items) \cup Manifests]
Doing == {d \in Doings : Legal(d)}

\* The types a step of the proof needs.
StoresTyped ==
    /\ db \in {"absent", "empty", "shadow", "active"}
    /\ sql \subseteq Items /\ legacy \subseteq Items /\ committed \subseteq Items
    /\ imported \in {Absent} \cup Snapshots /\ fence \in {Absent} \cup Snapshots
    /\ attempt \in {Absent} \cup SUBSET Origins /\ cutover \in BOOLEAN
    /\ dirs \in [Snapshots -> {Absent, Partial} \cup Manifests]
    /\ origins \subseteq Origins

DoersTyped ==
    /\ guard \in Procs \cup {Nobody} /\ locked \subseteq Origins
    /\ doer \in [Procs -> Doing]

\* The guard is held by the one process that is between taking and dropping it.
GuardHeld ==
    /\ \A p \in Procs : doer[p].pc \in Guarded <=> guard = p
    /\ locked # {} => guard # Nobody

\* The life of the database: it is created without an intent to activate,
\* becomes active under one, and after that is there or lost.
DatabaseLife ==
    /\ db = "active" => cutover
    /\ cutover => db \in {"active", "absent"} /\ fence # Absent
    /\ db \in {"absent", "empty"} => imported = Absent
    /\ db = "empty" => fence = Absent
    /\ db = "shadow" /\ fence # Absent => fence = imported

\* What the database says it imported and what the intent names is complete,
\* and a shadow holds just that.
ImportsComplete ==
    /\ imported # Absent => Complete(imported)
    /\ fence # Absent => Complete(fence)
    /\ db = "shadow" /\ imported # Absent => sql = dirs[imported].items

\* What an operation found under the guard still holds when it acts on it.
Decision(p) ==
    /\ Is(p, "schema") => db = "empty"
    /\ Is(p, "manifest") => dirs[doer[p].dir] = Partial /\ doer[p].saw \in Manifests
    /\ Is(p, "import") => Complete(doer[p].dir)
    /\ Is(p, "files") => db # "active" /\ ~cutover
    /\ Is(p, "sql") => db = "active"
    /\ Is(p, "commit") => db = "shadow" /\ committed \subseteq sql /\ fence # Absent

\* What a reader may count on, of the worktrees that are still there.
Reading(p) ==
    /\ Is(p, "read") =>
          {x \in Items : x \in doer[p].saw /\ OriginOf[x] \in origins} \subseteq committed
    /\ Is(p, "readfiles") =>
          {x \in Items : x \in doer[p].saw /\ OriginOf[x] \in origins} \subseteq legacy

Decisions == \A p \in Procs : Decision(p)
Readings == \A p \in Procs : Reading(p)

MigrationInv ==
    /\ StoresTyped /\ DoersTyped /\ GuardHeld
    /\ DatabaseLife /\ ImportsComplete /\ Decisions /\ Readings
    /\ AcceptedKept /\ ReadsSeeAccepted

-----------------------------------------------------------------------------
\* The operation of a process, and what becomes of the guard.
Becomes(p, d) == d \in Doing /\ doer' = [doer EXCEPT ![p] = d]

Guarding(p, d) ==
    \/ /\ guard' = guard /\ (d.pc \in Guarded <=> doer[p].pc \in Guarded)
       /\ locked' \subseteq Origins /\ (locked' \subseteq locked \/ doer[p].pc \in Guarded)
    \/ guard = Nobody /\ guard' = p /\ d.pc \in Guarded /\ locked' = locked
    \/ /\ guard' = (IF guard = p THEN Nobody ELSE guard) /\ d.pc \in Free
       /\ locked' = IF guard = p THEN {} ELSE locked

LEMMA Disjoint == Guarded \cap Free = {}
BY DEF Guarded, Free

LEMMA GuardMoves ==
  ASSUME DoersTyped, GuardHeld, NEW p \in Procs, NEW d, Becomes(p, d), Guarding(p, d)
  PROVE  DoersTyped' /\ GuardHeld'
<1>1. doer' \in [Procs -> Doing] /\ doer'[p] = d /\ \A q \in Procs \ {p} : doer'[q] = doer[q]
  BY DEF Becomes, DoersTyped
<1>2. Nobody \notin Procs
  BY MigrationAssumption
<1>3. CASE /\ guard' = guard /\ (d.pc \in Guarded <=> doer[p].pc \in Guarded)
           /\ locked' \subseteq Origins /\ (locked' \subseteq locked \/ doer[p].pc \in Guarded)
  BY <1>1, <1>2, <1>3 DEF DoersTyped, GuardHeld
<1>4. CASE guard = Nobody /\ guard' = p /\ d.pc \in Guarded /\ locked' = locked
  BY <1>1, <1>2, <1>4 DEF DoersTyped, GuardHeld
<1>5. CASE /\ guard' = (IF guard = p THEN Nobody ELSE guard) /\ d.pc \in Free
           /\ locked' = IF guard = p THEN {} ELSE locked
  BY <1>1, <1>2, <1>5, Disjoint DEF DoersTyped, GuardHeld
<1>6. QED
  BY <1>3, <1>4, <1>5 DEF Guarding

LEMMA Alone ==
  ASSUME GuardHeld, NEW p \in Procs, NEW q \in Procs \ {p}, doer[p].pc \in Guarded
  PROVE  doer[q].pc \notin Guarded
BY DEF GuardHeld

\* What another process decided or read stands.
LEMMA OthersStand ==
  ASSUME MigrationInv, NEW p \in Procs, NEW d, Becomes(p, d), NEW q \in Procs \ {p},
         doer[p].pc \in Guarded \/ UNCHANGED <<db, sql, fence, dirs, committed, cutover>>,
         origins' = origins, committed \subseteq committed', legacy \subseteq legacy'
  PROVE  Decision(q)' /\ Reading(q)'
<1>1. doer'[q] = doer[q] /\ Decision(q) /\ Reading(q)
  BY DEF Becomes, MigrationInv, DoersTyped, Decisions, Readings
<1>2. Reading(q)'
  BY <1>1 DEF Reading, Is
<1>3. CASE doer[p].pc \in Guarded
  <2>1. doer[q].pc \notin Guarded
    BY <1>3, Alone DEF MigrationInv
  <2>2. QED
    BY <1>1, <1>2, <2>1 DEF Decision, Is, Guarded
<1>4. CASE UNCHANGED <<db, sql, fence, dirs, committed, cutover>>
  BY <1>1, <1>2, <1>4 DEF Decision, Is, Complete
<1>5. QED
  BY <1>3, <1>4

\* A step of one process.
LEMMA Steps ==
  ASSUME MigrationInv, NEW p \in Procs, NEW d, Becomes(p, d), Guarding(p, d),
         doer[p].pc \in Guarded \/ UNCHANGED <<db, sql, fence, dirs, committed, cutover>>,
         origins' = origins, committed \subseteq committed', legacy \subseteq legacy',
         Decision(p)', Reading(p)', StoresTyped', DatabaseLife', ImportsComplete',
         AcceptedKept', ReadsSeeAccepted'
  PROVE  MigrationInv'
<1>1. DoersTyped' /\ GuardHeld'
  BY GuardMoves DEF MigrationInv
<1>2. Decisions' /\ Readings'
  BY OthersStand DEF Decisions, Readings
<1>3. QED
  BY <1>1, <1>2 DEF MigrationInv

LEMMA StoresStill ==
  ASSUME MigrationInv, UNCHANGED <<stores, committed, cutover>>
  PROVE  StoresTyped' /\ DatabaseLife' /\ ImportsComplete' /\ AcceptedKept'
BY DEF MigrationInv, stores, files, StoresTyped, DatabaseLife, ImportsComplete, AcceptedKept,
       Complete, Openable

\* A step that changes neither a store nor what was promised.
LEMMA QuietSteps ==
  ASSUME MigrationInv, NEW p \in Procs, NEW d, Becomes(p, d), Guarding(p, d),
         UNCHANGED <<stores, told>>, Decision(p)', Reading(p)'
  PROVE  MigrationInv'
<1>1. StoresTyped' /\ DatabaseLife' /\ ImportsComplete' /\ AcceptedKept'
  BY StoresStill DEF told
<1>2. ReadsSeeAccepted'
  BY DEF MigrationInv, ReadsSeeAccepted, told
<1>3. UNCHANGED <<db, sql, fence, dirs, committed, cutover, origins, legacy>>
  BY DEF stores, told, files
<1>4. QED
  BY <1>1, <1>2, <1>3, Steps

LEMMA RestingLegal == Resting \in Doing /\ Resting.pc = "rest" /\ Resting.pc \in Free
BY DEF Resting, Doing, Doings, Legal, Free, Writing, Snapshots

LEMMA DoneRests ==
  ASSUME MigrationInv, NEW p \in Procs, Done(p)
  PROVE  /\ Becomes(p, Resting) /\ Guarding(p, Resting)
         /\ Decision(p)' /\ Reading(p)'
<1>1. Becomes(p, Resting) /\ Guarding(p, Resting)
  BY RestingLegal DEF Done, Becomes, Guarding
<1>2. doer'[p].pc = "rest"
  BY <1>1, RestingLegal DEF Becomes, MigrationInv, DoersTyped
<1>3. QED
  BY <1>1, <1>2 DEF Decision, Reading, Is

\* Where a process goes by a change of its pc alone.
Then(p, pc) == [doer[p] EXCEPT !.pc = pc]

LEMMA MoveBecomes ==
  ASSUME MigrationInv, NEW p \in Procs, NEW pc \in Guarded \cup Free, Move(p, pc),
         Legal(Then(p, pc))
  PROVE  /\ Becomes(p, Then(p, pc)) /\ Then(p, pc).pc = pc
         /\ doer'[p].pc = pc /\ doer'[p].op = doer[p].op /\ doer'[p].item = doer[p].item
         /\ doer'[p].dir = doer[p].dir /\ doer'[p].saw = doer[p].saw
<1>1. doer \in [Procs -> Doing] /\ doer[p] \in Doings
  BY DEF MigrationInv, DoersTyped, Doing
<1>2. /\ Then(p, pc) \in Doings /\ Then(p, pc).pc = pc /\ Then(p, pc).op = doer[p].op
      /\ Then(p, pc).item = doer[p].item /\ Then(p, pc).dir = doer[p].dir
      /\ Then(p, pc).saw = doer[p].saw
  BY <1>1 DEF Then, Doings
<1>3. doer' = [doer EXCEPT ![p] = Then(p, pc)]
  BY <1>1 DEF Move, Then
<1>4. QED
  BY <1>1, <1>2, <1>3 DEF Becomes, Doing

-----------------------------------------------------------------------------
(***************************************************************************)
(* Steps that only decide.                                                 *)
(***************************************************************************)

LEMMA ProcessTyped ==
  ASSUME MigrationInv, NEW p \in Procs
  PROVE  /\ doer[p] \in Doings /\ Legal(doer[p])
         /\ doer[p].dir \in Snapshots /\ doer[p].pc \in Guarded \cup Free
         /\ doer[p].pc \in Guarded <=> guard = p
BY DEF MigrationInv, DoersTyped, GuardHeld, Doing, Doings

\* The calls.
LEMMA CallsQuiet ==
  ASSUME MigrationInv, NEW p \in Procs,
         \/ \E x \in Items : WriteCall(p, x, "strict") \/ WriteCall(p, x, "qualified")
         \/ \E d \in Backups : EnsureCall(p, d)
         \/ CacheCall(p) \/ ReadCall(p)
  PROVE  MigrationInv'
<1>1. doer[p].pc \notin Guarded /\ StoresTyped
  BY DEF WriteCall, EnsureCall, CacheCall, ReadCall, Is, Guarded, MigrationInv
<1>2. ASSUME NEW d \in Doings, doer' = [doer EXCEPT ![p] = d], Legal(d),
             d.pc = "prepare" \/ (d.pc = "read" /\ d.saw = committed),
             UNCHANGED <<stores, guard, locked, told>>
      PROVE  MigrationInv'
  <2>1. Becomes(p, d) /\ d.pc \notin Guarded
    BY <1>2 DEF Becomes, Doing, Guarded
  <2>2. Guarding(p, d)
    BY <1>1, <1>2, <2>1 DEF Guarding, MigrationInv, DoersTyped
  <2>3. doer'[p] = d
    BY <2>1 DEF Becomes, MigrationInv, DoersTyped
  <2>4. Decision(p)' /\ Reading(p)'
    BY <1>2, <2>3 DEF Decision, Reading, Is, told
  <2>5. QED
    BY <1>2, <2>1, <2>2, <2>4, QuietSteps
<1>3. "prepare" \in Guarded \cup Free /\ "read" \in Guarded \cup Free
  BY DEF Guarded, Free
<1>4. ASSUME NEW x \in Items, NEW op \in {"strict", "qualified"}, WriteCall(p, x, op)
      PROVE  MigrationInv'
  <2> DEFINE d == [Resting EXCEPT !.pc = "prepare", !.op = op, !.item = x]
  <2>1. d \in Doings /\ Legal(d) /\ d.pc = "prepare"
    BY <1>3 DEF Resting, Doings, Legal, Writing, Snapshots
  <2>2. doer' = [doer EXCEPT ![p] = d] /\ UNCHANGED <<stores, guard, locked, told>>
    BY <1>4 DEF WriteCall
  <2> HIDE DEF d
  <2>3. QED
    BY <1>2, <2>1, <2>2
<1>5. ASSUME NEW b \in Backups, EnsureCall(p, b) PROVE MigrationInv'
  <2> DEFINE d == [Resting EXCEPT !.pc = "prepare", !.op = "ensure", !.dir = b]
  <2>1. d \in Doings /\ Legal(d) /\ d.pc = "prepare"
    BY <1>3 DEF Resting, Doings, Legal, Writing, Snapshots
  <2>2. doer' = [doer EXCEPT ![p] = d] /\ UNCHANGED <<stores, guard, locked, told>>
    BY <1>5 DEF EnsureCall
  <2> HIDE DEF d
  <2>3. QED
    BY <1>2, <2>1, <2>2
<1>6. CASE CacheCall(p)
  <2> DEFINE d == [Resting EXCEPT !.pc = "prepare", !.op = "cache"]
  <2>1. d \in Doings /\ Legal(d) /\ d.pc = "prepare"
    BY <1>3 DEF Resting, Doings, Legal, Writing, Snapshots
  <2>2. doer' = [doer EXCEPT ![p] = d] /\ UNCHANGED <<stores, guard, locked, told>>
    BY <1>6 DEF CacheCall
  <2> HIDE DEF d
  <2>3. QED
    BY <1>2, <2>1, <2>2
<1>7. CASE ReadCall(p)
  <2> DEFINE d == [Resting EXCEPT !.pc = "read", !.op = "read", !.saw = committed]
  <2>1. d \in Doings /\ Legal(d) /\ d.pc = "read" /\ d.saw = committed
    BY <1>1, <1>3 DEF Resting, Doings, Legal, Writing, Snapshots, StoresTyped
  <2>2. doer' = [doer EXCEPT ![p] = d] /\ UNCHANGED <<stores, guard, locked, told>>
    BY <1>7 DEF ReadCall
  <2> HIDE DEF d
  <2>3. QED
    BY <1>2, <2>1, <2>2
<1>8. QED
  BY <1>4, <1>5, <1>6, <1>7

\* A process under the guard goes on to another step of it.
LEMMA GoesOn ==
  ASSUME MigrationInv, NEW p \in Procs, NEW pc \in Guarded, Move(p, pc), Legal(Then(p, pc)),
         doer[p].pc \in Guarded, guard' = guard, locked' \subseteq Origins
  PROVE  Becomes(p, Then(p, pc)) /\ Guarding(p, Then(p, pc))
BY MoveBecomes DEF Guarding

LEMMA LetsGo ==
  ASSUME MigrationInv, NEW p \in Procs, NEW pc \in Free, Release(p, pc), Legal(Then(p, pc)),
         doer[p].pc \in Guarded
  PROVE  Becomes(p, Then(p, pc)) /\ Guarding(p, Then(p, pc))
BY MoveBecomes, ProcessTyped DEF Guarding, Release

LEMMA GuardQuiet ==
  ASSUME MigrationInv, NEW p \in Procs, AcquireGuard(p)
  PROVE  MigrationInv'
<1>1. /\ guard = Nobody /\ guard' = p /\ locked' = locked /\ UNCHANGED <<stores, told>>
  BY DEF AcquireGuard
<1>2. ASSUME NEW pc \in {"ensure", "open", "startup", "decide"}, Move(p, pc),
             Legal(Then(p, pc))
      PROVE  MigrationInv'
  <2>1. pc \in Guarded
    BY DEF Guarded
  <2>2. Becomes(p, Then(p, pc)) /\ Guarding(p, Then(p, pc)) /\ doer'[p].pc = pc
    BY <1>1, <1>2, <2>1, MoveBecomes DEF Guarding
  <2>3. Decision(p)' /\ Reading(p)'
    BY <1>2, <2>2 DEF Decision, Reading, Is
  <2>4. QED
    BY <1>1, <2>2, <2>3, QuietSteps
<1>3. Legal(doer[p]) /\ doer[p] \in Doings
  BY ProcessTyped
<1>4. CASE Is(p, "prepare") /\ Move(p, First(doer[p].op))
  <2>1. doer[p].op \in {"strict", "qualified", "ensure", "cache"}
    BY <1>3, <1>4 DEF Legal, Is, Writing
  <2>2. CASE doer[p].op = "ensure"
    <3>1. Then(p, "ensure").op = "ensure" /\ Then(p, "ensure").pc = "ensure"
      BY <1>3, <2>2 DEF Then, Doings
    <3>2. Legal(Then(p, "ensure"))
      BY <3>1 DEF Legal, Writing
    <3>3. QED
      BY <1>2, <1>4, <2>2, <3>2 DEF First
  <2>3. CASE doer[p].op = "cache"
    <3>1. Then(p, "open").op = "cache" /\ Then(p, "open").pc = "open"
      BY <1>3, <2>3 DEF Then, Doings
    <3>2. Legal(Then(p, "open"))
      BY <3>1 DEF Legal, Writing
    <3>3. QED
      BY <1>2, <1>4, <2>3, <3>2 DEF First
  <2>4. CASE doer[p].op \in Writing
    <3>1. Then(p, "startup").op = doer[p].op /\ Then(p, "startup").pc = "startup"
          /\ Then(p, "startup").item = doer[p].item /\ Then(p, "startup").dir = doer[p].dir
      BY <1>3 DEF Then, Doings
    <3>2. Legal(Then(p, "startup"))
      BY <1>3, <2>4, <3>1 DEF Legal, Writing
    <3>3. First(doer[p].op) = "startup"
      BY <2>4 DEF First, Writing
    <3>4. QED
      BY <1>2, <1>4, <3>2, <3>3
  <2>5. QED
    BY <2>1, <2>2, <2>3, <2>4 DEF Writing
<1>5. CASE Is(p, "write") /\ Move(p, "decide")
  <2>1. Then(p, "decide").op = doer[p].op /\ Then(p, "decide").pc = "decide"
        /\ Then(p, "decide").item = doer[p].item /\ Then(p, "decide").dir = doer[p].dir
    BY <1>3 DEF Then, Doings
  <2>2. Legal(Then(p, "decide"))
    BY <1>3, <1>5, <2>1 DEF Legal, Is
  <2>3. QED
    BY <1>2, <1>5, <2>2
<1>6. QED
  BY <1>4, <1>5 DEF AcquireGuard

LEMMA ThenLegal ==
  ASSUME MigrationInv, NEW p \in Procs, NEW pc \in Guarded \cup Free,
         \/ doer[p].op \in Writing /\ pc # "ensure"
         \/ /\ doer[p].op = "ensure"
            /\ pc \notin {"startup", "publish", "write", "decide", "files", "sql"}
         \/ pc \in {"row", "readfiles"}
         \/ doer[p].op = "cache" /\ pc = "schema"
  PROVE  Legal(Then(p, pc))
<1>1. /\ Then(p, pc).op = doer[p].op /\ Then(p, pc).pc = pc
      /\ Then(p, pc).item = doer[p].item /\ Then(p, pc).dir = doer[p].dir /\ Legal(doer[p])
  BY ProcessTyped DEF Then, Doings
<1>2. QED
  BY <1>1 DEF Legal, Writing

LEMMA EndsQuiet ==
  ASSUME MigrationInv, NEW p \in Procs, Done(p), UNCHANGED <<stores, told>>
  PROVE  MigrationInv'
BY DoneRests, QuietSteps

LEMMA DecidesQuiet ==
  ASSUME MigrationInv, NEW p \in Procs,
         Prepare(p) \/ NoBackup(p) \/ Ensure(p) \/ Decide(p)
  PROVE  MigrationInv'
<1>1. UNCHANGED <<stores, told>> /\ doer[p].pc \in Guarded
  BY DEF Prepare, NoBackup, Ensure, Decide, Is, Guarded
<1>2. ASSUME NEW pc \in Guarded \cup Free, Legal(Then(p, pc)),
             \/ pc \in Guarded /\ Move(p, pc) /\ UNCHANGED <<guard, locked>>
             \/ pc \in Free /\ Release(p, pc),
             pc \notin {"schema", "manifest", "commit", "read", "readfiles"},
             pc = "files" => db # "active" /\ ~cutover,
             pc = "sql" => db = "active",
             pc = "import" => Complete(doer[p].dir)
      PROVE  MigrationInv'
  <2>1. Move(p, pc)
    BY <1>2 DEF Release
  <2>2. doer'[p].pc = pc
    BY <1>2, <2>1, MoveBecomes
  <2>3. Becomes(p, Then(p, pc)) /\ Guarding(p, Then(p, pc))
    BY <1>1, <1>2, GoesOn, LetsGo DEF MigrationInv, DoersTyped
  <2>4. Decision(p)' /\ Reading(p)'
    <3>1. doer'[p].dir = doer[p].dir /\ dirs' = dirs
      BY <1>1, <1>2, <2>1, MoveBecomes DEF stores
    <3>2. QED
      BY <1>1, <1>2, <2>2, <3>1 DEF Decision, Reading, Is, Complete, stores, told
  <2>5. QED
    BY <1>1, <2>3, <2>4, QuietSteps
<1>3. Legal(doer[p])
  BY ProcessTyped
<1>4. CASE Prepare(p)
  <2>1. Is(p, "startup") /\ doer[p].op \in Writing
    BY <1>3, <1>4 DEF Prepare, Is, Legal
  <2>2. PICK pc \in {"write", "import", "publish"} :
          /\ IF pc = "write" THEN Release(p, pc) ELSE Move(p, pc) /\ UNCHANGED <<guard, locked>>
          /\ pc = "import" => Resumable
    BY <1>4 DEF Prepare, StartupNext
  <2>3. pc \in Guarded \cup Free /\ (pc = "write" <=> pc \in Free)
        /\ (pc # "write" => pc \in Guarded)
    BY DEF Guarded, Free
  <2>4. Legal(Then(p, pc))
    BY <2>1, <2>3, ThenLegal
  <2>5. ASSUME pc = "import" PROVE Complete(doer[p].dir)
    <3>1. dirs[Startup] = [items |-> {}, origins |-> origins] /\ origins \subseteq Origins
      BY <2>2, <2>5 DEF Resumable, MigrationInv, StoresTyped
    <3>2. dirs[Startup] \in Manifests
      BY <3>1 DEF Manifests
    <3>3. Complete(Startup)
      BY <3>2, MigrationAssumption DEF Complete, Manifests
    <3>4. QED
      BY <1>3, <1>4, <3>3 DEF Prepare, Is, Legal
  <2>6. QED
    BY <1>2, <2>2, <2>3, <2>4, <2>5
<1>5. CASE NoBackup(p)
  <2>1. doer[p].op \in Writing /\ "write" \in Free /\ Release(p, "write")
    BY <1>3, <1>5 DEF NoBackup, Is, Legal, Free
  <2>2. Legal(Then(p, "write"))
    BY <2>1, ThenLegal
  <2>3. QED
    BY <1>2, <2>1, <2>2
<1>6. CASE Ensure(p)
  <2>1. doer[p].op = "ensure"
    BY <1>3, <1>6 DEF Ensure, Is, Legal
  <2>2. PICK pc \in {"answer", "import", "open"} :
          Move(p, pc) /\ UNCHANGED <<guard, locked>> /\ (pc = "import" => Complete(doer[p].dir))
    BY <1>6 DEF Ensure, EnsureNext
  <2>3. pc \in Guarded
    BY DEF Guarded
  <2>4. Legal(Then(p, pc))
    BY <2>1, <2>3, ThenLegal
  <2>5. QED
    BY <1>2, <2>2, <2>3, <2>4
<1>7. CASE Decide(p)
  <2>1. doer[p].op \in Writing
    BY <1>3, <1>7 DEF Decide, Is, Legal
  <2>2. PICK pc \in {"sql", "files"} : Move(p, pc) /\ UNCHANGED <<guard, locked>>
          /\ (pc = "sql" => db = "active")
          /\ (pc = "files" => db # "active" /\ Openable)
    BY <1>7 DEF Decide, DecideNext
  <2>3. pc \in Guarded
    BY DEF Guarded
  <2>4. Legal(Then(p, pc))
    BY <2>1, <2>3, ThenLegal
  <2>5. pc = "files" => ~cutover
    BY <2>2 DEF Openable, MigrationInv, DatabaseLife
  <2>6. QED
    BY <1>2, <2>2, <2>3, <2>4, <2>5
<1>8. QED
  BY <1>4, <1>5, <1>6, <1>7

-----------------------------------------------------------------------------
(***************************************************************************)
(* Steps of the migration.                                                 *)
(***************************************************************************)

\* A guarded step that leaves the promises of the live backend alone.
LEMMA GuardedSteps ==
  ASSUME MigrationInv, NEW p \in Procs, doer[p].pc \in Guarded,
         NEW pc \in Guarded \cup Free, Legal(Then(p, pc)),
         \/ pc \in Guarded /\ Move(p, pc) /\ guard' = guard /\ locked' \subseteq Origins
         \/ pc \in Free /\ Release(p, pc),
         pc \notin {"read", "readfiles"},
         origins' = origins, legacy' = legacy, UNCHANGED told,
         Decision(p)', StoresTyped', DatabaseLife', ImportsComplete', AcceptedKept'
  PROVE  MigrationInv'
<1>1. doer'[p].pc = pc
  BY MoveBecomes DEF Release
<1>2. Becomes(p, Then(p, pc)) /\ Guarding(p, Then(p, pc))
  BY GoesOn, LetsGo
<1>3. Reading(p)'
  BY <1>1 DEF Reading, Is
<1>4. ReadsSeeAccepted' /\ committed' = committed
  BY DEF MigrationInv, ReadsSeeAccepted, told
<1>5. QED
  BY <1>2, <1>3, <1>4, Steps

LEMMA PublishAttemptInv ==
  ASSUME MigrationInv, NEW p \in Procs, PublishAttempt(p)
  PROVE  MigrationInv'
<1>1. /\ Is(p, "publish") /\ attempt' = origins /\ Move(p, "open")
      /\ UNCHANGED <<db, sql, imported, cached, fence, dirs, legacy, origins, guard, locked,
                     told>>
  BY DEF PublishAttempt, files
<1>2. "open" \in Guarded /\ doer[p].pc \in Guarded /\ doer[p].op \in Writing
  BY <1>1, ProcessTyped DEF Guarded, Is, Legal
<1>3. Legal(Then(p, "open")) /\ doer'[p].pc = "open"
  BY <1>1, <1>2, ThenLegal, MoveBecomes
<1>4. StoresTyped' /\ DatabaseLife' /\ ImportsComplete' /\ AcceptedKept'
  BY <1>1 DEF MigrationInv, StoresTyped, DatabaseLife, ImportsComplete, Complete,
              AcceptedKept, Openable, told
<1>5. Decision(p)' /\ locked' \subseteq Origins
  BY <1>1, <1>3 DEF Decision, Is, MigrationInv, DoersTyped
<1>6. QED
  BY <1>1, <1>2, <1>3, <1>4, <1>5, GuardedSteps

LEMMA CreateDatabaseInv ==
  ASSUME MigrationInv, NEW p \in Procs, CreateDatabase(p)
  PROVE  MigrationInv'
<1>1. /\ Is(p, "open") /\ db = "absent" /\ fence = Absent /\ db' = "empty"
      /\ Move(p, "schema")
      /\ UNCHANGED <<sql, imported, cached, fence, attempt, dirs, legacy, origins, guard,
                     locked, told>>
  BY DEF CreateDatabase, files
<1>2. "schema" \in Guarded /\ doer[p].pc \in Guarded
      /\ doer[p].op \in Writing \cup {"ensure", "cache"}
  BY <1>1, ProcessTyped DEF Guarded, Is, Legal
<1>3. Legal(Then(p, "schema")) /\ doer'[p].pc = "schema"
  BY <1>1, <1>2, ThenLegal, MoveBecomes
<1>4. ~cutover
  BY <1>1 DEF MigrationInv, DatabaseLife
<1>5. StoresTyped' /\ DatabaseLife' /\ ImportsComplete' /\ AcceptedKept'
  BY <1>1, <1>4 DEF MigrationInv, StoresTyped, DatabaseLife, ImportsComplete, Complete,
                    AcceptedKept, Openable, told
<1>6. Decision(p)' /\ locked' \subseteq Origins
  BY <1>1, <1>3 DEF Decision, Is, MigrationInv, DoersTyped
<1>7. QED
  BY <1>1, <1>2, <1>3, <1>5, <1>6, GuardedSteps

LEMMA OpenDatabaseInv ==
  ASSUME MigrationInv, NEW p \in Procs, OpenDatabase(p)
  PROVE  MigrationInv'
<1>1. /\ \/ Is(p, "schema") /\ db' = "shadow"
         \/ Is(p, "open") /\ db \in {"shadow", "active"} /\ UNCHANGED db
      /\ IF doer[p].op = "cache" THEN Release(p, "row")
         ELSE Move(p, "freeze") /\ UNCHANGED <<guard, locked>>
      /\ UNCHANGED <<sql, imported, cached, fence, attempt, dirs, legacy, origins, told>>
  BY DEF OpenDatabase, files
<1>2. "freeze" \in Guarded /\ "row" \in Free /\ doer[p].pc \in Guarded
      /\ doer[p].op \in Writing \cup {"ensure", "cache"}
  BY <1>1, ProcessTyped DEF Guarded, Free, Is, Legal
<1>3. StoresTyped' /\ DatabaseLife' /\ ImportsComplete' /\ AcceptedKept'
  <2>1. CASE UNCHANGED db
    BY <1>1, <2>1, StoresStill
    DEF MigrationInv, StoresTyped, DatabaseLife, ImportsComplete, Complete,
        AcceptedKept, Openable, told
  <2>2. CASE Is(p, "schema") /\ db' = "shadow"
    <3>1. db = "empty" /\ imported = Absent /\ fence = Absent /\ ~cutover
      BY <2>2 DEF MigrationInv, Decisions, Decision, DatabaseLife
    <3>2. QED
      BY <1>1, <2>2, <3>1 DEF MigrationInv, StoresTyped, DatabaseLife, ImportsComplete,
                              Complete, AcceptedKept, Openable, told
  <2>3. QED
    BY <1>1, <2>1, <2>2
<1>4. locked \subseteq Origins
  BY DEF MigrationInv, DoersTyped
<1>5. CASE doer[p].op = "cache"
  <2>1. Release(p, "row") /\ Legal(Then(p, "row"))
    BY <1>1, <1>2, <1>5, ThenLegal
  <2>2. doer'[p].pc = "row"
    BY <1>2, <2>1, MoveBecomes DEF Release
  <2>3. Decision(p)'
    BY <2>2 DEF Decision, Is
  <2>4. QED
    BY <1>1, <1>2, <1>3, <2>1, <2>3, GuardedSteps
<1>6. CASE doer[p].op # "cache"
  <2>1. Move(p, "freeze") /\ UNCHANGED <<guard, locked>> /\ Legal(Then(p, "freeze"))
    BY <1>1, <1>2, <1>6, ThenLegal
  <2>2. doer'[p].pc = "freeze"
    BY <1>2, <2>1, MoveBecomes
  <2>3. Decision(p)'
    BY <2>2 DEF Decision, Is
  <2>4. QED
    BY <1>1, <1>2, <1>3, <1>4, <2>1, <2>3, GuardedSteps
<1>7. QED
  BY <1>5, <1>6

LEMMA SaveInventoryInv ==
  ASSUME MigrationInv, NEW p \in Procs, SaveInventory(p)
  PROVE  MigrationInv'
<1>1. /\ Done(p)
      /\ UNCHANGED <<db, sql, imported, fence, attempt, dirs, legacy, origins, told>>
  BY DEF SaveInventory, files
<1>2. /\ StoresTyped' /\ DatabaseLife' /\ ImportsComplete' /\ AcceptedKept'
      /\ ReadsSeeAccepted' /\ UNCHANGED <<committed, cutover>>
  BY <1>1 DEF MigrationInv, StoresTyped, DatabaseLife, ImportsComplete, Complete,
              AcceptedKept, Openable, ReadsSeeAccepted, told
<1>3. Becomes(p, Resting) /\ Guarding(p, Resting) /\ Decision(p)' /\ Reading(p)'
  BY <1>1, DoneRests
<1>4. QED
  BY <1>1, <1>2, <1>3, Steps

LEMMA FreezeInv ==
  ASSUME MigrationInv, NEW p \in Procs, Freeze(p)
  PROVE  MigrationInv'
<1> DEFINE d == [doer[p] EXCEPT !.pc = "manifest", !.saw = Inventory]
<1>1. /\ Is(p, "freeze") /\ dirs[doer[p].dir] = Absent
      /\ locked' = Holding(legacy)
      /\ dirs' = [dirs EXCEPT ![doer[p].dir] = Partial]
      /\ doer' = [doer EXCEPT ![p].pc = "manifest", ![p].saw = Inventory]
      /\ UNCHANGED <<db, sql, imported, cached, fence, attempt, legacy, origins, guard, told>>
  BY DEF Freeze, files
<1>2. /\ StoresTyped /\ doer \in [Procs -> Doing] /\ doer[p] \in Doings /\ Legal(doer[p])
      /\ doer[p].dir \in Snapshots /\ "manifest" \in Guarded
  BY ProcessTyped DEF MigrationInv, DoersTyped, Guarded
<1>3. Inventory \in Manifests
  BY <1>2 DEF StoresTyped, Inventory, Manifests
<1>4. /\ d \in Doings /\ d.pc = "manifest" /\ d.saw = Inventory /\ d.op = doer[p].op
      /\ d.item = doer[p].item /\ d.dir = doer[p].dir
  <2>1. d = [pc |-> "manifest", op |-> doer[p].op, item |-> doer[p].item,
             dir |-> doer[p].dir, saw |-> Inventory]
    <3> DEFINE q == [doer[p] EXCEPT !.pc = "manifest"]
    <3>1. q = [pc |-> "manifest", op |-> doer[p].op, item |-> doer[p].item,
               dir |-> doer[p].dir, saw |-> doer[p].saw]
      BY <1>2 DEF Doings
    <3>2. [q EXCEPT !.saw = Inventory] =
            [pc |-> "manifest", op |-> doer[p].op, item |-> doer[p].item,
             dir |-> doer[p].dir, saw |-> Inventory]
      <4> HIDE DEF q
      <4> QED
        BY <3>1
    <3>3. QED
      BY <3>2
  <2>2. "manifest" \in Guarded \cup Free /\ Inventory \in (SUBSET Items) \cup Manifests
    BY <1>2, <1>3
  <2> HIDE DEF d
  <2>3. QED
    BY <1>2, <2>1, <2>2 DEF Doings
<1>5. Becomes(p, d)
  <2>1. Legal(d)
    BY <1>1, <1>2, <1>4 DEF Legal, Is
  <2>2. doer' = [doer EXCEPT ![p] = d]
    BY <1>1, <1>2
  <2>3. QED
    BY <1>4, <2>1, <2>2 DEF Becomes, Doing
<1>6. Guarding(p, d)
  <2>1. locked' \subseteq Origins
    BY <1>1, <1>2, MigrationAssumption DEF Holding, StoresTyped
  <2>2. doer[p].pc \in Guarded
    BY <1>1 DEF Is, Guarded
  <2>3. QED
    BY <1>1, <1>2, <1>4, <2>1, <2>2 DEF Guarding
<1> HIDE DEF d
<1>7. doer'[p] = d
  BY <1>2, <1>5 DEF Becomes
<1>8. /\ dirs' \in [Snapshots -> {Absent, Partial} \cup Manifests]
      /\ dirs'[doer[p].dir] = Partial
      /\ \A s \in Snapshots \ {doer[p].dir} : dirs'[s] = dirs[s]
  BY <1>1, <1>2 DEF StoresTyped
<1>9. Decision(p)' /\ Reading(p)'
  BY <1>3, <1>4, <1>7, <1>8 DEF Decision, Reading, Is
<1>10. StoresTyped' /\ DatabaseLife' /\ AcceptedKept' /\ ReadsSeeAccepted'
  BY <1>1, <1>8 DEF MigrationInv, StoresTyped, DatabaseLife, AcceptedKept, Openable,
                    ReadsSeeAccepted, told
<1>11. ImportsComplete'
  <2>1. imported # doer[p].dir \/ imported = Absent
    BY <1>1 DEF MigrationInv, ImportsComplete, Complete
  <2>2. fence # doer[p].dir \/ fence = Absent
    BY <1>1 DEF MigrationInv, ImportsComplete, Complete
  <2>3. QED
    BY <1>1, <1>2, <1>8, <2>1, <2>2
    DEF MigrationInv, ImportsComplete, Complete, StoresTyped
<1>12. doer[p].pc \in Guarded /\ origins' = origins /\ committed' = committed
       /\ legacy' = legacy
  BY <1>1 DEF Is, Guarded, told
<1>13. QED
  BY <1>5, <1>6, <1>9, <1>10, <1>11, <1>12, Steps

LEMMA WriteManifestInv ==
  ASSUME MigrationInv, NEW p \in Procs, WriteManifest(p)
  PROVE  MigrationInv'
<1> DEFINE s == doer[p].dir
<1>1. /\ Is(p, "manifest") /\ dirs' = [dirs EXCEPT ![s] = doer[p].saw] /\ locked' = {}
      /\ \/ doer' = [doer EXCEPT ![p] = Resting] /\ guard' = Nobody
         \/ Move(p, "import") /\ UNCHANGED guard
      /\ UNCHANGED <<db, sql, imported, cached, fence, attempt, legacy, origins, told>>
  BY DEF WriteManifest, files
<1>2. /\ StoresTyped /\ doer \in [Procs -> Doing] /\ s \in Snapshots
      /\ dirs[s] = Partial /\ doer[p].saw \in Manifests
      /\ doer[p].op \in Writing \cup {"ensure"} /\ guard = p
      /\ doer[p].pc \in Guarded /\ "import" \in Guarded
  BY <1>1, ProcessTyped
  DEF MigrationInv, DoersTyped, Decisions, Decision, Is, Guarded, Legal
<1>3. /\ dirs' \in [Snapshots -> {Absent, Partial} \cup Manifests]
      /\ \A r \in Snapshots \ {s} : dirs'[r] = dirs[r]
  BY <1>1, <1>2 DEF StoresTyped
<1>4. StoresTyped' /\ DatabaseLife' /\ AcceptedKept' /\ ReadsSeeAccepted'
  BY <1>1, <1>3 DEF MigrationInv, StoresTyped, DatabaseLife, AcceptedKept, Openable,
                    ReadsSeeAccepted, told
<1>5. ImportsComplete'
  <2>1. imported # s /\ fence # s
    BY <1>2, MigrationAssumption DEF MigrationInv, ImportsComplete, Complete, Snapshots
  <2>2. QED
    BY <1>1, <1>2, <1>3, <2>1 DEF MigrationInv, ImportsComplete, Complete, StoresTyped
<1>6. origins' = origins /\ committed' = committed /\ legacy' = legacy
  BY <1>1 DEF told
<1>7. CASE doer' = [doer EXCEPT ![p] = Resting] /\ guard' = Nobody
  <2>1. Becomes(p, Resting) /\ Guarding(p, Resting)
    BY <1>1, <1>2, <1>7, RestingLegal DEF Becomes, Guarding
  <2>2. doer'[p].pc = "rest"
    BY <1>2, <1>7, RestingLegal
  <2>3. Decision(p)' /\ Reading(p)'
    BY <2>2 DEF Decision, Reading, Is
  <2>4. QED
    BY <1>2, <1>4, <1>5, <1>6, <2>1, <2>3, Steps
<1>8. CASE Move(p, "import") /\ UNCHANGED guard
  <2>1. Legal(Then(p, "import")) /\ doer'[p].pc = "import" /\ doer'[p].dir = s
    BY <1>2, <1>8, ThenLegal, MoveBecomes
  <2>2. Decision(p)'
    <3>1. dirs'[s] = doer[p].saw /\ doer[p].saw \notin {Absent, Partial}
      BY <1>1, <1>2, MigrationAssumption DEF StoresTyped, Manifests
    <3>2. QED
      BY <2>1, <3>1 DEF Decision, Is, Complete
  <2>3. QED
    BY <1>1, <1>2, <1>4, <1>5, <1>8, <2>1, <2>2, GuardedSteps
<1>9. QED
  BY <1>1, <1>7, <1>8

LEMMA ImportShadowInv ==
  ASSUME MigrationInv, NEW p \in Procs, ImportShadow(p)
  PROVE  MigrationInv'
<1> DEFINE s == doer[p].dir
<1>1. /\ Is(p, "import") /\ db = "shadow" /\ Importable(s)
      /\ sql' = dirs[s].items /\ imported' = s /\ Move(p, "activate")
      /\ UNCHANGED <<db, cached, fence, attempt, dirs, legacy, origins, guard, locked, told>>
  BY DEF ImportShadow, ImportDomains, files
<1>2. /\ StoresTyped /\ s \in Snapshots /\ s # Absent
      /\ doer[p].op \in Writing \cup {"ensure"} /\ locked \subseteq Origins
      /\ doer[p].pc \in Guarded /\ "activate" \in Guarded
  BY <1>1, ProcessTyped, MigrationAssumption
  DEF MigrationInv, DoersTyped, Is, Guarded, Legal, Snapshots
<1>3. imported = Absent \/ imported = s
  BY <1>1 DEF Importable
<1>4. Complete(s) /\ dirs[s] \in Manifests
  BY <1>1, <1>2 DEF MigrationInv, Decisions, Decision, Complete, StoresTyped
<1>5. StoresTyped'
  <2>1. sql' \subseteq Items
    BY <1>1, <1>4 DEF Manifests
  <2> HIDE DEF s
  <2>2. QED
    BY <1>1, <1>2, <2>1 DEF StoresTyped, told
<1>6. fence = Absent \/ fence = s
  BY <1>1, <1>3 DEF MigrationInv, DatabaseLife
<1>7. DatabaseLife' /\ ImportsComplete' /\ AcceptedKept'
  BY <1>1, <1>2, <1>4, <1>6 DEF MigrationInv, DatabaseLife, ImportsComplete, Complete,
                                AcceptedKept, Openable, told
<1>8. Legal(Then(p, "activate")) /\ doer'[p].pc = "activate"
  BY <1>1, <1>2, ThenLegal, MoveBecomes
<1>9. Decision(p)'
  BY <1>8 DEF Decision, Is
<1> HIDE DEF s
<1>10. QED
  BY <1>1, <1>2, <1>5, <1>7, <1>8, <1>9, GuardedSteps

LEMMA ActivateStoreInv ==
  ASSUME MigrationInv, NEW p \in Procs, ActivateStore(p)
  PROVE  MigrationInv'
<1>1. /\ Is(p, "activate") /\ db = "shadow" /\ imported = doer[p].dir
      /\ Unchanged(dirs[imported]) /\ DomainsMatch(imported)
      /\ fence' = imported /\ locked' = Holding(legacy) /\ Move(p, "commit")
      /\ UNCHANGED <<db, sql, imported, cached, attempt, dirs, legacy, origins, guard, told>>
  BY DEF ActivateStore, files
<1>2. /\ StoresTyped /\ imported \in Snapshots /\ imported # Absent
      /\ doer[p].op \in Writing \cup {"ensure"}
      /\ doer[p].pc \in Guarded /\ "commit" \in Guarded
  BY <1>1, ProcessTyped, MigrationAssumption DEF MigrationInv, Is, Guarded, Legal, Snapshots
<1>3. committed \subseteq sql /\ ~cutover
  BY <1>1 DEF MigrationInv, AcceptedKept, DatabaseLife, Unchanged, DomainsMatch
<1>4. StoresTyped' /\ DatabaseLife' /\ ImportsComplete' /\ AcceptedKept'
  BY <1>1, <1>2, <1>3 DEF MigrationInv, StoresTyped, DatabaseLife, ImportsComplete, Complete,
                          AcceptedKept, Openable, told
<1>5. locked' \subseteq Origins
  BY <1>1, <1>2, MigrationAssumption DEF Holding, StoresTyped
<1>6. Legal(Then(p, "commit")) /\ doer'[p].pc = "commit"
  BY <1>1, <1>2, ThenLegal, MoveBecomes
<1>7. Decision(p)'
  BY <1>1, <1>2, <1>3, <1>6 DEF Decision, Is, told
<1>8. QED
  BY <1>1, <1>2, <1>4, <1>5, <1>6, <1>7, GuardedSteps

LEMMA CommitActiveInv ==
  ASSUME MigrationInv, NEW p \in Procs, CommitActive(p)
  PROVE  MigrationInv'
<1>1. /\ Is(p, "commit") /\ db' = "active" /\ cutover' = TRUE
      /\ IF doer[p].op = "ensure"
         THEN Move(p, "answer") /\ locked' = {} /\ UNCHANGED guard
         ELSE Release(p, "write")
      /\ UNCHANGED <<sql, imported, cached, fence, attempt, dirs, legacy, origins, committed,
                     answered>>
  BY DEF CommitActive, files
<1>2. /\ committed \subseteq sql /\ fence # Absent
      /\ doer[p].op \in Writing \cup {"ensure"} /\ doer[p].pc \in Guarded
      /\ "answer" \in Guarded /\ "write" \in Free
  BY <1>1, ProcessTyped DEF MigrationInv, Decisions, Decision, Is, Guarded, Free, Legal
<1>3. /\ StoresTyped' /\ DatabaseLife' /\ ImportsComplete' /\ AcceptedKept'
      /\ ReadsSeeAccepted'
  BY <1>1, <1>2 DEF MigrationInv, StoresTyped, DatabaseLife, ImportsComplete, Complete,
                    AcceptedKept, ReadsSeeAccepted
<1>4. ASSUME NEW pc \in {"answer", "write"}, doer'[p].pc = pc, NEW d, Becomes(p, d),
             Guarding(p, d)
      PROVE  MigrationInv'
  <2>1. Decision(p)' /\ Reading(p)'
    BY <1>4 DEF Decision, Reading, Is
  <2>2. QED
    BY <1>1, <1>2, <1>3, <1>4, <2>1, Steps
<1>5. CASE doer[p].op = "ensure"
  <2>1. Move(p, "answer") /\ Legal(Then(p, "answer")) /\ guard' = guard
    BY <1>1, <1>2, <1>5, ThenLegal
  <2>2. doer'[p].pc = "answer" /\ locked' \subseteq Origins
    BY <1>1, <1>2, <1>5, <2>1, MoveBecomes
  <2>3. Becomes(p, Then(p, "answer")) /\ Guarding(p, Then(p, "answer"))
    BY <1>2, <2>1, <2>2, GoesOn
  <2>4. QED
    BY <1>4, <2>2, <2>3
<1>6. CASE doer[p].op # "ensure"
  <2>1. Release(p, "write") /\ Legal(Then(p, "write"))
    BY <1>1, <1>2, <1>6, ThenLegal
  <2>2. doer'[p].pc = "write"
    BY <1>2, <2>1, MoveBecomes DEF Release
  <2>3. Becomes(p, Then(p, "write")) /\ Guarding(p, Then(p, "write"))
    BY <1>2, <2>1, LetsGo
  <2>4. QED
    BY <1>4, <2>2, <2>3
<1>7. QED
  BY <1>5, <1>6

-----------------------------------------------------------------------------
(***************************************************************************)
(* Writes and reads.                                                       *)
(***************************************************************************)

LEMMA CommitWriteInv ==
  ASSUME MigrationInv, NEW p \in Procs, CommitWrite(p)
  PROVE  MigrationInv'
<1> DEFINE x == doer[p].item
<1>1. /\ doer[p].pc \in {"files", "sql"}
      /\ \/ Is(p, "files") /\ legacy' = legacy \cup {x} /\ UNCHANGED sql
         \/ Is(p, "sql") /\ sql' = sql \cup {x} /\ UNCHANGED legacy
      /\ committed' = committed \cup {x} /\ Done(p)
      /\ UNCHANGED <<db, imported, cached, fence, attempt, dirs, origins, answered, cutover>>
  BY DEF CommitWrite
<1>2. x \in Items /\ doer[p].pc \in Guarded
  BY <1>1, ProcessTyped DEF Legal, Guarded
<1>3. (Is(p, "files") => db # "active" /\ ~cutover) /\ (Is(p, "sql") => db = "active")
  BY DEF MigrationInv, Decisions, Decision
<1>4. /\ StoresTyped' /\ DatabaseLife' /\ ImportsComplete' /\ AcceptedKept'
      /\ ReadsSeeAccepted'
  <2>1. StoresTyped' /\ ReadsSeeAccepted' /\ DatabaseLife'
    BY <1>1, <1>2 DEF MigrationInv, StoresTyped, ReadsSeeAccepted, DatabaseLife
  <2>2. ImportsComplete'
    BY <1>1, <1>3 DEF MigrationInv, ImportsComplete, Complete, Is
  <2>3. AcceptedKept'
    BY <1>1, <1>3 DEF MigrationInv, AcceptedKept, Openable, Is
  <2>4. QED
    BY <2>1, <2>2, <2>3
<1>5. Becomes(p, Resting) /\ Guarding(p, Resting) /\ Decision(p)' /\ Reading(p)'
  BY <1>1, DoneRests
<1>6. origins' = origins /\ committed \subseteq committed' /\ legacy \subseteq legacy'
  BY <1>1
<1>7. QED
  BY <1>2, <1>4, <1>5, <1>6, Steps

LEMMA ReadDecideInv ==
  ASSUME MigrationInv, NEW p \in Procs, ReadDecide(p)
  PROVE  MigrationInv'
<1>1. /\ Is(p, "read") /\ Openable /\ UNCHANGED <<stores, committed, cutover>>
      /\ IF db = "active"
         THEN /\ answered' = answered \cup {[seen |-> sql, due |-> doer[p].saw \cap committed]}
              /\ Done(p)
         ELSE Move(p, "readfiles") /\ UNCHANGED <<guard, locked, answered>>
  BY DEF ReadDecide
<1>2. /\ StoresTyped' /\ DatabaseLife' /\ ImportsComplete' /\ AcceptedKept'
      /\ UNCHANGED <<db, sql, fence, dirs, committed, cutover, origins, legacy>>
  BY <1>1, StoresStill DEF stores, files
<1>3. CASE db = "active"
  <2>1. Becomes(p, Resting) /\ Guarding(p, Resting) /\ Decision(p)' /\ Reading(p)'
    BY <1>1, <1>3, DoneRests
  <2>2. ReadsSeeAccepted'
    BY <1>1, <1>3 DEF MigrationInv, ReadsSeeAccepted, AcceptedKept
  <2>3. QED
    BY <1>2, <2>1, <2>2, Steps
<1>4. CASE db # "active"
  <2>1. "readfiles" \in Free /\ Move(p, "readfiles") /\ UNCHANGED <<guard, locked, answered>>
    BY <1>1, <1>4 DEF Free
  <2>2. Legal(Then(p, "readfiles"))
    BY <2>1, ThenLegal
  <2>3. /\ Becomes(p, Then(p, "readfiles")) /\ Then(p, "readfiles").pc = "readfiles"
        /\ doer'[p].pc = "readfiles" /\ doer'[p].saw = doer[p].saw
    BY <2>1, <2>2, MoveBecomes
  <2>4. Guarding(p, Then(p, "readfiles"))
    BY <1>1, <2>1, <2>3 DEF Guarding, Is, Guarded, MigrationInv, DoersTyped
  <2>5. committed \subseteq legacy
    BY <1>1, <1>4 DEF Openable, MigrationInv, AcceptedKept, DatabaseLife
  <2>6. Decision(p)' /\ Reading(p)'
    BY <1>1, <1>2, <2>3, <2>5 DEF Decision, Reading, Is, MigrationInv, Readings
  <2>7. ReadsSeeAccepted'
    BY <2>1 DEF MigrationInv, ReadsSeeAccepted
  <2>8. QED
    BY <1>2, <2>3, <2>4, <2>6, <2>7, Steps
<1>5. QED
  BY <1>3, <1>4

LEMMA ReadFilesInv ==
  ASSUME MigrationInv, NEW p \in Procs, ReadFiles(p)
  PROVE  MigrationInv'
<1>1. /\ Is(p, "readfiles") /\ UNCHANGED <<stores, committed, cutover>> /\ Done(p)
      /\ answered' = answered \cup
            {[seen |-> legacy,
              due |-> {x \in doer[p].saw \cap committed : OriginOf[x] \in origins}]}
  BY DEF ReadFiles
<1>2. /\ StoresTyped' /\ DatabaseLife' /\ ImportsComplete' /\ AcceptedKept'
      /\ UNCHANGED <<db, sql, fence, dirs, committed, cutover, origins, legacy>>
  BY <1>1, StoresStill DEF stores, files
<1>3. {x \in doer[p].saw \cap committed : OriginOf[x] \in origins} \subseteq legacy
  BY <1>1 DEF MigrationInv, Readings, Reading, StoresTyped
<1>4. ReadsSeeAccepted'
  BY <1>1, <1>3 DEF MigrationInv, ReadsSeeAccepted
<1>5. Becomes(p, Resting) /\ Guarding(p, Resting) /\ Decision(p)' /\ Reading(p)'
  BY <1>1, DoneRests
<1>6. QED
  BY <1>2, <1>4, <1>5, Steps

-----------------------------------------------------------------------------
(***************************************************************************)
(* What others do to the repository.                                       *)
(***************************************************************************)

LEMMA OldWriteInv ==
  ASSUME MigrationInv, NEW x \in Items, OldWrite(x)
  PROVE  MigrationInv'
<1>1. /\ legacy' = legacy \cup {x}
      /\ UNCHANGED <<db, sql, imported, cached, fence, attempt, dirs, origins, guard, locked,
                     doer, committed, answered, cutover>>
  BY DEF OldWrite, told
<1>2. StoresTyped' /\ DoersTyped' /\ GuardHeld' /\ DatabaseLife' /\ ReadsSeeAccepted'
  BY <1>1 DEF MigrationInv, StoresTyped, DoersTyped, GuardHeld, DatabaseLife,
              ReadsSeeAccepted
<1>3. ImportsComplete' /\ AcceptedKept'
  BY <1>1 DEF MigrationInv, ImportsComplete, Complete, AcceptedKept, Openable
<1>4. Decisions' /\ Readings'
  BY <1>1 DEF MigrationInv, Decisions, Decision, Readings, Reading, Is, Complete
<1>5. QED
  BY <1>2, <1>3, <1>4 DEF MigrationInv

LEMMA RemoveWorktreeInv ==
  ASSUME MigrationInv, NEW o \in Origins, RemoveWorktree(o)
  PROVE  MigrationInv'
<1>1. /\ origins' = origins \ {o} /\ legacy' = legacy \ Of(legacy, o)
      /\ committed' = IF db = "active" THEN committed ELSE committed \ Of(committed, o)
      /\ UNCHANGED <<db, sql, imported, cached, fence, attempt, dirs, guard, locked, doer,
                     answered, cutover>>
  BY DEF RemoveWorktree
<1>2. StoresTyped' /\ DoersTyped' /\ GuardHeld' /\ DatabaseLife' /\ ReadsSeeAccepted'
  BY <1>1 DEF MigrationInv, StoresTyped, DoersTyped, GuardHeld, DatabaseLife,
              ReadsSeeAccepted
<1>3. ImportsComplete'
  BY <1>1 DEF MigrationInv, ImportsComplete, Complete
<1>4. AcceptedKept'
  BY <1>1 DEF MigrationInv, AcceptedKept, Openable, Of
<1>5. Decisions'
  BY <1>1 DEF MigrationInv, Decisions, Decision, Is, Complete
<1>6. ASSUME NEW p \in Procs PROVE Reading(p)'
  BY <1>1 DEF MigrationInv, Readings, Reading, Is, Of
<1>7. QED
  BY <1>2, <1>3, <1>4, <1>5, <1>6 DEF MigrationInv, Readings

LEMMA LoseDatabaseInv ==
  ASSUME MigrationInv, LoseDatabase
  PROVE  MigrationInv'
<1>1. /\ db' = "absent" /\ sql' = {} /\ imported' = Absent
      /\ \A p \in Procs : doer[p].pc \in {"rest", "prepare", "write", "row", "read", "readfiles"}
      /\ UNCHANGED <<fence, attempt, dirs, legacy, origins, guard, locked, doer,
                     committed, answered, cutover>>
  BY DEF LoseDatabase, files, told
<1>2. StoresTyped' /\ DoersTyped' /\ GuardHeld' /\ ReadsSeeAccepted' /\ Readings'
  BY <1>1 DEF MigrationInv, StoresTyped, DoersTyped, GuardHeld, ReadsSeeAccepted,
              Readings, Reading, Is
<1>3. DatabaseLife' /\ ImportsComplete'
  BY <1>1 DEF MigrationInv, DatabaseLife, ImportsComplete, Complete
<1>4. AcceptedKept'
  BY <1>1 DEF MigrationInv, DatabaseLife, AcceptedKept, Openable
<1>5. Decisions'
  BY <1>1 DEF Decisions, Decision, Is
<1>6. QED
  BY <1>2, <1>3, <1>4, <1>5 DEF MigrationInv

-----------------------------------------------------------------------------
(***************************************************************************)
(* The theorems.                                                           *)
(***************************************************************************)

LEMMA InitMigration == MigrationInit => MigrationInv
<1> SUFFICES ASSUME MigrationInit PROVE MigrationInv
  OBVIOUS
<1>1. /\ db = "absent" /\ sql = {} /\ imported = Absent /\ fence = Absent /\ attempt = Absent
      /\ dirs = [s \in Backups \cup {Startup} |-> Absent]
      /\ legacy \subseteq Items /\ origins = Origins /\ committed = legacy
      /\ guard = Nobody /\ locked = {} /\ doer = [p \in Procs |-> Resting]
      /\ answered = {} /\ cutover = FALSE
  BY DEF MigrationInit
<1>2. StoresTyped /\ DoersTyped
  BY <1>1, RestingLegal DEF StoresTyped, DoersTyped, Snapshots
<1>3. \A p \in Procs : doer[p].pc = "rest"
  BY <1>1, RestingLegal
<1>4. GuardHeld
  BY <1>1, <1>3, MigrationAssumption DEF GuardHeld, Guarded
<1>5. DatabaseLife /\ ImportsComplete /\ AcceptedKept /\ ReadsSeeAccepted
  BY <1>1 DEF DatabaseLife, ImportsComplete, AcceptedKept, ReadsSeeAccepted
<1>6. Decisions /\ Readings
  BY <1>3 DEF Decisions, Decision, Readings, Reading, Is
<1>7. QED
  BY <1>2, <1>4, <1>5, <1>6 DEF MigrationInv

LEMMA StillMigration ==
  ASSUME MigrationInv, UNCHANGED migrationVars
  PROVE  MigrationInv'
<1>1. UNCHANGED <<stores, committed, cutover, answered, guard, locked, doer>>
  BY DEF migrationVars, told
<1>2. StoresTyped' /\ DatabaseLife' /\ ImportsComplete' /\ AcceptedKept'
  BY <1>1, StoresStill
<1>3. DoersTyped' /\ GuardHeld' /\ ReadsSeeAccepted'
  BY <1>1 DEF MigrationInv, DoersTyped, GuardHeld, ReadsSeeAccepted
<1>4. Decisions' /\ Readings'
  BY <1>1 DEF MigrationInv, Decisions, Decision, Readings, Reading, Is, Complete, stores, files
<1>5. QED
  BY <1>2, <1>3, <1>4 DEF MigrationInv

LEMMA StepMigration ==
  ASSUME MigrationInv, [MigrationNext]_migrationVars
  PROVE  MigrationInv'
<1>1. ASSUME NEW p \in Procs,
             GuardTimeout(p) \/ AnswerEnsure(p) \/ Refused(p) \/ Crash(p)
      PROVE  MigrationInv'
  <2>1. Done(p) /\ UNCHANGED <<stores, told>>
    BY <1>1 DEF GuardTimeout, AnswerEnsure, Refused, Crash
  <2>2. QED
    BY <2>1, EndsQuiet
<1>2. ASSUME NEW p \in Procs,
             \/ \E x \in Items : WriteCall(p, x, "strict") \/ WriteCall(p, x, "qualified")
             \/ \E d \in Backups : EnsureCall(p, d)
             \/ CacheCall(p) \/ ReadCall(p) \/ AcquireGuard(p)
             \/ Prepare(p) \/ NoBackup(p) \/ Ensure(p) \/ Decide(p)
      PROVE  MigrationInv'
  BY <1>2, CallsQuiet, GuardQuiet, DecidesQuiet
<1>3. ASSUME NEW p \in Procs,
             \/ PublishAttempt(p) \/ CreateDatabase(p) \/ OpenDatabase(p) \/ SaveInventory(p)
             \/ Freeze(p) \/ WriteManifest(p) \/ ImportShadow(p) \/ ActivateStore(p)
             \/ CommitActive(p) \/ CommitWrite(p) \/ ReadDecide(p) \/ ReadFiles(p)
      PROVE  MigrationInv'
  BY <1>3, PublishAttemptInv, CreateDatabaseInv, OpenDatabaseInv, SaveInventoryInv, FreezeInv,
     WriteManifestInv, ImportShadowInv, ActivateStoreInv, CommitActiveInv, CommitWriteInv,
     ReadDecideInv, ReadFilesInv
<1>4. QED
  BY <1>1, <1>2, <1>3, OldWriteInv, RemoveWorktreeInv, LoseDatabaseInv, StillMigration
  DEF MigrationNext

LEMMA MigrationInductive == MigrationSpec => []MigrationInv
BY InitMigration, StepMigration, PTL DEF MigrationSpec

\* Wherever the migration is cut off and whoever writes, holds locks or loses a
\* worktree meanwhile, the live backend holds every write that was answered with
\* Ok, and after the cut-over nothing falls back to files that stopped being
\* current.
THEOREM NoAcceptedWriteLost == MigrationSpec => []AcceptedKept
<1>1. MigrationInv => AcceptedKept
  BY DEF MigrationInv
<1>2. QED
  BY <1>1, MigrationInductive, PTL

\* A reader takes no guard and may decide for the files just before they stop
\* being current; still he sees every write that was answered before he began.
THEOREM ReadersMissNothing == MigrationSpec => []ReadsSeeAccepted
<1>1. MigrationInv => ReadsSeeAccepted
  BY DEF MigrationInv
<1>2. QED
  BY <1>1, MigrationInductive, PTL

\* An administrator who calls ensure again with the directory of a migration
\* that was cut off passes every check, unless the files changed.
THEOREM InterruptedMigrationResumes == MigrationSpec => []CutOffCompletes
<1>1. MigrationInv => CutOffCompletes
  <2> SUFFICES ASSUME MigrationInv, db = "shadow"
               PROVE  /\ imported # Absent /\ Unchanged(dirs[imported]) =>
                            /\ EnsureNext(imported) = "import" /\ Importable(imported)
                            /\ fence \in {Absent, imported}
                      /\ fence # Absent => Complete(fence)
    BY DEF CutOffCompletes
  <2>1. Openable
    BY DEF Openable
  <2>2. imported # Absent => Complete(imported) /\ DomainsMatch(imported)
    BY DEF MigrationInv, ImportsComplete, DomainsMatch
  <2>3. fence \in {Absent, imported} /\ (fence # Absent => Complete(fence))
    BY DEF MigrationInv, DatabaseLife, ImportsComplete
  <2>4. QED
    BY <2>1, <2>2, <2>3 DEF EnsureNext, Importable
<1>2. QED
  BY <1>1, MigrationInductive, PTL
=============================================================================
