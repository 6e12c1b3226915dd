-------------------------- MODULE EventStoreProofs --------------------------
(***************************************************************************)
(* The event store.  The journal stays readable and is a once-only log of  *)
(* whole batches, for any writers, batches and numbers of operations and   *)
(* interruptions.  The task bindings stay readable and say what the newest *)
(* observation said, for any tasks, worktrees and observations, any number *)
(* of interruptions and removals of worktrees, in both stores.             *)
(***************************************************************************)
EXTENDS Journal, TaskBindings, SequenceTheorems, FiniteSetTheorems, WellFoundedInduction, TLAPS

-----------------------------------------------------------------------------
(* The journal (Journal).                                                     *)

Pcs == {"idle", "lock", "clean", "recover", "load", "append", "temp", "unlink",
        "rename", "build", "clear", "finish", "answer"}
Intents == [base : Nat, events : Batches]
Ops == Batches \cup {Replay}
Todos == Seq(Events)
Puts == [file : {"index", "intent"}, value : Seq(Events) \cup Intents] \cup {NoFile}
Processes == [pc : Pcs, op : Ops, todo : Todos, put : Puts, next : Pcs]

Prefix(s, t) == Len(s) <= Len(t) /\ \A i \in 1..Len(s) : s[i] = t[i]

\* r is what s lacks of t.
Continues(r, s, t) ==
    /\ r \in Seq(Events)
    /\ Len(s) + Len(r) = Len(t)
    /\ \A i \in 1..Len(r) : r[i] = t[Len(s) + i]

\* The lines are the beginning of the accepted log, and a torn line is of its
\* next record; without an intent an index that is there is the journal's.
FilesMatch ==
    /\ lines \in Seq(Events) /\ AcceptedLog \in Seq(Events)
    /\ intent \in Intents \cup {NoFile}
    /\ intent # NoFile => intent.base <= Len(lines)
    /\ Prefix(lines, AcceptedLog) /\ ParseComplete(AcceptedLog)
    /\ torn = NoEvent \/ (Len(lines) < Len(AcceptedLog) /\ torn = AcceptedLog[Len(lines) + 1])
    /\ intent = NoFile => index \in {NoFile, lines}

\* Who is inside an operation on the files holds their lock; the SQL backend
\* has no files and no operation that stops half-way.
Busy(p) == proc[p].pc \notin {"idle", "lock"}
LockHeld ==
    /\ backend \in {"file", "sql"}
    /\ backend = "file" => \A p \in Writers : Busy(p) => lock = p
    /\ backend = "sql" =>
          /\ intent = NoFile /\ index = NoFile
          /\ \A p \in Writers : proc[p].pc \in {"idle", "lock", "answer"}

Kept(b) == b \in Batches /\ Elements(b) \subseteq Elements(AcceptedLog)

\* All accepted records are in the lines.
Complete == intent # NoFile /\ Len(lines) = Len(AcceptedLog)

\* The index that is being written, and why.
IndexPut(r) ==
    /\ r.put = [file |-> "index", value |-> lines]
    /\ \/ r.next = "clear" /\ Complete
       \/ r.next = "finish" /\ Complete /\ Kept(r.op)
       \/ r.next = "build" /\ intent = NoFile /\ r.op \in Batches
       \/ r.next = "answer" /\ intent = NoFile /\ r.op = Replay

IntentPut(r) ==
    /\ r.put = [file |-> "intent", value |-> [base |-> Len(lines), events |-> r.op]]
    /\ r.next = "append" /\ intent = NoFile
    /\ r.op \in Batches /\ Ids(r.op) \cap Ids(lines) = {}

\* What holds at each step of an operation.
Progress(r) ==
    /\ r.pc \in {"recover", "load", "append", "temp", "build", "clear", "finish"} => temps = {}
    /\ r.pc \in {"unlink", "rename"} => temps = {r.put.file}
    /\ r.pc = "load" => intent = NoFile
    /\ r.pc = "build" => intent = NoFile /\ r.op \in Batches
    /\ r.pc = "append" =>
          /\ intent # NoFile /\ Continues(r.todo, lines, AcceptedLog)
          /\ r.next = "clear" \/ (r.next = "finish" /\ Kept(r.op))
    /\ r.pc \in {"temp", "unlink", "rename"} => IndexPut(r) \/ IntentPut(r)
    /\ r.pc \in {"clear", "finish"} => Complete /\ index \in {NoFile, lines}
    /\ r.pc = "finish" => Kept(r.op)
    /\ r.pc = "answer" => r.op = Replay \/ Kept(r.op)

JournalInv ==
    /\ proc \in [Writers -> Processes]
    /\ temps \subseteq {"intent", "index"}
    /\ lock \in Writers \cup {Nobody}
    /\ accepted \subseteq Batches
    /\ FilesMatch /\ LockHeld
    /\ \A p \in Writers : Progress(proc[p])

-----------------------------------------------------------------------------
\* Sequences of events.

LEMMA BatchIsSeq ==
  ASSUME NEW b \in Batches
  PROVE  b \in Seq(Events) /\ ParseComplete(b) /\ Len(b) \in Nat
BY JournalAssumption, LenProperties

LEMMA PrefixEqual ==
  ASSUME NEW s \in Seq(Events), NEW t \in Seq(Events), Prefix(s, t), Len(s) = Len(t)
  PROVE  s = t
BY SeqEqual DEF Prefix

LEMMA PrefixElements ==
  ASSUME NEW s \in Seq(Events), NEW t \in Seq(Events), Prefix(s, t)
  PROVE  Elements(s) \subseteq Elements(t)
<1>1. Len(s) \in Nat /\ Len(t) \in Nat
  BY LenProperties
<1>2. QED
  BY <1>1 DEF Prefix, Elements

\* A batch behind a log none of whose identifiers it has.
LEMMA Extended ==
  ASSUME NEW s \in Seq(Events), NEW b \in Batches,
         ParseComplete(s), Ids(b) \cap Ids(s) = {}
  PROVE  /\ s \o b \in Seq(Events) /\ Len(s \o b) = Len(s) + Len(b)
         /\ Prefix(s, s \o b) /\ ParseComplete(s \o b)
         /\ \A i \in 1..Len(b) : b[i] = (s \o b)[Len(s) + i]
         /\ Elements(b) \subseteq Elements(s \o b)
<1>1. b \in Seq(Events) /\ ParseComplete(b) /\ Len(b) \in Nat /\ Len(s) \in Nat
  BY BatchIsSeq, LenProperties
<1>2. /\ s \o b \in Seq(Events) /\ Len(s \o b) = Len(s) + Len(b)
      /\ \A i \in 1..Len(s) + Len(b) :
            (s \o b)[i] = IF i <= Len(s) THEN s[i] ELSE b[i - Len(s)]
  BY <1>1, ConcatProperties
<1>3. \A i \in 1..Len(s) : (s \o b)[i] = s[i]
  BY <1>1, <1>2
<1>4. \A i \in 1..Len(b) : (s \o b)[Len(s) + i] = b[i]
  BY <1>1, <1>2
<1>5. Prefix(s, s \o b)
  BY <1>1, <1>2, <1>3 DEF Prefix
<1>6. Elements(b) \subseteq Elements(s \o b)
  <2>1. ASSUME NEW i \in 1..Len(b)
        PROVE  Len(s) + i \in 1..Len(s \o b) /\ b[i] = (s \o b)[Len(s) + i]
    BY <1>1, <1>2, <1>4, <2>1
  <2>2. QED
    BY <2>1 DEF Elements
<1>7. ASSUME NEW i \in 1..Len(s) + Len(b), NEW j \in 1..Len(s) + Len(b),
             (s \o b)[i].id = (s \o b)[j].id
      PROVE  i = j
  <2>1. ASSUME NEW k \in 1..Len(s), NEW l \in 1..Len(b)
        PROVE  s[k].id # b[l].id
    BY <2>1 DEF Ids
  <2>2. CASE i <= Len(s) /\ j <= Len(s)
    BY <1>1, <1>3, <1>7, <2>2 DEF ParseComplete
  <2>3. CASE i > Len(s) /\ j > Len(s)
    <3>1. i - Len(s) \in 1..Len(b) /\ j - Len(s) \in 1..Len(b)
      BY <1>1, <2>3
    <3>2. b[i - Len(s)].id = b[j - Len(s)].id
      BY <1>1, <1>2, <1>7, <2>3
    <3>3. QED
      BY <1>1, <3>1, <3>2 DEF ParseComplete
  <2>4. CASE i <= Len(s) /\ j > Len(s)
    BY <1>1, <1>2, <1>7, <2>1, <2>4
  <2>5. CASE i > Len(s) /\ j <= Len(s)
    BY <1>1, <1>2, <1>7, <2>1, <2>5
  <2>6. QED
    BY <1>1, <2>2, <2>3, <2>4, <2>5
<1>8. QED
  BY <1>2, <1>4, <1>5, <1>6, <1>7 DEF ParseComplete

\* A longer journal has the same first records.
LEMMA SameBeginning ==
  ASSUME NEW s \in Seq(Events), NEW e \in Events, NEW n \in Nat, n <= Len(s)
  PROVE  SubSeq(Append(s, e), 1, n) = SubSeq(s, 1, n)
<1>1. Len(s) \in Nat /\ \A i \in 1..Len(s) : s[i] \in Events
  BY LenProperties, ElementOfSeq
<1>2. /\ Append(s, e) \in Seq(Events)
      /\ \A i \in 1..n : Append(s, e)[i] = s[i] /\ s[i] \in Events
  BY <1>1, AppendProperties
<1>3. /\ SubSeq(s, 1, n) \in Seq(Events) /\ Len(SubSeq(s, 1, n)) = n
      /\ \A i \in 1..n : SubSeq(s, 1, n)[i] = s[i]
  BY <1>2, SubSeqProperties, 1 \in Int, n \in Int
<1>4. /\ SubSeq(Append(s, e), 1, n) \in Seq(Events) /\ Len(SubSeq(Append(s, e), 1, n)) = n
      /\ \A i \in 1..n : SubSeq(Append(s, e), 1, n)[i] = s[i]
  BY <1>2, SubSeqProperties, 1 \in Int, n \in Int
<1>5. QED
  BY <1>3, <1>4, SeqEqual

\* The records of a batch that a journal of the target's beginning lacks.
LEMMA RestOf ==
  ASSUME NEW s \in Seq(Events), NEW b \in Seq(Events), NEW n \in Nat, n <= Len(s),
         NEW t \in Seq(Events), t = SubSeq(s, 1, n) \o b, Len(s) <= Len(t)
  PROVE  Continues(Suffix(b, Len(s) - n), s, t)
<1> DEFINE d == Len(s) - n
           u == SubSeq(s, 1, n)
           r == SubSeq(b, d + 1, Len(b))
<1>1. Len(s) \in Nat /\ Len(b) \in Nat
  BY LenProperties
<1>2. u \in Seq(Events) /\ Len(u) = n
  <2>1. \A i \in 1..n : s[i] \in Events
    BY <1>1, ElementOfSeq
  <2>2. QED
    BY <2>1, SubSeqProperties, 1 \in Int, n \in Int
<1> HIDE DEF u
<1>3. /\ Len(t) = n + Len(b)
      /\ \A j \in 1..n + Len(b) : t[j] = IF j <= n THEN u[j] ELSE b[j - n]
  <2>1. t = u \o b
    BY DEF u
  <2>2. /\ Len(u \o b) = Len(u) + Len(b)
        /\ \A j \in 1..Len(u) + Len(b) :
              (u \o b)[j] = IF j <= Len(u) THEN u[j] ELSE b[j - Len(u)]
    BY <1>2, ConcatProperties
  <2>3. QED
    BY <1>2, <2>1, <2>2
<1>4. d \in Nat /\ d <= Len(b)
  BY <1>1, <1>3
<1>5. /\ r \in Seq(Events) /\ Len(r) = Len(b) - d
      /\ \A i \in 1..Len(b) - d : r[i] = b[d + i]
  <2>1. \A i \in d + 1..Len(b) : b[i] \in Events
    BY <1>1, <1>4, ElementOfSeq
  <2>2. /\ r \in Seq(Events)
        /\ Len(r) = IF d + 1 <= Len(b) THEN Len(b) - (d + 1) + 1 ELSE 0
        /\ \A i \in 1..Len(b) - (d + 1) + 1 : r[i] = b[d + 1 + i - 1]
    <3> DEFINE m == d + 1
    <3>1. m \in Int /\ Len(b) \in Int
      BY <1>1, <1>4
    <3>2. \A i \in m..Len(b) : b[i] \in Events
      BY <2>1
    <3> HIDE DEF m
    <3>3. /\ SubSeq(b, m, Len(b)) \in Seq(Events)
          /\ Len(SubSeq(b, m, Len(b))) = IF m <= Len(b) THEN Len(b) - m + 1 ELSE 0
          /\ \A i \in 1..Len(b) - m + 1 : SubSeq(b, m, Len(b))[i] = b[m + i - 1]
      BY <3>1, <3>2, SubSeqProperties
    <3>4. QED
      BY <3>3 DEF m
  <2> HIDE DEF r, d
  <2>3. Len(r) = Len(b) - d
    BY <1>1, <1>4, <2>2
  <2>4. ASSUME NEW i \in 1..Len(b) - d
        PROVE  r[i] = b[d + i]
    <3>1. i \in 1..Len(b) - (d + 1) + 1 /\ d + 1 + i - 1 = d + i
      BY <1>1, <1>4
    <3>2. QED
      BY <2>2, <3>1
  <2>5. QED
    BY <2>2, <2>3, <2>4
<1>6. Len(s) + Len(r) = Len(t)
  BY <1>1, <1>3, <1>4, <1>5
<1>7. ASSUME NEW i \in 1..Len(r)
      PROVE  r[i] = t[Len(s) + i]
  <2>1. /\ Len(s) + i \in 1..n + Len(b) /\ ~(Len(s) + i <= n)
        /\ Len(s) + i - n = d + i /\ i \in 1..Len(b) - d
    BY <1>1, <1>3, <1>4, <1>5
  <2>2. PICK k \in 1..n + Len(b) : k = Len(s) + i
    BY <2>1
  <2>3. t[k] = b[k - n]
    <3>1. t[k] = IF k <= n THEN u[k] ELSE b[k - n]
      BY <1>3
    <3>2. ~(k <= n)
      BY <2>1, <2>2
    <3>3. QED
      BY <3>1, <3>2
  <2>4. t[Len(s) + i] = b[d + i]
    BY <2>1, <2>2, <2>3
  <2>5. QED
    BY <1>5, <2>1, <2>4
<1>8. r = Suffix(b, Len(s) - n)
  BY DEF Suffix
<1> HIDE DEF r
<1>9. QED
  BY <1>5, <1>6, <1>7, <1>8 DEF Continues

\* One record more of the target.
LEMMA OneMore ==
  ASSUME NEW s \in Seq(Events), NEW t \in Seq(Events), NEW r,
         Prefix(s, t), Continues(r, s, t), r # <<>>
  PROVE  /\ Len(s) < Len(t) /\ t[Len(s) + 1] \in Events /\ Head(r) = t[Len(s) + 1]
         /\ Append(s, t[Len(s) + 1]) \in Seq(Events)
         /\ Len(Append(s, t[Len(s) + 1])) = Len(s) + 1
         /\ Prefix(Append(s, t[Len(s) + 1]), t)
         /\ Continues(Tail(r), Append(s, t[Len(s) + 1]), t)
<1> DEFINE e == t[Len(s) + 1]
           a == Append(s, e)
<1>1. /\ r \in Seq(Events) /\ Len(s) \in Nat /\ Len(t) \in Nat
      /\ Len(r) \in Nat /\ Len(r) > 0 /\ Len(s) + Len(r) = Len(t)
  BY LenProperties, EmptySeq DEF Continues
<1>2. Len(s) < Len(t) /\ Len(s) + 1 \in 1..Len(t) /\ 1 \in 1..Len(r)
  BY <1>1
<1>3. e \in Events
  BY <1>2, ElementOfSeq
<1>4. r[1] = e /\ Head(r) = e
  BY <1>1, <1>2 DEF Continues
<1>5. /\ a \in Seq(Events) /\ Len(a) = Len(s) + 1 /\ a[Len(s) + 1] = e
      /\ \A i \in 1..Len(s) : a[i] = s[i]
  BY <1>3, AppendProperties
<1>6. Prefix(a, t)
  BY <1>1, <1>2, <1>5 DEF Prefix
<1>7. /\ Tail(r) \in Seq(Events) /\ Len(Tail(r)) = Len(r) - 1
      /\ \A i \in 1..Len(Tail(r)) : Tail(r)[i] = r[i + 1]
  BY <1>1, HeadTailProperties
<1> HIDE DEF e, a
<1>8. ASSUME NEW i \in 1..Len(Tail(r))
      PROVE  Tail(r)[i] = t[Len(a) + i]
  <2>1. i + 1 \in 1..Len(r) /\ Len(a) + i = Len(s) + (i + 1)
    BY <1>1, <1>5, <1>7
  <2>2. QED
    BY <1>7, <2>1 DEF Continues
<1>9. Continues(Tail(r), a, t)
  BY <1>1, <1>5, <1>7, <1>8 DEF Continues
<1>10. QED
  BY <1>2, <1>3, <1>4, <1>5, <1>6, <1>9 DEF e, a

-----------------------------------------------------------------------------
\* The invariant holds at the start.
LEMMA InvInit == JournalInit => JournalInv
<1> SUFFICES ASSUME JournalInit PROVE JournalInv
  OBVIOUS
<1>1. <<>> \in Seq(Events) /\ Len(<<>>) = 0
  BY EmptySeq
<1>2. Idle \in Processes
  BY <1>1 DEF Idle, Processes, Pcs, Ops, Todos, Puts
<1>3. FilesMatch
  BY <1>1 DEF JournalInit, FilesMatch, AcceptedLog, Prefix, ParseComplete
<1>4. LockHeld /\ \A p \in Writers : Progress(proc[p])
  BY JournalAssumption DEF JournalInit, LockHeld, Busy, Idle, Progress
<1>5. QED
  BY <1>2, <1>3, <1>4 DEF JournalInit, JournalInv

\* One process moves: what must be shown of it, the others being outside their
\* operations whenever the files change.
LEMMA OneMoves ==
  ASSUME JournalInv, NEW p \in Writers,
         proc' \in [Writers -> Processes],
         \A q \in Writers \ {p} : proc'[q] = proc[q],
         temps' \subseteq {"intent", "index"}, accepted' \subseteq Batches,
         FilesMatch', backend' = backend,
         Elements(AcceptedLog) \subseteq Elements(AcceptedLog'),
         UNCHANGED files \/ (backend = "file" /\ lock = p) \/ backend = "sql",
         backend = "sql" => /\ intent' = NoFile /\ index' = NoFile
                            /\ proc'[p].pc \in {"idle", "lock", "answer"},
         \/ lock' = lock /\ (Busy(p) \/ proc'[p].pc = "lock" \/ backend = "sql")
         \/ lock = Nobody /\ lock' = p
         \/ lock' = (IF lock = p THEN Nobody ELSE lock) /\ proc'[p].pc = "idle",
         Progress(proc[p])'
  PROVE  JournalInv'
<1>1. lock' \in Writers \cup {Nobody}
  BY DEF JournalInv
<1>2. LockHeld'
  <2>1. backend = "file" => \A q \in Writers : Busy(q)' => lock' = q
    <3> SUFFICES ASSUME backend = "file", NEW q \in Writers, Busy(q)'
                 PROVE  lock' = q
      OBVIOUS
    <3>1. CASE q = p
      BY <3>1 DEF JournalInv, LockHeld, Busy
    <3>2. CASE q # p
      <4>1. Busy(q) /\ lock = q
        BY <3>2 DEF JournalInv, LockHeld, Busy
      <4>2. QED
        BY <3>2, <4>1, JournalAssumption
    <3>3. QED
      BY <3>1, <3>2
  <2>2. backend = "sql" => \A q \in Writers : proc'[q].pc \in {"idle", "lock", "answer"}
    BY DEF JournalInv, LockHeld
  <2>3. QED
    BY <2>1, <2>2 DEF JournalInv, LockHeld
<1>3. ASSUME NEW q \in Writers, q # p
      PROVE  Progress(proc[q])'
  <2>1. proc'[q] = proc[q] /\ Progress(proc[q])
    BY <1>3 DEF JournalInv
  <2>2. CASE UNCHANGED files
    BY <2>1, <2>2 DEF files, Progress, IndexPut, IntentPut, Complete, Kept, AcceptedLog
  <2>3. CASE proc[q].pc \in {"idle", "lock"}
    BY <2>1, <2>3 DEF Progress
  <2>4. CASE proc[q].pc = "answer"
    BY <2>1, <2>4 DEF Progress, Kept
  <2>5. QED
    BY <1>3, <2>2, <2>3, <2>4 DEF JournalInv, LockHeld, Busy
<1>4. QED
  BY <1>1, <1>2, <1>3 DEF JournalInv

\* The holder of the lock moves and keeps it.
LEMMA HolderMoves ==
  ASSUME JournalInv, NEW p \in Writers,
         proc[p].pc \notin {"idle", "lock", "answer"},
         proc' \in [Writers -> Processes],
         \A q \in Writers \ {p} : proc'[q] = proc[q],
         temps' \subseteq {"intent", "index"},
         UNCHANGED <<backend, lock, accepted>>,
         FilesMatch', Elements(AcceptedLog) \subseteq Elements(AcceptedLog'),
         Progress(proc[p])'
  PROVE  JournalInv'
<1>1. backend = "file" /\ lock = p /\ Busy(p)
  BY DEF JournalInv, LockHeld, Busy
<1>2. accepted' \subseteq Batches
  BY DEF JournalInv
<1>3. QED
  BY <1>1, <1>2, OneMoves

-----------------------------------------------------------------------------
\* How a process moves.

LEMMA GotoIs ==
  ASSUME proc \in [Writers -> Processes], NEW p \in Writers, NEW pc \in Pcs, Goto(p, pc)
  PROVE  /\ proc' \in [Writers -> Processes]
         /\ \A q \in Writers \ {p} : proc'[q] = proc[q]
         /\ proc'[p].pc = pc /\ proc'[p].op = proc[p].op /\ proc'[p].todo = proc[p].todo
         /\ proc'[p].put = proc[p].put /\ proc'[p].next = proc[p].next
BY DEF Goto, Processes

LEMMA EndIs ==
  ASSUME proc \in [Writers -> Processes], NEW p \in Writers, End(p)
  PROVE  /\ proc' \in [Writers -> Processes]
         /\ \A q \in Writers \ {p} : proc'[q] = proc[q]
         /\ proc'[p].pc = "idle"
         /\ lock' = IF lock = p THEN Nobody ELSE lock
<1>1. Idle \in Processes
  BY EmptySeq DEF Idle, Processes, Pcs, Ops, Todos, Puts
<1>2. QED
  BY <1>1 DEF End, Idle

LEMMA PutIs ==
  ASSUME proc \in [Writers -> Processes], NEW p \in Writers, NEW pc \in Pcs,
         NEW file \in {"index", "intent"}, NEW v \in Seq(Events) \cup Intents,
         Put(p, file, v, pc)
  PROVE  /\ proc' \in [Writers -> Processes]
         /\ \A q \in Writers \ {p} : proc'[q] = proc[q]
         /\ proc'[p].pc = "temp" /\ proc'[p].op = proc[p].op
         /\ proc'[p].put = [file |-> file, value |-> v] /\ proc'[p].next = pc
<1>1. "temp" \in Pcs /\ <<>> \in Todos /\ [file |-> file, value |-> v] \in Puts
  BY EmptySeq DEF Pcs, Todos, Puts
<1>2. PICK place \in Processes : place = proc[p]
  OBVIOUS
<1>3. PICK put \in Puts : put = [file |-> file, value |-> v]
  BY <1>1
<1>4. PICK moved : moved = [place EXCEPT !.pc = "temp", !.put = put, !.next = pc, !.todo = <<>>]
  OBVIOUS
<1>5. /\ moved \in Processes /\ moved.pc = "temp" /\ moved.op = place.op
      /\ moved.put = put /\ moved.next = pc
  BY <1>1, <1>4 DEF Processes
<1>6. proc' = [proc EXCEPT ![p] = moved]
  BY <1>2, <1>3, <1>4 DEF Put, Processes
<1>7. /\ proc' \in [Writers -> Processes] /\ proc'[p] = moved
      /\ \A q \in Writers \ {p} : proc'[q] = proc[q]
  BY <1>5, <1>6
<1>8. QED
  BY <1>2, <1>3, <1>5, <1>7

\* A step that leaves the journal, the intent and the index alone.
LEMMA SameFiles ==
  ASSUME FilesMatch, UNCHANGED <<lines, torn, intent, index>>
  PROVE  FilesMatch' /\ AcceptedLog' = AcceptedLog
BY DEF FilesMatch, AcceptedLog

\* Without an intent no line is unfinished.
LEMMA WithoutIntent ==
  ASSUME JournalInv, intent = NoFile
  PROVE  AcceptedLog = lines /\ torn = NoEvent
BY LenProperties DEF JournalInv, FilesMatch, AcceptedLog

\* With all accepted records in the lines, they are the log.
LEMMA WhenComplete ==
  ASSUME JournalInv, Len(lines) = Len(AcceptedLog)
  PROVE  AcceptedLog = lines /\ torn = NoEvent
BY PrefixEqual, LenProperties DEF JournalInv, FilesMatch

\* Nothing is added to the log and nothing is acknowledged.
Quiet == AcceptedLog' = AcceptedLog /\ accepted' = accepted

-----------------------------------------------------------------------------
\* The operations, one lemma each.

LEMMA CallInv ==
  ASSUME JournalInv, NEW p \in Writers, NEW op \in Batches \cup {Replay}, Call(p, op)
  PROVE  JournalInv' /\ Quiet
<1>1. /\ proc' \in [Writers -> Processes]
      /\ \A q \in Writers \ {p} : proc'[q] = proc[q]
      /\ proc'[p].pc = "lock"
  <2>1. "lock" \in Pcs /\ op \in Ops
    BY DEF Pcs, Ops
  <2>2. QED
    BY <2>1 DEF Call, JournalInv, Processes
<1>2. FilesMatch' /\ AcceptedLog' = AcceptedLog
  BY SameFiles DEF Call, JournalInv, files
<1>3. Progress(proc[p])'
  BY <1>1 DEF Progress
<1>4. JournalInv'
  BY <1>1, <1>2, <1>3, OneMoves DEF Call, JournalInv, files, LockHeld
<1>5. QED
  BY <1>2, <1>4 DEF Call, Quiet

LEMMA AcquireInv ==
  ASSUME JournalInv, NEW p \in Writers, AcquireAppendLock(p)
  PROVE  JournalInv' /\ Quiet
<1>1. /\ proc' \in [Writers -> Processes]
      /\ \A q \in Writers \ {p} : proc'[q] = proc[q]
      /\ proc'[p].pc = "clean"
  BY GotoIs, "clean" \in Pcs DEF AcquireAppendLock, JournalInv, Pcs
<1>2. FilesMatch' /\ AcceptedLog' = AcceptedLog
  BY SameFiles DEF AcquireAppendLock, JournalInv, files
<1>3. Progress(proc[p])'
  BY <1>1 DEF Progress
<1>4. JournalInv'
  BY <1>1, <1>2, <1>3, OneMoves DEF AcquireAppendLock, JournalInv, files, LockHeld
<1>5. QED
  BY <1>2, <1>4 DEF AcquireAppendLock, Quiet

\* The operation ends without an acknowledgement.
LEMMA EndInv ==
  ASSUME JournalInv, NEW p \in Writers, End(p), UNCHANGED <<files, accepted>>
  PROVE  JournalInv' /\ Quiet
<1>1. /\ proc' \in [Writers -> Processes]
      /\ \A q \in Writers \ {p} : proc'[q] = proc[q]
      /\ proc'[p].pc = "idle" /\ lock' = IF lock = p THEN Nobody ELSE lock
  BY EndIs DEF JournalInv
<1>2. FilesMatch' /\ AcceptedLog' = AcceptedLog
  BY SameFiles DEF JournalInv, files
<1>3. Progress(proc[p])'
  BY <1>1 DEF Progress
<1>4. JournalInv'
  BY <1>1, <1>2, <1>3, OneMoves DEF JournalInv, files, LockHeld
<1>5. QED
  BY <1>2, <1>4 DEF Quiet

LEMMA RemoveStaleInv ==
  ASSUME JournalInv, NEW p \in Writers, RemoveStaleTemporary(p)
  PROVE  JournalInv' /\ Quiet
<1>1. /\ proc' \in [Writers -> Processes]
      /\ \A q \in Writers \ {p} : proc'[q] = proc[q]
      /\ proc'[p].pc = "recover"
  BY GotoIs, "recover" \in Pcs DEF RemoveStaleTemporary, JournalInv, Pcs
<1>2. FilesMatch' /\ AcceptedLog' = AcceptedLog
  BY SameFiles DEF RemoveStaleTemporary, JournalInv
<1>3. Progress(proc[p])'
  BY <1>1 DEF Progress, RemoveStaleTemporary
<1>5. JournalInv'
  BY <1>1, <1>2, <1>3, HolderMoves DEF RemoveStaleTemporary, At
<1>6. QED
  BY <1>2, <1>5 DEF RemoveStaleTemporary, Quiet

LEMMA RecoverInv ==
  ASSUME JournalInv, NEW p \in Writers, RecoverIntent(p)
  PROVE  JournalInv' /\ Quiet
<1>1. CASE intent = NoFile
  <2>1. /\ proc' \in [Writers -> Processes]
        /\ \A q \in Writers \ {p} : proc'[q] = proc[q]
        /\ proc'[p].pc = "load"
    BY <1>1, GotoIs, "load" \in Pcs DEF RecoverIntent, JournalInv, Pcs
  <2>2. FilesMatch' /\ AcceptedLog' = AcceptedLog
    BY <1>1, SameFiles DEF RecoverIntent, JournalInv
  <2>3. temps = {}
    BY DEF RecoverIntent, At, JournalInv, Progress
  <2>4. Progress(proc[p])'
    BY <1>1, <2>1, <2>3 DEF Progress, RecoverIntent
  <2>5. JournalInv'
    BY <2>1, <2>2, <2>4, HolderMoves DEF RecoverIntent, At, JournalInv
  <2>6. QED
    BY <2>2, <2>5 DEF RecoverIntent, Quiet
<1>2. CASE intent # NoFile
  <2> DEFINE rest == Suffix(intent.events, Len(lines) - intent.base)
  <2>1. /\ intent \in Intents /\ intent.base \in Nat /\ intent.events \in Batches
        /\ intent.events \in Seq(Events) /\ Len(intent.events) \in Nat
        /\ lines \in Seq(Events) /\ Len(lines) \in Nat
        /\ intent.base <= Len(lines) /\ Len(lines) <= Len(AcceptedLog)
    BY <1>2, BatchIsSeq, LenProperties DEF JournalInv, FilesMatch, Prefix, Intents
  <2>2. Continues(rest, lines, AcceptedLog)
    <3>1. AcceptedLog = SubSeq(lines, 1, intent.base) \o intent.events
      BY <1>2 DEF AcceptedLog
    <3>2. AcceptedLog \in Seq(Events)
      BY DEF JournalInv, FilesMatch
    <3>3. QED
      BY <2>1, <3>1, <3>2, RestOf
  <2>3. /\ proc' \in [Writers -> Processes]
        /\ \A q \in Writers \ {p} : proc'[q] = proc[q]
        /\ proc'[p].pc = "append" /\ proc'[p].next = "clear" /\ proc'[p].todo = rest
    <3>1. "append" \in Pcs /\ "clear" \in Pcs /\ rest \in Todos
      BY <2>2 DEF Pcs, Todos, Continues
    <3>2. proc' = [proc EXCEPT ![p].pc = "append", ![p].next = "clear", ![p].todo = rest]
      BY <1>2 DEF RecoverIntent
    <3> HIDE DEF rest
    <3>3. QED
      BY <3>1, <3>2 DEF JournalInv, Processes
  <2>4. UNCHANGED <<lines, intent, index>> /\ torn' = NoEvent
    BY <1>2 DEF RecoverIntent
  <2>5. AcceptedLog' = AcceptedLog
    BY <2>4 DEF AcceptedLog
  <2>6. FilesMatch'
    BY <2>4, <2>5 DEF JournalInv, FilesMatch
  <2>7. temps = {}
    BY DEF RecoverIntent, At, JournalInv, Progress
  <2> HIDE DEF rest
  <2>8. Progress(proc[p])'
    BY <1>2, <2>2, <2>3, <2>4, <2>5, <2>7 DEF Progress, RecoverIntent
  <2>9. JournalInv'
    BY <2>3, <2>5, <2>6, <2>8, HolderMoves DEF RecoverIntent, At, JournalInv
  <2>10. QED
    BY <2>5, <2>9 DEF RecoverIntent, Quiet
<1>3. QED
  BY <1>1, <1>2

\* At an append: what the lines lack is to be written, the rest is in order.
LEMMA AtAppend ==
  ASSUME JournalInv, NEW p \in Writers, At(p, "append")
  PROVE  /\ intent # NoFile /\ intent \in Intents /\ intent.base \in Nat
         /\ intent.base <= Len(lines) /\ temps = {}
         /\ lines \in Seq(Events) /\ AcceptedLog \in Seq(Events)
         /\ Prefix(lines, AcceptedLog)
         /\ Continues(proc[p].todo, lines, AcceptedLog)
         /\ proc[p].next = "clear" \/ (proc[p].next = "finish" /\ Kept(proc[p].op))
BY DEF JournalInv, FilesMatch, Progress, At, Intents

LEMMA BeginInv ==
  ASSUME JournalInv, NEW p \in Writers, BeginRecord(p)
  PROVE  JournalInv' /\ Quiet
<1>1. At(p, "append") /\ proc[p].todo # <<>> /\ torn' = Head(proc[p].todo)
  BY DEF BeginRecord
<1>2. UNCHANGED <<backend, lines, intent, index, temps, lock, proc, accepted>>
  BY DEF BeginRecord
<1>3. Len(lines) < Len(AcceptedLog) /\ torn' = AcceptedLog[Len(lines) + 1]
  BY <1>1, AtAppend, OneMore
<1>4. AcceptedLog' = AcceptedLog
  BY <1>2 DEF AcceptedLog
<1>5. FilesMatch'
  BY <1>2, <1>3, <1>4 DEF JournalInv, FilesMatch
<1>6. Progress(proc[p])'
  BY <1>2, <1>4 DEF JournalInv, Progress, IndexPut, IntentPut, Complete, Kept
<1>7. JournalInv'
  BY <1>1, <1>2, <1>4, <1>5, <1>6, HolderMoves DEF JournalInv, At
<1>8. QED
  BY <1>2, <1>4, <1>7 DEF Quiet

LEMMA EndRecordInv ==
  ASSUME JournalInv, NEW p \in Writers, EndRecord(p)
  PROVE  JournalInv' /\ Quiet
<1>1. /\ At(p, "append") /\ proc[p].todo # <<>>
      /\ torn = AcceptedLog[Len(lines) + 1] /\ torn' = NoEvent
      /\ lines' = Append(lines, torn)
  BY DEF EndRecord, JournalInv, FilesMatch
<1>2. UNCHANGED <<backend, intent, index, temps, lock, accepted>>
  BY DEF EndRecord
<1>3. /\ torn \in Events /\ lines' \in Seq(Events) /\ Len(lines') = Len(lines) + 1
      /\ Prefix(lines', AcceptedLog)
      /\ Continues(Tail(proc[p].todo), lines', AcceptedLog)
  BY <1>1, AtAppend, OneMore
<1>4. AcceptedLog' = AcceptedLog
  <2>1. SubSeq(lines', 1, intent.base) = SubSeq(lines, 1, intent.base)
    BY <1>1, <1>3, AtAppend, SameBeginning
  <2>2. QED
    BY <1>1, <1>2, <2>1, AtAppend DEF AcceptedLog
<1>5. /\ proc' \in [Writers -> Processes]
      /\ \A q \in Writers \ {p} : proc'[q] = proc[q]
      /\ proc'[p].pc = "append" /\ proc'[p].op = proc[p].op
      /\ proc'[p].next = proc[p].next /\ proc'[p].todo = Tail(proc[p].todo)
  <2>1. Tail(proc[p].todo) \in Todos
    BY <1>3 DEF Todos, Continues
  <2>2. proc' = [proc EXCEPT ![p].todo = Tail(proc[p].todo)] /\ proc[p].pc = "append"
    BY DEF EndRecord, At
  <2>3. QED
    BY <2>1, <2>2 DEF JournalInv, Processes
<1>6. FilesMatch'
  <2>1. intent.base <= Len(lines')
    BY <1>1, <1>3, AtAppend, LenProperties
  <2>2. QED
    BY <1>1, <1>2, <1>3, <1>4, <2>1, AtAppend DEF JournalInv, FilesMatch
<1>7. Progress(proc[p])'
  BY <1>1, <1>2, <1>3, <1>4, <1>5, AtAppend DEF Progress, Kept
<1>8. JournalInv'
  BY <1>1, <1>2, <1>4, <1>5, <1>6, <1>7, HolderMoves DEF JournalInv, At
<1>9. QED
  BY <1>2, <1>4, <1>8 DEF Quiet

LEMMA IndexAppendedInv ==
  ASSUME JournalInv, NEW p \in Writers, IndexAppended(p)
  PROVE  JournalInv' /\ Quiet
<1>1. At(p, "append") /\ Put(p, "index", lines, proc[p].next) /\ UNCHANGED <<files, lock, accepted>>
  BY DEF IndexAppended
<1>2. Complete
  BY <1>1, AtAppend, EmptySeq, LenProperties DEF IndexAppended, Complete, Continues
<1>3. /\ proc' \in [Writers -> Processes]
      /\ \A q \in Writers \ {p} : proc'[q] = proc[q]
      /\ proc'[p].pc = "temp" /\ proc'[p].op = proc[p].op
      /\ proc'[p].put = [file |-> "index", value |-> lines] /\ proc'[p].next = proc[p].next
  <2>1. proc[p].next \in Pcs
    BY DEF JournalInv, Processes
  <2>2. QED
    BY <1>1, <2>1, AtAppend, PutIs DEF JournalInv
<1>4. FilesMatch' /\ AcceptedLog' = AcceptedLog
  BY <1>1, SameFiles DEF JournalInv, files
<1>5. Progress(proc[p])'
  BY <1>1, <1>2, <1>3, <1>4, AtAppend DEF Progress, IndexPut, Complete, Kept, files
<1>6. JournalInv'
  BY <1>1, <1>3, <1>4, <1>5, HolderMoves DEF JournalInv, At, files
<1>7. QED
  BY <1>1, <1>4, <1>6 DEF Quiet

LEMMA RemoveIntentInv ==
  ASSUME JournalInv, NEW p \in Writers, RemoveIntent(p)
  PROVE  JournalInv' /\ Quiet
<1> DEFINE pc == IF At(p, "clear") THEN "load" ELSE "answer"
<1>1. /\ proc[p].pc \in {"clear", "finish"} /\ intent' = NoFile /\ Goto(p, pc)
      /\ UNCHANGED <<backend, lines, torn, index, temps, lock, accepted>>
  BY DEF RemoveIntent
<1>2. Complete /\ index \in {NoFile, lines} /\ temps = {}
  BY <1>1 DEF JournalInv, Progress
<1>3. AcceptedLog = lines /\ torn = NoEvent
  BY <1>2, WhenComplete DEF Complete
<1>4. AcceptedLog' = AcceptedLog
  BY <1>1, <1>3 DEF AcceptedLog
<1>5. /\ proc' \in [Writers -> Processes]
      /\ \A q \in Writers \ {p} : proc'[q] = proc[q]
      /\ proc'[p].pc = pc /\ proc'[p].op = proc[p].op
  <2>1. pc \in Pcs
    BY DEF Pcs
  <2>2. QED
    BY <1>1, <2>1, GotoIs DEF JournalInv
<1>6. FilesMatch'
  BY <1>1, <1>2, <1>3, <1>4 DEF JournalInv, FilesMatch
<1>7. Progress(proc[p])'
  <2>1. CASE At(p, "clear")
    BY <1>1, <1>2, <1>5, <2>1 DEF Progress
  <2>2. CASE ~At(p, "clear")
    <3>1. Kept(proc[p].op)
      BY <1>1, <2>2 DEF At, JournalInv, Progress
    <3>2. QED
      BY <1>4, <1>5, <2>2, <3>1 DEF Progress, Kept
  <2>3. QED
    BY <2>1, <2>2
<1>8. JournalInv'
  BY <1>1, <1>4, <1>5, <1>6, <1>7, HolderMoves DEF JournalInv
<1>9. QED
  BY <1>1, <1>4, <1>8 DEF Quiet

\* The three steps of a write find what they write and where.
LEMMA AtWrite ==
  ASSUME JournalInv, NEW p \in Writers, proc[p].pc \in {"temp", "unlink", "rename"}
  PROVE  /\ IndexPut(proc[p]) \/ IntentPut(proc[p])
         /\ proc[p].put.file \in {"index", "intent"}
         /\ proc[p].pc = "temp" => temps = {}
         /\ proc[p].pc # "temp" => temps = {proc[p].put.file}
BY DEF JournalInv, Progress, IndexPut, IntentPut

LEMMA WriteTemporaryInv ==
  ASSUME JournalInv, NEW p \in Writers, WriteTemporary(p)
  PROVE  JournalInv' /\ Quiet
<1>1. /\ proc[p].pc = "temp" /\ temps' = temps \cup {proc[p].put.file} /\ Goto(p, "unlink")
      /\ UNCHANGED <<backend, lines, torn, intent, index, lock, accepted>>
  BY DEF WriteTemporary, At
<1>2. /\ proc' \in [Writers -> Processes]
      /\ \A q \in Writers \ {p} : proc'[q] = proc[q]
      /\ proc'[p].pc = "unlink" /\ proc'[p].op = proc[p].op
      /\ proc'[p].put = proc[p].put /\ proc'[p].next = proc[p].next
  BY <1>1, GotoIs, "unlink" \in Pcs DEF JournalInv, Pcs
<1>3. FilesMatch' /\ AcceptedLog' = AcceptedLog
  BY <1>1, SameFiles DEF JournalInv
<1>4. Progress(proc[p])'
  BY <1>1, <1>2, <1>3, AtWrite DEF Progress, IndexPut, IntentPut, Complete, Kept
<1>5. temps' \subseteq {"intent", "index"}
  BY <1>1, AtWrite
<1>6. JournalInv'
  BY <1>1, <1>2, <1>3, <1>4, <1>5, HolderMoves
<1>7. QED
  BY <1>1, <1>3, <1>6 DEF Quiet

LEMMA RemoveDestinationInv ==
  ASSUME JournalInv, NEW p \in Writers, RemoveDestination(p)
  PROVE  JournalInv' /\ Quiet
<1>1. /\ proc[p].pc = "unlink" /\ Goto(p, "rename")
      /\ UNCHANGED <<backend, lines, torn, temps, lock, accepted>>
  BY DEF RemoveDestination, At
<1>2. intent' = intent /\ index' \in {index, NoFile}
  <2>1. CASE IndexPut(proc[p])
    BY <2>1 DEF RemoveDestination, IndexPut
  <2>2. CASE IntentPut(proc[p])
    BY <2>2 DEF RemoveDestination, IntentPut
  <2>3. QED
    BY <1>1, <2>1, <2>2, AtWrite
<1>3. /\ proc' \in [Writers -> Processes]
      /\ \A q \in Writers \ {p} : proc'[q] = proc[q]
      /\ proc'[p].pc = "rename" /\ proc'[p].op = proc[p].op
      /\ proc'[p].put = proc[p].put /\ proc'[p].next = proc[p].next
  BY <1>1, GotoIs, "rename" \in Pcs DEF JournalInv, Pcs
<1>4. AcceptedLog' = AcceptedLog
  BY <1>1, <1>2 DEF AcceptedLog
<1>5. FilesMatch'
  BY <1>1, <1>2, <1>4 DEF JournalInv, FilesMatch
<1>6. Progress(proc[p])'
  BY <1>1, <1>2, <1>3, <1>4, AtWrite DEF Progress, IndexPut, IntentPut, Complete, Kept
<1>7. JournalInv'
  BY <1>1, <1>3, <1>4, <1>5, <1>6, HolderMoves DEF JournalInv
<1>8. QED
  BY <1>1, <1>4, <1>7 DEF Quiet

\* The new file is in place: the process goes on, without a temporary file.
LEMMA RenameIs ==
  ASSUME JournalInv, NEW p \in Writers, RenameTemporary(p)
  PROVE  /\ proc[p].pc = "rename" /\ temps' = {}
         /\ UNCHANGED <<backend, lines, torn, lock, accepted>>
         /\ proc' \in [Writers -> Processes]
         /\ \A q \in Writers \ {p} : proc'[q] = proc[q]
         /\ proc'[p].pc = proc[p].next /\ proc'[p].op = proc[p].op /\ proc'[p].next = "finish"
         /\ proc[p].put.file = "intent" => proc'[p].todo = proc[p].put.value.events
<1> DEFINE todo == IF proc[p].put.file = "intent" THEN proc[p].put.value.events ELSE <<>>
<1>1. /\ proc[p].pc = "rename" /\ temps' = temps \ {proc[p].put.file}
      /\ UNCHANGED <<backend, lines, torn, lock, accepted>>
      /\ proc' = [proc EXCEPT ![p].pc = proc[p].next, ![p].put = NoFile,
                              ![p].next = "finish", ![p].todo = todo]
  BY DEF RenameTemporary, At
<1>2. temps = {proc[p].put.file}
  BY <1>1, AtWrite
<1>3. proc[p].next \in Pcs /\ NoFile \in Puts /\ "finish" \in Pcs
  BY DEF JournalInv, Processes, Puts, Pcs
<1>4. todo \in Todos
  <2>1. CASE proc[p].put.file = "intent"
    <3>1. IntentPut(proc[p])
      BY <1>1, <2>1, AtWrite DEF IndexPut
    <3>2. todo = proc[p].op /\ proc[p].op \in Batches
      BY <2>1, <3>1 DEF IntentPut
    <3>3. QED
      BY <3>2, BatchIsSeq DEF Todos
  <2>2. CASE proc[p].put.file # "intent"
    BY <2>2, EmptySeq DEF Todos
  <2>3. QED
    BY <2>1, <2>2
<1>5. todo = proc[p].put.value.events \/ proc[p].put.file # "intent"
  OBVIOUS
<1> HIDE DEF todo
<1>6. proc \in [Writers -> Processes]
  BY DEF JournalInv
<1>7. PICK place \in Processes : place = proc[p]
  BY <1>6
<1>8. PICK moved : moved = [place EXCEPT !.pc = place.next, !.put = NoFile,
                                         !.next = "finish", !.todo = todo]
  OBVIOUS
<1>9. /\ moved \in Processes /\ moved.pc = place.next /\ moved.op = place.op
      /\ moved.next = "finish" /\ moved.todo = todo
  BY <1>3, <1>4, <1>7, <1>8 DEF Processes
<1>10. proc' = [proc EXCEPT ![p] = moved]
  BY <1>1, <1>6, <1>7, <1>8 DEF Processes
<1>11. /\ proc' \in [Writers -> Processes] /\ proc'[p] = moved
       /\ \A q \in Writers \ {p} : proc'[q] = proc[q]
  BY <1>6, <1>9, <1>10
<1>12. proc[p].put.file = "intent" => proc'[p].todo = proc[p].put.value.events
  BY <1>5, <1>9, <1>11
<1>13. QED
  BY <1>1, <1>2, <1>7, <1>9, <1>11, <1>12

LEMMA RenameIndexInv ==
  ASSUME JournalInv, NEW p \in Writers, RenameTemporary(p), IndexPut(proc[p])
  PROVE  JournalInv' /\ Quiet
<1>1. index' = lines /\ intent' = intent
  BY DEF RenameTemporary, IndexPut
<1>2. AcceptedLog' = AcceptedLog
  BY <1>1, RenameIs DEF AcceptedLog
<1>3. FilesMatch'
  BY <1>1, <1>2, RenameIs DEF JournalInv, FilesMatch
<1>4. Progress(proc[p])'
  BY <1>1, <1>2, RenameIs DEF Progress, IndexPut, Complete, Kept
<1>5. JournalInv'
  BY <1>2, <1>3, <1>4, RenameIs, HolderMoves DEF JournalInv
<1>6. QED
  BY <1>2, <1>5, RenameIs DEF Quiet

\* The rename of the intent accepts the batch.
LEMMA RenameIntentInv ==
  ASSUME JournalInv, NEW p \in Writers, RenameTemporary(p), IntentPut(proc[p])
  PROVE  JournalInv' /\ Log!Next
<1> DEFINE b == proc[p].op
<1>1. /\ b \in Batches /\ Ids(b) \cap Ids(lines) = {} /\ intent = NoFile
      /\ proc[p].next = "append" /\ proc[p].put.file = "intent"
      /\ proc[p].put.value.events = b
      /\ index' = index /\ intent' = [base |-> Len(lines), events |-> b]
  BY DEF RenameTemporary, IntentPut
<1>2. AcceptedLog = lines /\ torn = NoEvent
  BY <1>1, WithoutIntent
<1>3. lines \in Seq(Events) /\ Len(lines) \in Nat /\ ParseComplete(lines)
  BY <1>2, LenProperties DEF JournalInv, FilesMatch
<1>4. intent' \in Intents /\ intent' # NoFile
  BY <1>1, <1>3, JournalAssumption DEF Intents
<1>5. AcceptedLog' = lines \o b
  <2>1. AcceptedLog' = SubSeq(lines', 1, Len(lines)) \o b
    BY <1>1, <1>4 DEF AcceptedLog
  <2>2. QED
    BY <1>3, <2>1, SubSeqFull, RenameIs
<1>6. /\ lines \o b \in Seq(Events) /\ Len(lines \o b) = Len(lines) + Len(b)
      /\ Prefix(lines, lines \o b) /\ ParseComplete(lines \o b)
      /\ \A i \in 1..Len(b) : b[i] = (lines \o b)[Len(lines) + i]
      /\ Elements(b) \subseteq Elements(lines \o b)
  BY <1>1, <1>3, Extended
<1>7. Elements(AcceptedLog) \subseteq Elements(AcceptedLog')
  BY <1>2, <1>3, <1>5, <1>6, PrefixElements
<1>8. FilesMatch'
  BY <1>1, <1>2, <1>3, <1>4, <1>5, <1>6, RenameIs DEF FilesMatch
<1>9. Continues(b, lines, lines \o b)
  BY <1>1, <1>3, <1>6, BatchIsSeq DEF Continues
<1>10. Progress(proc[p])'
  <2>1. proc'[p].pc = "append" /\ proc'[p].todo = b /\ proc'[p].op = b /\ proc'[p].next = "finish"
    BY <1>1, RenameIs
  <2>2. Kept(proc[p].op)'
    BY <1>1, <1>5, <1>6, <2>1 DEF Kept
  <2>3. QED
    BY <1>4, <1>5, <1>9, <2>1, <2>2, RenameIs DEF Progress
<1>11. JournalInv'
  BY <1>7, <1>8, <1>10, RenameIs, HolderMoves
<1>12. Log!Append1(b)
  <2>1. Log!Ids(b) = Ids(b) /\ Log!Ids(AcceptedLog) = Ids(AcceptedLog)
    BY DEF Log!Ids, Ids
  <2>2. Ids(b) \cap Ids(AcceptedLog) = {}
    BY <1>1, <1>2
  <2>3. AcceptedLog' = AcceptedLog \o b /\ accepted' = accepted
    BY <1>2, <1>5, RenameIs
  <2> HIDE DEF b
  <2>4. QED
    BY <2>1, <2>2, <2>3 DEF Log!Append1
<1>13. QED
  BY <1>1, <1>11, <1>12, Zenon DEF Log!Next

LEMMA LoadInv ==
  ASSUME JournalInv, NEW p \in Writers, LoadIndex(p)
  PROVE  JournalInv' /\ Quiet
<1>1. proc[p].pc = "load" /\ UNCHANGED <<files, lock, accepted>>
  BY DEF LoadIndex, At
<1>2. /\ intent = NoFile /\ temps = {} /\ lines \in Seq(Events)
      /\ proc[p].op \in Batches \cup {Replay}
  BY <1>1 DEF JournalInv, FilesMatch, Progress, Processes, Ops
<1>3. FilesMatch' /\ AcceptedLog' = AcceptedLog
  BY <1>1, SameFiles DEF JournalInv, files
<1>4. CASE Goto(p, "build") /\ proc[p].op # Replay
  <2>1. /\ proc' \in [Writers -> Processes]
        /\ \A q \in Writers \ {p} : proc'[q] = proc[q]
        /\ proc'[p].pc = "build" /\ proc'[p].op = proc[p].op
    BY <1>4, GotoIs, "build" \in Pcs DEF JournalInv, Pcs
  <2>2. Progress(proc[p])'
    BY <1>1, <1>2, <1>4, <2>1 DEF Progress, files
  <2>3. JournalInv'
    BY <1>1, <1>3, <2>1, <2>2, HolderMoves DEF JournalInv, files
  <2>4. QED
    BY <1>1, <1>3, <2>3 DEF Quiet
<1>5. ASSUME NEW pc \in {"build", "answer"}, Put(p, "index", lines, pc),
             pc = "build" <=> proc[p].op # Replay
      PROVE  JournalInv' /\ Quiet
  <2>1. /\ proc' \in [Writers -> Processes]
        /\ \A q \in Writers \ {p} : proc'[q] = proc[q]
        /\ proc'[p].pc = "temp" /\ proc'[p].op = proc[p].op
        /\ proc'[p].put = [file |-> "index", value |-> lines] /\ proc'[p].next = pc
    BY <1>2, <1>5, PutIs, pc \in Pcs DEF JournalInv, Pcs
  <2>2. IndexPut(proc[p])'
    BY <1>1, <1>2, <1>5, <2>1 DEF IndexPut, files
  <2>3. Progress(proc[p])'
    BY <1>1, <1>2, <2>1, <2>2 DEF Progress, files
  <2>4. JournalInv'
    BY <1>1, <1>3, <2>1, <2>3, HolderMoves DEF JournalInv, files
  <2>5. QED
    BY <1>1, <1>3, <2>4 DEF Quiet
<1>6. QED
  BY <1>4, <1>5 DEF LoadIndex

LEMMA VerdictIs ==
  ASSUME NEW b
  PROVE  /\ Verdict(b) = "again" => Elements(b) \subseteq Elements(lines)
         /\ Verdict(b) = "new" => Ids(b) \cap Ids(lines) = {}
         /\ Verdict(b) \in {"again", "new", "refused"}
BY DEF Verdict

LEMMA BuildInv ==
  ASSUME JournalInv, NEW p \in Writers, Build(p)
  PROVE  JournalInv' /\ Quiet
<1>1. proc[p].pc = "build" /\ UNCHANGED <<files, lock, accepted>>
  BY DEF Build, At
<1>2. intent = NoFile /\ temps = {} /\ proc[p].op \in Batches /\ lines \in Seq(Events)
  BY <1>1 DEF JournalInv, FilesMatch, Progress
<1>3. FilesMatch' /\ AcceptedLog' = AcceptedLog
  BY <1>1, SameFiles DEF JournalInv, files
<1>4. CASE Verdict(proc[p].op) = "again" /\ Goto(p, "answer")
  <2>1. /\ proc' \in [Writers -> Processes]
        /\ \A q \in Writers \ {p} : proc'[q] = proc[q]
        /\ proc'[p].pc = "answer" /\ proc'[p].op = proc[p].op
    BY <1>4, GotoIs, "answer" \in Pcs DEF JournalInv, Pcs
  <2>2. Kept(proc[p].op)
    BY <1>2, <1>4, VerdictIs DEF Kept, AcceptedLog
  <2>3. Progress(proc[p])'
    BY <1>3, <2>1, <2>2 DEF Progress, Kept
  <2>4. JournalInv'
    BY <1>1, <1>3, <2>1, <2>3, HolderMoves DEF JournalInv, files
  <2>5. QED
    BY <1>1, <1>3, <2>4 DEF Quiet
<1>5. CASE /\ Verdict(proc[p].op) = "new"
           /\ Put(p, "intent", [base |-> Len(lines), events |-> proc[p].op], "append")
  <2>1. [base |-> Len(lines), events |-> proc[p].op] \in Intents
    BY <1>2, LenProperties DEF Intents
  <2>2. /\ proc' \in [Writers -> Processes]
        /\ \A q \in Writers \ {p} : proc'[q] = proc[q]
        /\ proc'[p].pc = "temp" /\ proc'[p].op = proc[p].op
        /\ proc'[p].put = [file |-> "intent",
                           value |-> [base |-> Len(lines), events |-> proc[p].op]]
        /\ proc'[p].next = "append"
    BY <1>5, <2>1, PutIs, "append" \in Pcs DEF JournalInv, Pcs
  <2>3. IntentPut(proc[p])'
    BY <1>1, <1>2, <1>5, <2>2, VerdictIs DEF IntentPut, files
  <2>4. Progress(proc[p])'
    BY <1>1, <1>2, <2>2, <2>3 DEF Progress, files
  <2>5. JournalInv'
    BY <1>1, <1>3, <2>2, <2>4, HolderMoves DEF JournalInv, files
  <2>6. QED
    BY <1>1, <1>3, <2>5 DEF Quiet
<1>6. QED
  BY <1>4, <1>5, VerdictIs DEF Build

\* The answer acknowledges what the log holds.
LEMMA AnswerInv ==
  ASSUME JournalInv, NEW p \in Writers, Answer(p)
  PROVE  JournalInv' /\ (Log!Next \/ Quiet)
<1>1. proc[p].pc = "answer" /\ End(p) /\ UNCHANGED files
  BY DEF Answer, At
<1>2. proc[p].op = Replay \/ Kept(proc[p].op)
  BY <1>1 DEF JournalInv, Progress
<1>3. /\ proc' \in [Writers -> Processes]
      /\ \A q \in Writers \ {p} : proc'[q] = proc[q]
      /\ proc'[p].pc = "idle" /\ lock' = IF lock = p THEN Nobody ELSE lock
  BY <1>1, EndIs DEF JournalInv
<1>4. FilesMatch' /\ AcceptedLog' = AcceptedLog
  BY <1>1, SameFiles DEF JournalInv, files
<1>5. Progress(proc[p])'
  BY <1>3 DEF Progress
<1>6. accepted' \subseteq Batches
  BY <1>2 DEF Answer, JournalInv, Kept
<1>7. JournalInv'
  BY <1>1, <1>3, <1>4, <1>5, <1>6, OneMoves DEF JournalInv, files, LockHeld
<1>8. CASE proc[p].op = Replay
  BY <1>4, <1>7, <1>8 DEF Answer, Quiet
<1>9. CASE proc[p].op # Replay
  <2>1. Log!Acknowledge(proc[p].op)
    BY <1>2, <1>4, <1>9 DEF Answer, Kept, Log!Acknowledge, Log!Elements, Elements
  <2>2. proc[p].op \in Batches
    BY <1>2, <1>9 DEF Kept
  <2>3. Log!Next
    BY <2>1, <2>2, Zenon DEF Log!Next
  <2>4. QED
    BY <1>7, <2>3
<1>10. QED
  BY <1>8, <1>9

LEMMA AppendSqlInv ==
  ASSUME JournalInv, NEW p \in Writers, AppendSql(p)
  PROVE  JournalInv' /\ (Log!Next \/ Quiet)
<1> DEFINE b == proc[p].op
           new == b # Replay /\ Verdict(b) = "new"
<1>1. /\ proc[p].pc = "lock" /\ backend = "sql" /\ Goto(p, "answer")
      /\ b # Replay => Verdict(b) # "refused"
      /\ lines' = IF new THEN lines \o b ELSE lines
      /\ UNCHANGED <<backend, torn, intent, index, temps, lock, accepted>>
  BY DEF AppendSql, At
<1>2. intent = NoFile /\ index = NoFile /\ b \in Batches \cup {Replay}
  BY <1>1 DEF JournalInv, LockHeld, Processes, Ops
<1>3. /\ AcceptedLog = lines /\ torn = NoEvent /\ AcceptedLog' = lines'
      /\ lines \in Seq(Events) /\ ParseComplete(lines)
  BY <1>1, <1>2, WithoutIntent DEF AcceptedLog, JournalInv, FilesMatch
<1>4. /\ proc' \in [Writers -> Processes]
      /\ \A q \in Writers \ {p} : proc'[q] = proc[q]
      /\ proc'[p].pc = "answer" /\ proc'[p].op = proc[p].op
  BY <1>1, GotoIs, "answer" \in Pcs DEF JournalInv, Pcs
<1>5. ASSUME lines' \in Seq(Events), ParseComplete(lines'),
             Elements(lines) \subseteq Elements(lines'),
             b # Replay => Elements(b) \subseteq Elements(lines')
      PROVE  JournalInv'
  <2>1. FilesMatch'
    BY <1>1, <1>2, <1>3, <1>5, LenProperties DEF FilesMatch, Prefix
  <2>2. Progress(proc[p])'
    BY <1>2, <1>3, <1>4, <1>5 DEF Progress, Kept
  <2>3. QED
    BY <1>1, <1>2, <1>3, <1>4, <1>5, <2>1, <2>2, OneMoves DEF JournalInv
<1>6. CASE new
  <2>1. b \in Batches /\ Ids(b) \cap Ids(lines) = {}
    BY <1>2, <1>6, VerdictIs
  <2>2. /\ lines' = lines \o b /\ lines' \in Seq(Events) /\ ParseComplete(lines')
        /\ Prefix(lines, lines') /\ Elements(b) \subseteq Elements(lines')
    BY <1>1, <1>3, <1>6, <2>1, Extended
  <2>3. JournalInv'
    BY <1>3, <1>5, <2>2, PrefixElements
  <2>4. Log!Append1(b)
    BY <1>1, <1>3, <2>1, <2>2 DEF Log!Append1, Log!Ids, Ids
  <2>5. Log!Next
    BY <2>1, <2>4, Zenon DEF Log!Next
  <2>6. QED
    BY <2>3, <2>5
<1>7. CASE ~new
  <2>1. lines' = lines
    BY <1>1, <1>7
  <2>2. b # Replay => Elements(b) \subseteq Elements(lines)
    BY <1>1, <1>7, VerdictIs
  <2>3. JournalInv'
    BY <1>3, <1>5, <2>1, <2>2
  <2>4. QED
    BY <1>1, <1>3, <2>1, <2>3 DEF Quiet
<1>8. QED
  BY <1>6, <1>7

-----------------------------------------------------------------------------
\* Every step keeps the invariant, and extends the log, acknowledges a batch or
\* is not seen from outside.

LEMMA NextInv ==
  ASSUME JournalInv, JournalNext
  PROVE  JournalInv' /\ (Log!Next \/ Quiet)
<1>1. PICK p \in Writers :
        (\E op \in Batches \cup {Replay} : Call(p, op)) \/ Step(p) \/ Interrupt(p)
  BY DEF JournalNext
<1>2. CASE \E op \in Batches \cup {Replay} : Call(p, op)
  BY <1>2, CallInv
<1>3. CASE Step(p)
  <2>1. CASE AcquireAppendLock(p)
    BY <2>1, AcquireInv
  <2>2. CASE LockTimeout(p)
    BY <2>2, EndInv DEF LockTimeout
  <2>3. CASE RemoveStaleTemporary(p)
    BY <2>3, RemoveStaleInv
  <2>4. CASE RecoverIntent(p)
    BY <2>4, RecoverInv
  <2>5. CASE BeginRecord(p)
    BY <2>5, BeginInv
  <2>6. CASE EndRecord(p)
    BY <2>6, EndRecordInv
  <2>7. CASE IndexAppended(p)
    BY <2>7, IndexAppendedInv
  <2>8. CASE RemoveIntent(p)
    BY <2>8, RemoveIntentInv
  <2>9. CASE WriteTemporary(p)
    BY <2>9, WriteTemporaryInv
  <2>10. CASE RemoveDestination(p)
    BY <2>10, RemoveDestinationInv
  <2>11. CASE RenameTemporary(p)
    <3>1. IndexPut(proc[p]) \/ IntentPut(proc[p])
      BY <2>11, AtWrite DEF RenameTemporary, At
    <3>2. QED
      BY <2>11, <3>1, RenameIndexInv, RenameIntentInv
  <2>12. CASE LoadIndex(p)
    BY <2>12, LoadInv
  <2>13. CASE Build(p)
    BY <2>13, BuildInv
  <2>14. CASE Refuse(p)
    BY <2>14, EndInv DEF Refuse
  <2>15. CASE Answer(p)
    BY <2>15, AnswerInv
  <2>16. CASE AppendSql(p)
    BY <2>16, AppendSqlInv
  <2>17. QED
    BY <1>3, <2>1, <2>2, <2>3, <2>4, <2>5, <2>6, <2>7, <2>8, <2>9, <2>10,
       <2>11, <2>12, <2>13, <2>14, <2>15, <2>16 DEF Step
<1>4. CASE Interrupt(p)
  BY <1>4, EndInv DEF Interrupt
<1>5. QED
  BY <1>1, <1>2, <1>3, <1>4

LEMMA StutterInv ==
  ASSUME JournalInv, UNCHANGED journalVars
  PROVE  JournalInv' /\ Quiet
<1>1. FilesMatch' /\ AcceptedLog' = AcceptedLog
  BY SameFiles DEF JournalInv, journalVars
<1>2. LockHeld'
  BY DEF JournalInv, LockHeld, Busy, journalVars
<1>3. \A p \in Writers : Progress(proc[p])'
  BY <1>1 DEF JournalInv, Progress, IndexPut, IntentPut, Complete, Kept, journalVars
<1>4. QED
  BY <1>1, <1>2, <1>3 DEF JournalInv, Quiet, journalVars

LEMMA Invariant == JournalSpec => []JournalInv
<1>1. JournalInv /\ [JournalNext]_journalVars => JournalInv'
  BY NextInv, StutterInv
<1>2. QED
  BY InvInit, <1>1, PTL DEF JournalSpec

-----------------------------------------------------------------------------
\* Every variable of the journal keeps its type, and only the holder of the
\* lock is inside an operation on the files.
THEOREM JournalTypeCorrect == JournalSpec => []JournalTypeOK
<1>1. JournalInv => JournalTypeOK
  <2> SUFFICES ASSUME JournalInv PROVE JournalTypeOK
    OBVIOUS
  <2>1. torn \in Events \cup {NoEvent}
    <3>1. CASE torn # NoEvent
      <4>1. /\ AcceptedLog \in Seq(Events) /\ torn = AcceptedLog[Len(lines) + 1]
            /\ Len(lines) < Len(AcceptedLog) /\ lines \in Seq(Events)
        BY <3>1 DEF JournalInv, FilesMatch
      <4>2. Len(lines) + 1 \in 1..Len(AcceptedLog)
        BY <4>1, LenProperties
      <4>3. QED
        BY <4>1, <4>2, ElementOfSeq
    <3>2. QED
      BY <3>1
  <2>2. \A p \in Writers : At(p, "idle") \/ At(p, "lock") \/ backend = "sql" \/ lock = p
    BY DEF JournalInv, LockHeld, Busy, At
  <2>3. QED
    BY <2>1, <2>2 DEF JournalInv, FilesMatch, JournalTypeOK, Intents
<1>2. QED
  BY Invariant, <1>1, PTL

LEMMA PrefixStarts ==
  ASSUME NEW s \in Seq(Events), NEW t \in Seq(Events), Prefix(s, t)
  PROVE  Starts(s, t)
<1>1. Len(s) \in Nat /\ Len(t) \in Nat /\ Len(s) <= Len(t)
  BY LenProperties DEF Prefix
<1>2. \A i \in 1..Len(s) : t[i] \in Events
  BY <1>1, ElementOfSeq
<1>3. /\ SubSeq(t, 1, Len(s)) \in Seq(Events) /\ Len(SubSeq(t, 1, Len(s))) = Len(s)
      /\ \A i \in 1..Len(s) : SubSeq(t, 1, Len(s))[i] = t[i]
  BY <1>1, <1>2, SubSeqProperties, 1 \in Int, Len(s) \in Int
<1>4. s = SubSeq(t, 1, Len(s))
  BY <1>3, SeqEqual DEF Prefix
<1>5. QED
  BY <1>1, <1>4 DEF Starts

\* Wherever an operation is cut off, recovery and the checks of the next one
\* succeed, and who reads without the lock sees a beginning of the accepted log.
THEOREM StaysReadable == JournalSpec => []NeverCorrupt
<1>1. JournalInv => NeverCorrupt
  <2> SUFFICES ASSUME JournalInv PROVE NeverCorrupt
    OBVIOUS
  <2>1. Starts(lines, AcceptedLog)
    BY PrefixStarts DEF JournalInv, FilesMatch
  <2>2. ParseComplete(lines)
    <3>1. /\ ParseComplete(AcceptedLog) /\ Prefix(lines, AcceptedLog)
          /\ Len(lines) \in Nat /\ Len(AcceptedLog) \in Nat
      BY LenProperties DEF JournalInv, FilesMatch
    <3>2. QED
      BY <3>1 DEF ParseComplete, Prefix
  <2>3. torn # NoEvent => Len(lines) < Len(AcceptedLog) /\ AcceptedLog[Len(lines) + 1] = torn
    BY DEF JournalInv, FilesMatch
  <2>4. intent # NoFile => IntentMatches
    BY <2>1, <2>3 DEF JournalInv, FilesMatch, IntentMatches, AcceptedLog
  <2>5. ASSUME NEW p \in Writers
        PROVE  ~Corrupt(p)
    <3>1. At(p, "load") => torn = NoEvent /\ IndexMatches
      <4>1. At(p, "load") => intent = NoFile
        BY DEF JournalInv, Progress, At
      <4>2. intent = NoFile => torn = NoEvent /\ index \in {NoFile, lines}
        BY WithoutIntent DEF JournalInv, FilesMatch
      <4>3. QED
        BY <4>1, <4>2 DEF IndexMatches
    <3>2. At(p, "temp") => temps = {}
      BY DEF JournalInv, Progress, At
    <3>3. QED
      BY <2>2, <2>4, <3>1, <3>2 DEF Corrupt, SqlReadable
  <2>6. QED
    BY <2>1, <2>3, <2>5 DEF NeverCorrupt, Summary
<1>2. QED
  BY Invariant, <1>1, PTL

\* The journal implements the once-only log of whole batches.
THEOREM ImplementsOnceLog == JournalSpec => OnceOnly
<1>1. JournalInit => Log!Init
  BY DEF JournalInit, Log!Init, AcceptedLog
<1>2. JournalInv /\ [JournalNext]_journalVars => [Log!Next]_(Log!vars)
  BY NextInv, StutterInv DEF Quiet, Log!vars
<1>3. QED
  BY Invariant, <1>1, <1>2, PTL DEF JournalSpec, OnceOnly, Log!Spec

-----------------------------------------------------------------------------
(* The task bindings (TaskBindings).  What the model says of `records' is     *)
(* restated for any history s, because the proofs compare a history with a    *)
(* longer one.                                                                *)

BindingRecords == [task : Tasks, wt : Worktrees, from : Worktrees \cup {None}, at : Nat]

\* The operators on the history, of any history s.
OfIn(s, k) == {i \in 1..Len(s) : s[i].task = k}
LastIn(s, k) == CHOOSE i \in OfIn(s, k) : \A j \in OfIn(s, k) : j <= i
WhereIn(s, k) == IF OfIn(s, k) = {} THEN None ELSE s[LastIn(s, k)].wt
Before(s, i) == {j \in OfIn(s, s[i].task) : j < i}
Linked(s, i) ==
    LET prev == CHOOSE j \in Before(s, i) : \A l \in Before(s, i) : l <= j
    IN  IF Before(s, i) = {} THEN s[i].from = None
        ELSE /\ s[i].from = s[prev].wt
             /\ s[i].wt # s[prev].wt
             /\ s[prev].at < s[i].at
HistoryIn(s) == \A i \in 1..Len(s) : Linked(s, i)

\* Records that may be added to history s, all of them at once.
Fits(s, r) ==
    /\ r.from = WhereIn(s, r.task) /\ r.wt # r.from
    /\ \A i \in OfIn(s, r.task) : s[i].at < r.at
Distinct(a) == \A i, j \in 1..Len(a) : a[i].task = a[j].task => i = j

-----------------------------------------------------------------------------
\* Numbers: least and greatest elements, and the n-th of a set.

LEMMA NatMin ==
  ASSUME NEW T \in SUBSET Nat, T # {}
  PROVE  \E x \in T : \A y \in T : x <= y
<1> DEFINE R == {ss \in Nat \X Nat : ss[1] < ss[2]}
<1>1. IsWellFoundedOn(R, Nat)
  BY NatLessThanWellFounded DEF OpToRel
<1>2. PICK x \in T : \A y \in T : ~(<<y, x>> \in R)
  BY <1>1, WFMin
<1>3. ASSUME NEW y \in T
      PROVE  x <= y
  <2>1. <<y, x>>[1] = y /\ <<y, x>>[2] = x
    OBVIOUS
  <2>2. ~(y < x)
    <3>1. SUFFICES ASSUME y < x PROVE FALSE
      OBVIOUS
    <3>2. <<y, x>> \in R
      BY <2>1, <3>1
    <3>3. QED
      BY <1>2, <3>2
  <2>3. x \in Nat /\ y \in Nat
    OBVIOUS
  <2>4. QED
    BY <2>2, <2>3
<1>4. QED
  BY <1>3

LEMMA BoundedMax ==
  ASSUME NEW n \in Nat, NEW T \in SUBSET (1..n), T # {}
  PROVE  \E x \in T : \A y \in T : y <= x
<1> DEFINE D == {n - x : x \in T}
<1>1. \A x \in T : x \in Nat /\ x <= n
  OBVIOUS
<1>2. D \in SUBSET Nat
  <2>1. ASSUME NEW x \in T PROVE n - x \in Nat
    BY <1>1
  <2>2. QED
    BY <2>1
<1>3. PICK x0 \in T : TRUE
  OBVIOUS
<1>4. n - x0 \in D
  OBVIOUS
<1>5. PICK d \in D : \A e \in D : d <= e
  BY <1>2, <1>4, NatMin
<1>6. PICK x \in T : d = n - x
  OBVIOUS
<1>7. ASSUME NEW y \in T PROVE y <= x
  <2>1. n - x <= n - y
    BY <1>5, <1>6
  <2>2. QED
    BY <1>1, <2>1
<1>8. QED
  BY <1>7

\* The elements of S that are at most i.
UpTo(S, i) == {j \in S : j <= i}

LEMMA IndexSet ==
  ASSUME NEW m \in Nat, NEW S \in SUBSET (1..m)
  PROVE  /\ IsFiniteSet(S) /\ Cardinality(S) \in Nat
         /\ \A j \in S : j \in Nat /\ 1 <= j /\ j <= m
<1>1. IsFiniteSet(1..m)
  BY FS_Interval
<1>2. IsFiniteSet(S)
  BY <1>1, FS_Subset
<1>3. QED
  BY <1>2, FS_CardinalityType

LEMMA UpToStep ==
  ASSUME NEW m \in Nat, NEW S \in SUBSET (1..m), NEW i \in Nat
  PROVE  /\ IsFiniteSet(UpTo(S, i)) /\ Cardinality(UpTo(S, i)) \in Nat
         /\ i + 1 \notin S => UpTo(S, i + 1) = UpTo(S, i)
         /\ i + 1 \in S => Cardinality(UpTo(S, i + 1)) = Cardinality(UpTo(S, i)) + 1
<1>1. IsFiniteSet(S)
  BY IndexSet
<1>2. IsFiniteSet(UpTo(S, i)) /\ Cardinality(UpTo(S, i)) \in Nat
  BY <1>1, FS_Subset, FS_CardinalityType DEF UpTo
<1>3. \A j \in S : j \in Nat
  BY IndexSet
<1>4. CASE i + 1 \in S
  <2>1. UpTo(S, i + 1) = UpTo(S, i) \cup {i + 1}
    <3>1. \A j \in S : j <= i + 1 <=> j <= i \/ j = i + 1
      BY <1>3
    <3>2. QED
      BY <1>4, <3>1 DEF UpTo
  <2>2. i + 1 \notin UpTo(S, i)
    BY DEF UpTo
  <2>3. QED
    BY <1>2, <1>4, <2>1, <2>2, FS_AddElement
<1>5. CASE i + 1 \notin S
  <2>1. UpTo(S, i + 1) = UpTo(S, i)
    <3>1. \A j \in S : j <= i + 1 <=> j <= i
      BY <1>3, <1>5
    <3>2. QED
      BY <3>1 DEF UpTo
  <2>2. QED
    BY <1>2, <1>5, <2>1
<1>6. QED
  BY <1>4, <1>5

\* Nth counts: the n-th element has n elements of S up to it.
LEMMA NthCounts ==
  ASSUME NEW m \in Nat, NEW S \in SUBSET (1..m), NEW n \in 1..Cardinality(S)
  PROVE  Nth(S, n) \in S /\ Cardinality(UpTo(S, Nth(S, n))) = n
<1> DEFINE T == {i \in Nat : Cardinality(UpTo(S, i)) >= n}
<1>1. /\ IsFiniteSet(S) /\ Cardinality(S) \in Nat
      /\ \A j \in S : j \in Nat /\ 1 <= j /\ j <= m
  BY IndexSet
<1>2. UpTo(S, m) = S
  BY <1>1 DEF UpTo
<1>3. m \in T
  BY <1>1, <1>2
<1>4. PICK x \in T : \A y \in T : x <= y
  BY <1>3, NatMin
<1>5. UpTo(S, 0) = {}
  <2>1. \A j \in S : ~(j <= 0)
    BY <1>1
  <2>2. QED
    BY <2>1 DEF UpTo
<1>6. x # 0
  <2>1. Cardinality(UpTo(S, 0)) = 0
    BY <1>5, FS_EmptySet
  <2>2. QED
    BY <1>1, <1>4, <2>1
<1>7. x - 1 \in Nat /\ x - 1 \notin T /\ (x - 1) + 1 = x
  BY <1>4, <1>6
<1>8. Cardinality(UpTo(S, x - 1)) \in Nat /\ Cardinality(UpTo(S, x - 1)) < n
  <2>1. Cardinality(UpTo(S, x - 1)) \in Nat
    BY <1>7, UpToStep
  <2>2. QED
    BY <1>1, <1>7, <2>1
<1>9. /\ x \notin S => UpTo(S, x) = UpTo(S, x - 1)
      /\ x \in S => Cardinality(UpTo(S, x)) = Cardinality(UpTo(S, x - 1)) + 1
  <2>1. /\ (x - 1) + 1 \notin S => UpTo(S, (x - 1) + 1) = UpTo(S, x - 1)
        /\ (x - 1) + 1 \in S =>
              Cardinality(UpTo(S, (x - 1) + 1)) = Cardinality(UpTo(S, x - 1)) + 1
    BY <1>7, UpToStep
  <2>2. QED
    BY <1>7, <2>1
<1>10. x \in S /\ Cardinality(UpTo(S, x)) = n
  BY <1>1, <1>8, <1>9
<1>11. \E i \in S : Cardinality({j \in S : j <= i}) = n
  BY <1>10 DEF UpTo
<1>12. QED
  BY <1>11 DEF Nth, UpTo

\* ... and each element is one of them.
LEMMA NthCovers ==
  ASSUME NEW m \in Nat, NEW S \in SUBSET (1..m), NEW i \in S
  PROVE  \E n \in 1..Cardinality(S) : Nth(S, n) = i
<1> DEFINE n == Cardinality(UpTo(S, i))
<1>1. /\ IsFiniteSet(S) /\ Cardinality(S) \in Nat
      /\ \A j \in S : j \in Nat /\ 1 <= j /\ j <= m
  BY IndexSet
<1>2. \A j \in S : IsFiniteSet(UpTo(S, j)) /\ Cardinality(UpTo(S, j)) \in Nat
                   /\ Cardinality(UpTo(S, j)) <= Cardinality(S)
  BY <1>1, FS_Subset, FS_CardinalityType DEF UpTo
<1>3. UpTo(S, i) # {}
  BY DEF UpTo
<1>4. n \in 1..Cardinality(S)
  BY <1>1, <1>2, <1>3, FS_EmptySet
<1>5. Nth(S, n) \in S /\ Cardinality(UpTo(S, Nth(S, n))) = n
  BY <1>4, NthCounts
<1>6. \A a, b \in S : a < b => Cardinality(UpTo(S, a)) # Cardinality(UpTo(S, b))
  <2>1. SUFFICES ASSUME NEW a \in S, NEW b \in S, a < b,
                        Cardinality(UpTo(S, a)) = Cardinality(UpTo(S, b))
                 PROVE  FALSE
    OBVIOUS
  <2>2. UpTo(S, a) \subseteq UpTo(S, b) /\ b \in UpTo(S, b) /\ b \notin UpTo(S, a)
    <3>1. a \in Nat /\ b \in Nat /\ \A j \in S : j \in Nat
      BY <1>1
    <3>2. \A j \in S : j <= a => j <= b
      BY <2>1, <3>1
    <3>3. b <= b /\ ~(b <= a)
      BY <2>1, <3>1
    <3>4. QED
      BY <3>2, <3>3 DEF UpTo
  <2>3. UpTo(S, a) = UpTo(S, b)
    BY <1>2, <2>1, <2>2, FS_Subset
  <2>4. QED
    BY <2>2, <2>3
<1>7. Nth(S, n) = i
  <2>1. Nth(S, n) \in Nat /\ i \in Nat
    BY <1>1, <1>5
  <2>2. QED
    BY <1>5, <1>6, <2>1
<1>8. QED
  BY <1>4, <1>7

-----------------------------------------------------------------------------
\* The history of one task.

LEMMA LastIsLast ==
  ASSUME NEW s \in Seq(BindingRecords), NEW k, OfIn(s, k) # {}
  PROVE  /\ LastIn(s, k) \in OfIn(s, k)
         /\ \A j \in OfIn(s, k) : j <= LastIn(s, k)
<1>1. Len(s) \in Nat /\ OfIn(s, k) \in SUBSET (1..Len(s))
  BY LenProperties DEF OfIn
<1>2. \E i \in OfIn(s, k) : \A j \in OfIn(s, k) : j <= i
  BY <1>1, BoundedMax
<1>3. QED
  BY <1>2 DEF LastIn

\* A last record is the last one, whatever else is known of it.
LEMMA LastIsUnique ==
  ASSUME NEW s \in Seq(BindingRecords), NEW k, NEW x \in OfIn(s, k),
         \A j \in OfIn(s, k) : j <= x
  PROVE  LastIn(s, k) = x
<1>1. LastIn(s, k) \in OfIn(s, k) /\ \A j \in OfIn(s, k) : j <= LastIn(s, k)
  BY LastIsLast
<1>2. LastIn(s, k) \in Nat /\ x \in Nat
  BY <1>1, LenProperties DEF OfIn
<1>3. LastIn(s, k) <= x /\ x <= LastIn(s, k)
  BY <1>1
<1>4. QED
  BY <1>2, <1>3

LEMMA WhereIsWorktree ==
  ASSUME NEW s \in Seq(BindingRecords), NEW k
  PROVE  /\ WhereIn(s, k) \in Worktrees \cup {None}
         /\ WhereIn(s, k) = None <=> OfIn(s, k) = {}
         /\ OfIn(s, k) # {} => /\ LastIn(s, k) \in 1..Len(s)
                               /\ WhereIn(s, k) = s[LastIn(s, k)].wt
<1>1. CASE OfIn(s, k) = {}
  BY <1>1 DEF WhereIn
<1>2. CASE OfIn(s, k) # {}
  <2>1. LastIn(s, k) \in 1..Len(s)
    BY <1>2, LastIsLast DEF OfIn
  <2>2. s[LastIn(s, k)] \in BindingRecords
    BY <2>1, ElementOfSeq
  <2>3. s[LastIn(s, k)].wt \in Worktrees
    BY <2>2 DEF BindingRecords
  <2>4. QED
    BY <1>2, <2>1, <2>3, BindingAssumption DEF WhereIn
<1>3. QED
  BY <1>1, <1>2

LEMMA Joined ==
  ASSUME NEW S, NEW s \in Seq(S), NEW a \in Seq(S)
  PROVE  /\ s \o a \in Seq(S) /\ Len(s \o a) = Len(s) + Len(a)
         /\ \A i \in 1..Len(s) : i \in 1..Len(s \o a) /\ (s \o a)[i] = s[i]
         /\ \A n \in 1..Len(a) : Len(s) + n \in 1..Len(s \o a) /\ (s \o a)[Len(s) + n] = a[n]
         /\ \A i \in 1..Len(s \o a) : i \in 1..Len(s) \/ \E n \in 1..Len(a) : i = Len(s) + n
         /\ Len(s) \in Nat /\ Len(a) \in Nat
<1>1. Len(s) \in Nat /\ Len(a) \in Nat
  BY LenProperties
<1>2. /\ s \o a \in Seq(S) /\ Len(s \o a) = Len(s) + Len(a)
      /\ \A i \in 1..Len(s) + Len(a) :
            (s \o a)[i] = IF i <= Len(s) THEN s[i] ELSE a[i - Len(s)]
  BY ConcatProperties
<1>3. \A i \in 1..Len(s) : i \in 1..Len(s \o a) /\ (s \o a)[i] = s[i]
  BY <1>1, <1>2
<1>4. \A n \in 1..Len(a) : Len(s) + n \in 1..Len(s \o a) /\ (s \o a)[Len(s) + n] = a[n]
  BY <1>1, <1>2
<1>5. ASSUME NEW i \in 1..Len(s \o a)
      PROVE  i \in 1..Len(s) \/ \E n \in 1..Len(a) : i = Len(s) + n
  <2>1. CASE i <= Len(s)
    BY <1>1, <1>2, <2>1
  <2>2. CASE ~(i <= Len(s))
    <3>1. i - Len(s) \in 1..Len(a) /\ i = Len(s) + (i - Len(s))
      BY <1>1, <1>2, <2>2
    <3>2. QED
      BY <3>1
  <2>3. QED
    BY <2>1, <2>2
<1>6. QED
  BY <1>1, <1>2, <1>3, <1>4, <1>5

\* A longer history: what it says of each task.
LEMMA Longer ==
  ASSUME NEW s \in Seq(BindingRecords), NEW a \in Seq(BindingRecords)
  PROVE  /\ s \o a \in Seq(BindingRecords) /\ Len(s \o a) = Len(s) + Len(a)
         /\ \A i \in 1..Len(s) : i \in 1..Len(s \o a) /\ (s \o a)[i] = s[i]
         /\ \A n \in 1..Len(a) : Len(s) + n \in 1..Len(s \o a) /\ (s \o a)[Len(s) + n] = a[n]
         /\ \A i \in 1..Len(s \o a) : i \in 1..Len(s) \/ \E n \in 1..Len(a) : i = Len(s) + n
         /\ Len(s) \in Nat /\ Len(a) \in Nat
BY Joined

LEMMA LongerUntouched ==
  ASSUME NEW s \in Seq(BindingRecords), NEW a \in Seq(BindingRecords), Distinct(a),
         NEW k, \A n \in 1..Len(a) : a[n].task # k
  PROVE  /\ OfIn(s \o a, k) = OfIn(s, k) /\ LastIn(s \o a, k) = LastIn(s, k)
         /\ WhereIn(s \o a, k) = WhereIn(s, k)
<1>1. OfIn(s \o a, k) = OfIn(s, k)
  <2>1. ASSUME NEW i \in OfIn(s \o a, k)
        PROVE  i \in OfIn(s, k)
    <3>1. i \in 1..Len(s \o a) /\ (s \o a)[i].task = k
      BY DEF OfIn
    <3>2. ASSUME NEW n \in 1..Len(a) PROVE i # Len(s) + n
      <4>1. (s \o a)[Len(s) + n] = a[n]
        BY Longer
      <4>2. QED
        BY <3>1, <4>1
    <3>3. i \in 1..Len(s)
      BY <3>1, <3>2, Longer
    <3>4. QED
      BY <3>1, <3>3, Longer DEF OfIn
  <2>2. ASSUME NEW i \in OfIn(s, k)
        PROVE  i \in OfIn(s \o a, k)
    BY Longer DEF OfIn
  <2>3. QED
    BY <2>1, <2>2
<1>2. LastIn(s \o a, k) = LastIn(s, k)
  BY <1>1 DEF LastIn
<1>3. QED
  <2>1. CASE OfIn(s, k) = {}
    BY <1>1, <1>2, <2>1 DEF WhereIn
  <2>2. CASE OfIn(s, k) # {}
    <3>1. LastIn(s, k) \in 1..Len(s)
      BY <2>2, WhereIsWorktree
    <3>2. (s \o a)[LastIn(s, k)] = s[LastIn(s, k)]
      BY <3>1, Longer
    <3>3. QED
      BY <1>1, <1>2, <2>2, <3>2 DEF WhereIn
  <2>3. QED
    BY <1>1, <1>2, <2>1, <2>2

LEMMA LongerTouched ==
  ASSUME NEW s \in Seq(BindingRecords), NEW a \in Seq(BindingRecords), Distinct(a),
         NEW n \in 1..Len(a)
  PROVE  /\ OfIn(s \o a, a[n].task) = OfIn(s, a[n].task) \cup {Len(s) + n}
         /\ LastIn(s \o a, a[n].task) = Len(s) + n
         /\ WhereIn(s \o a, a[n].task) = a[n].wt
<1> DEFINE k == a[n].task
<1>1. OfIn(s \o a, k) = OfIn(s, k) \cup {Len(s) + n}
  <2>1. ASSUME NEW i \in OfIn(s \o a, k)
        PROVE  i \in OfIn(s, k) \cup {Len(s) + n}
    <3>1. i \in 1..Len(s \o a) /\ (s \o a)[i].task = k
      BY DEF OfIn
    <3>2. CASE i \in 1..Len(s)
      BY <3>1, <3>2, Longer DEF OfIn
    <3>3. ASSUME NEW l \in 1..Len(a), i = Len(s) + l
          PROVE  i = Len(s) + n
      <4>1. a[l].task = a[n].task
        BY <3>1, <3>3, Longer
      <4>2. QED
        BY <3>3, <4>1 DEF Distinct
    <3>4. QED
      BY <3>1, <3>2, <3>3, Longer
  <2>2. ASSUME NEW i \in OfIn(s, k)
        PROVE  i \in OfIn(s \o a, k)
    BY Longer DEF OfIn
  <2>3. Len(s) + n \in OfIn(s \o a, k)
    BY Longer DEF OfIn
  <2>4. QED
    BY <2>1, <2>2, <2>3
<1>2. LastIn(s \o a, k) = Len(s) + n
  <2>1. s \o a \in Seq(BindingRecords) /\ Len(s) + n \in OfIn(s \o a, k)
    BY <1>1, Longer
  <2>2. \A j \in OfIn(s \o a, k) : j <= Len(s) + n
    <3>1. \A j \in OfIn(s, k) : j \in Nat /\ j <= Len(s)
      BY Longer DEF OfIn
    <3>2. Len(s) \in Nat /\ n \in Nat
      BY Longer
    <3>3. QED
      BY <1>1, <3>1, <3>2
  <2>3. QED
    BY <2>1, <2>2, LastIsUnique
<1>3. (s \o a)[Len(s) + n] = a[n]
  BY Longer
<1>4. QED
  BY <1>1, <1>2, <1>3 DEF WhereIn

\* ... and that it is a valid one.
LEMMA LongerValid ==
  ASSUME NEW s \in Seq(BindingRecords), NEW a \in Seq(BindingRecords), Distinct(a),
         HistoryIn(s), \A n \in 1..Len(a) : Fits(s, a[n])
  PROVE  HistoryIn(s \o a)
<1> DEFINE t == s \o a
<1>0. /\ Len(s) \in Nat /\ \A i \in 1..Len(s) : i \in 1..Len(t) /\ t[i] = s[i]
      /\ \A n \in 1..Len(a) : Len(s) + n \in 1..Len(t) /\ t[Len(s) + n] = a[n]
      /\ \A i \in 1..Len(t) : i \in 1..Len(s) \/ \E n \in 1..Len(a) : i = Len(s) + n
  BY Longer
<1> HIDE DEF t
<1>1. ASSUME NEW i \in 1..Len(s)
      PROVE  Linked(t, i)
  <2>1. Before(t, i) = Before(s, i)
    <3>1. ASSUME NEW j \in Before(t, i)
          PROVE  j \in Before(s, i)
      <4>1. j \in 1..Len(t) /\ j < i /\ t[j].task = t[i].task
        BY DEF Before, OfIn
      <4>2. j \in 1..Len(s)
        <5>1. \A n \in 1..Len(a) : ~(Len(s) + n < i)
          BY <1>0
        <5>2. QED
          BY <1>0, <4>1, <5>1
      <4>3. QED
        BY <1>0, <4>1, <4>2 DEF Before, OfIn
    <3>2. ASSUME NEW j \in Before(s, i)
          PROVE  j \in Before(t, i)
      BY <1>0 DEF Before, OfIn
    <3>3. QED
      BY <3>1, <3>2
  <2>2. t[i] = s[i] /\ \A j \in Before(s, i) : t[j] = s[j]
    BY <1>0 DEF Before, OfIn
  <2>3. Linked(s, i)
    BY DEF HistoryIn
  <2>4. CASE Before(s, i) = {}
    BY <2>1, <2>2, <2>3, <2>4 DEF Linked
  <2>5. CASE Before(s, i) # {}
    <3> DEFINE prev == CHOOSE j \in Before(s, i) : \A l \in Before(s, i) : l <= j
    <3>1. Before(s, i) \in SUBSET (1..Len(s))
      BY DEF Before, OfIn
    <3>2. \E j \in Before(s, i) : \A l \in Before(s, i) : l <= j
      BY <1>0, <2>5, <3>1, BoundedMax
    <3>3. prev \in Before(s, i)
      BY <3>2
    <3>4. t[prev] = s[prev]
      BY <2>2, <3>3
    <3>5. prev = CHOOSE j \in Before(t, i) : \A l \in Before(t, i) : l <= j
      BY <2>1
    <3> HIDE DEF prev
    <3>6. /\ s[i].from = s[prev].wt /\ s[i].wt # s[prev].wt /\ s[prev].at < s[i].at
      BY <2>3, <2>5 DEF Linked, prev
    <3>7. QED
      BY <2>1, <2>2, <2>5, <3>4, <3>5, <3>6 DEF Linked
  <2>6. QED
    BY <2>4, <2>5
<1>2. ASSUME NEW n \in 1..Len(a)
      PROVE  Linked(t, Len(s) + n)
  <2> DEFINE k == a[n].task
             i == Len(s) + n
  <2>1. t[i] = a[n] /\ Fits(s, a[n])
    BY <1>0
  <2>2. Before(t, i) = OfIn(s, k)
    <3>1. OfIn(t, k) = OfIn(s, k) \cup {i}
      BY LongerTouched DEF t
    <3>2. \A j \in OfIn(s, k) : j < i
      BY <1>0 DEF OfIn
    <3>3. ~(i < i)
      BY <1>0
    <3>4. QED
      BY <2>1, <3>1, <3>2, <3>3 DEF Before
  <2>3. CASE OfIn(s, k) = {}
    <3>1. a[n].from = None
      BY <2>1, <2>3 DEF Fits, WhereIn
    <3>2. QED
      BY <2>1, <2>2, <2>3, <3>1 DEF Linked
  <2>4. CASE OfIn(s, k) # {}
    <3>1. /\ LastIn(s, k) \in OfIn(s, k) /\ LastIn(s, k) \in 1..Len(s)
          /\ WhereIn(s, k) = s[LastIn(s, k)].wt
      BY <2>4, LastIsLast, WhereIsWorktree
    <3>2. t[LastIn(s, k)] = s[LastIn(s, k)]
      BY <1>0, <3>1
    <3>3. /\ a[n].from = s[LastIn(s, k)].wt /\ a[n].wt # s[LastIn(s, k)].wt
          /\ s[LastIn(s, k)].at < a[n].at
      BY <2>1, <3>1 DEF Fits
    <3>4. LastIn(s, k) = CHOOSE j \in Before(t, i) : \A l \in Before(t, i) : l <= j
      BY <2>2 DEF LastIn
    <3> HIDE DEF k, i
    <3>5. Linked(t, i)
      BY <2>1, <2>2, <2>4, <3>2, <3>3, <3>4 DEF Linked
    <3>6. QED
      BY <3>5 DEF i
  <2>5. QED
    BY <2>3, <2>4
<1>3. QED
  BY <1>0, <1>1, <1>2 DEF HistoryIn, t

-----------------------------------------------------------------------------
\* The invariant: every conjunct of it is needed by another one.
BindingUpdates == [pc : {"idle", "watermarks", "publish", "append", "answer"},
                   obs : Observations \cup {None}, todo : Seq(BindingRecords)]
LinkRecords == [dest : Anchors, source : Anchors \cup {None}]

BindingTypes ==
    /\ store \in {"file", "sql"} /\ records \in Seq(BindingRecords)
    /\ unfinished \in BOOLEAN /\ pending \in BOOLEAN
    /\ marks \in [Tasks -> Nat] /\ life \in [Worktrees -> Nat]
    /\ links \in Seq(LinkRecords) /\ cursors \in [Tasks -> Cursors \cup {None}]
    /\ update \in BindingUpdates /\ acked \subseteq Observations
    /\ newest \in [Tasks -> [at : Nat, wt : Worktrees \cup {None}]]
    /\ cut \subseteq Tasks /\ broken \in BOOLEAN /\ cuts \in Nat

\* No record is newer than its task's watermark.
RecordsTimed == \A i \in 1..Len(records) :
    records[i].at > 0 /\ records[i].at <= marks[records[i].task]

\* What an update under way is about to write still fits the history.
TodoFits ==
    /\ store = "sql" => update = NoUpdate
    /\ Distinct(update.todo)
    /\ \A n \in 1..Len(update.todo) : Fits(records, update.todo[n])
    /\ update.pc \in {"watermarks", "publish"} =>
          update.obs \in Observations /\ update.todo = Additions(update.obs)
    /\ update.pc = "append" => update.todo # <<>>
    /\ update.pc = "append" => \A n \in 1..Len(update.todo) :
          /\ update.todo[n].at = marks[update.todo[n].task] /\ update.todo[n].at > 0
          /\ update.todo[n].wt = newest[update.todo[n].task].wt
    /\ update.pc \in {"append", "answer"} =>
          /\ update.obs \in Observations
          /\ \A i \in 1..Len(update.obs.list) : marks[update.obs.list[i].task] >= update.obs.at

Expected(k) == update.pc = "append" /\ \E n \in 1..Len(update.todo) : update.todo[n].task = k
NewestKept == \A k \in Tasks : Where(k) = newest[k].wt \/ k \in cut \/ Expected(k)

AckedApplied == \A o \in acked : \A i \in 1..Len(o.list) : marks[o.list[i].task] >= o.at

\* An unfinished file is being written, or its writer was cut off; then it
\* stays, and no operation begins.
FilesFinished ==
    /\ pending <=> update.pc = "publish" \/ (broken /\ ~unfinished)
    /\ unfinished => update.pc = "append" \/ broken
    /\ broken => update = NoUpdate /\ store = "file" /\ cuts > 0

SqlKept == store = "sql" => LinksValid /\ \A k \in Tasks : CursorValid(k)

BindingsInv ==
    /\ BindingTypes /\ HistoryIn(records) /\ RecordsTimed /\ TodoFits
    /\ NewestKept /\ AckedApplied /\ FilesFinished /\ SqlKept

LEMMA HistoryIsValid == HistoryValid <=> HistoryIn(records)
BY DEF HistoryValid, HistoryIn, Linked, Before, OfIn, Of

LEMMA WhereIsLast == \A k : Of(k) = OfIn(records, k) /\ Where(k) = WhereIn(records, k)
                            /\ LastOf(k) = LastIn(records, k)
BY DEF Where, WhereIn, Of, OfIn, LastOf, LastIn

LEMMA WhereIsNext == \A k : Of(k)' = OfIn(records', k) /\ Where(k)' = WhereIn(records', k)
                            /\ LastOf(k)' = LastIn(records', k)
BY DEF Where, WhereIn, Of, OfIn, LastOf, LastIn

LEMMA AnObservation ==
  ASSUME NEW o \in Observations
  PROVE  /\ o.at \in Nat /\ o.at > 0 /\ Len(o.list) \in Nat
         /\ \A i \in 1..Len(o.list) :
               /\ o.list[i].task \in Tasks /\ o.list[i].wt \in Worktrees
               /\ Target(o, o.list[i].task) = o.list[i].wt
<1>1. /\ o.at \in Nat /\ o.at > 0 /\ o.list \in Seq([task : Tasks, wt : Worktrees])
      /\ \A i, j \in 1..Len(o.list) : o.list[i].task = o.list[j].task => i = j
  <2>1. /\ o.at \in Nat \ {0} /\ o.list \in Seq([task : Tasks, wt : Worktrees])
        /\ \A i, j \in 1..Len(o.list) : o.list[i].task = o.list[j].task => i = j
    BY BindingAssumption
  <2>2. o.at \in Nat /\ o.at > 0
    BY <2>1
  <2>3. QED
    BY <2>1, <2>2
<1>2. Len(o.list) \in Nat
  BY <1>1, LenProperties
<1>3. ASSUME NEW i \in 1..Len(o.list)
      PROVE  /\ o.list[i].task \in Tasks /\ o.list[i].wt \in Worktrees
             /\ Target(o, o.list[i].task) = o.list[i].wt
  <2>1. o.list[i] \in [task : Tasks, wt : Worktrees]
    BY <1>1, ElementOfSeq
  <2>2. (CHOOSE j \in 1..Len(o.list) : o.list[j].task = o.list[i].task) = i
    BY <1>1
  <2>3. QED
    BY <2>1, <2>2 DEF Target
<1>4. QED
  BY <1>1, <1>2, <1>3

\* What an observation adds fits the history, and adds what it should.
LEMMA AdditionsFit ==
  ASSUME NEW o \in Observations, BindingTypes, RecordsTimed
  PROVE  /\ Additions(o) \in Seq(BindingRecords) /\ Distinct(Additions(o))
         /\ \A n \in 1..Len(Additions(o)) :
               /\ Fits(records, Additions(o)[n]) /\ Additions(o)[n].at = o.at
               /\ Additions(o)[n].task \in Touched(o)
               /\ Additions(o)[n].wt = Target(o, Additions(o)[n].task)
         /\ \A k \in Touched(o) :
               /\ k \in Tasks /\ marks[k] < o.at /\ Target(o, k) \in Worktrees
               /\ \/ \E n \in 1..Len(Additions(o)) : Additions(o)[n].task = k
                  \/ Where(k) = Target(o, k)
         /\ \A i \in 1..Len(o.list) : o.list[i].task \in Touched(o) \/ marks[o.list[i].task] >= o.at
<1> DEFINE A == Additions(o)
           M == Moved(o)
<1>1. /\ o.at \in Nat /\ o.at > 0 /\ Len(o.list) \in Nat
      /\ \A i \in 1..Len(o.list) :
            /\ o.list[i].task \in Tasks /\ o.list[i].wt \in Worktrees
            /\ Target(o, o.list[i].task) = o.list[i].wt
  BY AnObservation
<1>2. M \in SUBSET (1..Len(o.list)) /\ \A i \in M : i \in Fresh(o)
  BY DEF Moved, Fresh
<1>3. ASSUME NEW k
      PROVE  Where(k) \in Worktrees \cup {None}
  BY WhereIsLast, WhereIsWorktree DEF BindingTypes
<1>4. ASSUME NEW i \in M
      PROVE  /\ RecordOf(o, i) \in BindingRecords /\ RecordOf(o, i).task = o.list[i].task
             /\ RecordOf(o, i).wt = o.list[i].wt /\ RecordOf(o, i).at = o.at
             /\ RecordOf(o, i).from = Where(o.list[i].task)
  BY <1>1, <1>2, <1>3 DEF RecordOf, BindingRecords
<1>5. Cardinality(M) \in Nat /\ \A n \in 1..Cardinality(M) : Nth(M, n) \in M
  BY <1>1, <1>2, IndexSet, NthCounts
<1>6. A = [n \in 1..Cardinality(M) |-> RecordOf(o, Nth(M, n))]
  BY DEF Additions, RecordsOf
<1> HIDE DEF A, M
<1>7. A \in Seq(BindingRecords) /\ Len(A) = Cardinality(M)
      /\ \A n \in 1..Len(A) : A[n] = RecordOf(o, Nth(M, n))
  <2>1. A \in [1..Cardinality(M) -> BindingRecords]
    BY <1>4, <1>5, <1>6
  <2>2. A \in Seq(BindingRecords)
    BY <1>5, <2>1, IsASeq
  <2>3. DOMAIN A = 1..Cardinality(M) /\ DOMAIN A = 1..Len(A) /\ Len(A) \in Nat
    BY <2>1, <2>2, LenProperties
  <2>4. Len(A) = Cardinality(M)
    BY <1>5, <2>3
  <2>5. QED
    BY <1>6, <2>2, <2>4
<1>8. Distinct(A)
  <2>1. SUFFICES ASSUME NEW i \in 1..Len(A), NEW j \in 1..Len(A), A[i].task = A[j].task
                 PROVE  i = j
    BY DEF Distinct
  <2>2. o.list[Nth(M, i)].task = o.list[Nth(M, j)].task
    BY <1>4, <1>5, <1>7, <2>1
  <2>3. Nth(M, i) = Nth(M, j)
    BY <1>2, <1>5, <1>7, <2>2, BindingAssumption
  <2>4. Cardinality(UpTo(M, Nth(M, i))) = i /\ Cardinality(UpTo(M, Nth(M, j))) = j
    BY <1>1, <1>2, <1>7, NthCounts
  <2>5. QED
    BY <2>3, <2>4
<1>9. ASSUME NEW n \in 1..Len(A)
      PROVE  /\ Fits(records, A[n]) /\ A[n].at = o.at
             /\ A[n].task \in Touched(o) /\ A[n].wt = Target(o, A[n].task)
  <2> DEFINE i == Nth(M, n)
  <2>1. /\ i \in M /\ i \in 1..Len(o.list) /\ i \in Fresh(o) /\ A[n] = RecordOf(o, i)
    BY <1>2, <1>5, <1>7
  <2> HIDE DEF i
  <2>2. /\ A[n].task = o.list[i].task /\ A[n].wt = o.list[i].wt /\ A[n].at = o.at
        /\ A[n].from = Where(o.list[i].task)
    BY <1>4, <2>1
  <2>3. A[n].task \in Touched(o)
    BY <2>1, <2>2 DEF Touched
  <2>4. A[n].from # A[n].wt
    BY <2>1, <2>2 DEF Moved, M
  <2>5. ASSUME NEW l \in OfIn(records, A[n].task)
        PROVE  records[l].at < A[n].at
    <3>1. l \in 1..Len(records) /\ records[l].task = A[n].task
      BY DEF OfIn
    <3>2. records[l].at <= marks[A[n].task]
      BY <3>1 DEF RecordsTimed
    <3>3. marks[A[n].task] < o.at
      BY <2>1, <2>2 DEF Fresh
    <3>4. records[l].at \in Nat /\ marks[A[n].task] \in Nat
      <4>1. records[l] \in BindingRecords
        BY <3>1, ElementOfSeq DEF BindingTypes
      <4>2. A[n].task \in Tasks
        BY <1>1, <2>1, <2>2
      <4>3. QED
        BY <4>1, <4>2 DEF BindingTypes, BindingRecords
    <3>5. QED
      BY <1>1, <2>2, <3>2, <3>3, <3>4
  <2>6. A[n].from = WhereIn(records, A[n].task)
    BY <2>2, WhereIsLast
  <2>7. QED
    BY <1>1, <2>1, <2>2, <2>3, <2>4, <2>5, <2>6 DEF Fits
<1>10. ASSUME NEW k \in Touched(o)
       PROVE  /\ k \in Tasks /\ marks[k] < o.at /\ Target(o, k) \in Worktrees
              /\ (\E n \in 1..Len(A) : A[n].task = k) \/ Where(k) = Target(o, k)
  <2>1. PICK i \in Fresh(o) : k = o.list[i].task
    BY DEF Touched
  <2>2. i \in 1..Len(o.list) /\ marks[k] < o.at
    BY <2>1 DEF Fresh
  <2>3. k \in Tasks /\ Target(o, k) = o.list[i].wt /\ o.list[i].wt \in Worktrees
    BY <1>1, <2>1, <2>2
  <2>4. CASE i \in M
    <3>1. PICK n \in 1..Cardinality(M) : Nth(M, n) = i
      BY <1>1, <1>2, <2>4, NthCovers
    <3>2. n \in 1..Len(A) /\ A[n].task = k
      BY <1>4, <1>7, <2>1, <2>4, <3>1
    <3>3. QED
      BY <2>2, <2>3, <3>2
  <2>5. CASE i \notin M
    BY <2>1, <2>2, <2>3, <2>5 DEF Moved, M
  <2>6. QED
    BY <2>4, <2>5
<1>11. ASSUME NEW i \in 1..Len(o.list)
       PROVE  o.list[i].task \in Touched(o) \/ marks[o.list[i].task] >= o.at
  <2>1. marks[o.list[i].task] \in Nat
    BY <1>1 DEF BindingTypes
  <2>2. QED
    BY <1>1, <2>1 DEF Touched, Fresh
<1>12. QED
  BY <1>7, <1>8, <1>9, <1>10, <1>11 DEF A

-----------------------------------------------------------------------------
\* The file store.

LEMMA BindingsStart == BindingsInit => BindingsInv
<1> SUFFICES ASSUME BindingsInit PROVE BindingsInv
  OBVIOUS
<1> USE DEF BindingsInit, NoUpdate
<1>1. records = <<>> /\ Len(records) = 0 /\ Len(update.todo) = 0 /\ links = <<>> /\ update.todo = <<>>
  BY EmptySeq
<1>2. BindingTypes
  <2>1. records \in Seq(BindingRecords) /\ links \in Seq(LinkRecords) /\ <<>> \in Seq(BindingRecords)
    BY EmptySeq
  <2>2. store \in {"file", "sql"}
    BY BindingAssumption
  <2>3. update \in BindingUpdates
    BY <2>1 DEF BindingUpdates
  <2>4. QED
    BY <2>1, <2>2, <2>3 DEF BindingTypes
<1>3. HistoryIn(records) /\ RecordsTimed
  BY <1>1 DEF HistoryIn, RecordsTimed
<1>4. TodoFits
  BY <1>1 DEF TodoFits, Distinct
<1>5. \A k : Of(k) = {}
  BY <1>1 DEF Of
<1>6. NewestKept
  BY <1>5 DEF NewestKept, Where
<1>7. AckedApplied /\ FilesFinished
  BY DEF AckedApplied, FilesFinished
<1>8. SqlKept
  BY <1>1, <1>5 DEF SqlKept, LinksValid, CursorValid
<1>9. QED
  BY <1>2, <1>3, <1>4, <1>6, <1>7, <1>8 DEF BindingsInv

\* The history, the metadata and the watermarks are not changed.
LEMMA SameHistory ==
  ASSUME BindingTypes, HistoryIn(records), RecordsTimed, SqlKept, AckedApplied,
         UNCHANGED <<records, marks, links, cursors, registry, store, acked>>
  PROVE  HistoryIn(records)' /\ RecordsTimed' /\ SqlKept' /\ AckedApplied'
<1>1. RecordsTimed' /\ AckedApplied'
  BY DEF RecordsTimed, AckedApplied
<1>2. HistoryIn(records)'
  OBVIOUS
<1>3. LinksValid => LinksValid'
  BY DEF LinksValid
<1>4. ASSUME NEW k \in Tasks, CursorValid(k)
      PROVE  CursorValid(k)'
  <2>1. Of(k)' = Of(k)
    BY DEF Of
  <2>2. LastOf(k)' = LastOf(k)
    BY <2>1 DEF LastOf
  <2>3. QED
    BY <1>4, <2>1, <2>2 DEF CursorValid
<1>5. SqlKept'
  BY <1>3, <1>4 DEF SqlKept
<1>6. QED
  BY <1>1, <1>2, <1>5

LEMMA SameWhere ==
  ASSUME records' = records
  PROVE  \A k : Where(k)' = Where(k)
<1>1. ASSUME NEW k PROVE Where(k)' = Where(k)
  <2>1. Of(k)' = Of(k)
    BY DEF Of
  <2>2. LastOf(k)' = LastOf(k)
    BY <2>1 DEF LastOf
  <2>3. QED
    BY <2>1, <2>2 DEF Where
<1>2. QED
  BY <1>1

LEMMA SameAdditions ==
  ASSUME NEW o, records' = records, marks' = marks
  PROVE  Additions(o)' = Additions(o)
<1>1. \A k : Where(k)' = Where(k)
  BY SameWhere
<1>2. Fresh(o)' = Fresh(o)
  BY DEF Fresh
<1>3. Moved(o)' = Moved(o)
  BY <1>1, <1>2 DEF Moved
<1>4. ASSUME NEW i PROVE RecordOf(o, i)' = RecordOf(o, i)
  BY <1>1 DEF RecordOf
<1>5. QED
  BY <1>3, <1>4 DEF Additions, RecordsOf

LEMMA ObserveFileKeeps ==
  ASSUME NEW o \in Observations, BindingsInv, ObserveFile(o)
  PROVE  BindingsInv'
<1> USE DEF ObserveFile, fileVars, sqlVars, history
<1>1. /\ BindingTypes /\ HistoryIn(records) /\ RecordsTimed /\ TodoFits
      /\ NewestKept /\ AckedApplied /\ FilesFinished /\ SqlKept
  BY DEF BindingsInv
<1>2. HistoryIn(records)' /\ RecordsTimed' /\ SqlKept' /\ AckedApplied'
  BY <1>1, SameHistory
<1>3. /\ update'.pc = IF Touched(o) = {} THEN "answer" ELSE "watermarks"
      /\ update'.obs = o /\ update'.todo = Additions(o) /\ update.pc = "idle"
  BY DEF NoUpdate
<1>4. /\ Additions(o) \in Seq(BindingRecords) /\ Distinct(Additions(o))
      /\ \A n \in 1..Len(Additions(o)) : Fits(records, Additions(o)[n])
      /\ Touched(o) = {} => \A i \in 1..Len(o.list) : marks[o.list[i].task] >= o.at
  BY <1>1, AdditionsFit
<1>5. BindingTypes'
  <2>1. update' \in BindingUpdates
    BY <1>4 DEF BindingUpdates
  <2>2. QED
    BY <1>1, <2>1 DEF BindingTypes
<1>6. Additions(o)' = Additions(o)
  BY SameAdditions
<1>7. TodoFits'
  BY <1>3, <1>4, <1>6 DEF TodoFits
<1>8. NewestKept'
  BY <1>1, <1>3, SameWhere DEF NewestKept, Expected
<1>9. FilesFinished'
  <2>1. ~pending /\ ~unfinished /\ ~broken
    BY <1>1, <1>3 DEF FilesFinished, FilesReadable, WatermarksReadable
  <2>2. /\ update'.pc # "publish"
        /\ pending' = pending /\ unfinished' = unfinished /\ broken' = broken
    BY <1>3
  <2>3. QED
    BY <2>1, <2>2 DEF FilesFinished
<1>10. QED
  BY <1>2, <1>5, <1>7, <1>8, <1>9 DEF BindingsInv

LEMMA WritePendingKeeps ==
  ASSUME BindingsInv, WritePending
  PROVE  BindingsInv'
<1> USE DEF WritePending, fileVars, sqlVars, history
<1>1. /\ BindingTypes /\ HistoryIn(records) /\ RecordsTimed /\ TodoFits
      /\ NewestKept /\ AckedApplied /\ FilesFinished /\ SqlKept
  BY DEF BindingsInv
<1>2. HistoryIn(records)' /\ RecordsTimed' /\ SqlKept' /\ AckedApplied'
  BY <1>1, SameHistory
<1>3. /\ update'.pc = "publish" /\ update'.obs = update.obs /\ update'.todo = update.todo
      /\ update' \in BindingUpdates
  BY <1>1 DEF BindingTypes, BindingUpdates
<1>4. BindingTypes'
  BY <1>1, <1>3 DEF BindingTypes
<1>5. Additions(update.obs)' = Additions(update.obs)
  <2>1. PICK o : o = update.obs
    OBVIOUS
  <2>2. Additions(o)' = Additions(o)
    BY SameAdditions
  <2>3. Additions(update.obs) = Additions(o) /\ Additions(update.obs)' = Additions(o)'
    BY <1>3, <2>1
  <2>4. QED
    BY <2>2, <2>3
<1>6. store # "sql"
  BY <1>1 DEF TodoFits, NoUpdate
<1>7. TodoFits'
  BY <1>1, <1>3, <1>5, <1>6 DEF TodoFits
<1>8. NewestKept'
  BY <1>1, <1>3, SameWhere DEF NewestKept, Expected
<1>9. FilesFinished'
  <2>1. ~broken /\ ~unfinished
    BY <1>1 DEF FilesFinished, NoUpdate
  <2>2. /\ update'.pc = "publish" /\ pending' = TRUE
        /\ unfinished' = unfinished /\ broken' = broken
    BY <1>3
  <2>3. QED
    BY <2>1, <2>2 DEF FilesFinished
<1>10. QED
  BY <1>2, <1>4, <1>7, <1>8, <1>9 DEF BindingsInv

\* The new watermarks, and what they say of older ones.
LEMMA MarksRise ==
  ASSUME NEW o \in Observations, BindingTypes, RecordsTimed
  PROVE  /\ MarksAfter(o) \in [Tasks -> Nat]
         /\ \A k \in Tasks : MarksAfter(o)[k] >= marks[k]
         /\ \A k \in Tasks : MarksAfter(o)[k] = IF k \in Touched(o) THEN o.at ELSE marks[k]
         /\ \A i \in 1..Len(o.list) : MarksAfter(o)[o.list[i].task] >= o.at
         /\ NewestAfter(o) \in [Tasks -> [at : Nat, wt : Worktrees \cup {None}]]
         /\ \A k \in Tasks : NewestAfter(o)[k].wt = IF k \in Touched(o) THEN Target(o, k) ELSE newest[k].wt
<1>1. /\ \A k \in Touched(o) : k \in Tasks /\ marks[k] < o.at /\ Target(o, k) \in Worktrees
      /\ \A i \in 1..Len(o.list) : o.list[i].task \in Touched(o) \/ marks[o.list[i].task] >= o.at
  BY AdditionsFit
<1>2. o.at \in Nat /\ \A i \in 1..Len(o.list) : o.list[i].task \in Tasks
  BY AnObservation
<1>3. \A k \in Tasks : marks[k] \in Nat
  BY DEF BindingTypes
<1>4. \A k \in Tasks : MarksAfter(o)[k] = IF k \in Touched(o) THEN o.at ELSE marks[k]
  BY DEF MarksAfter
<1>5. MarksAfter(o) \in [Tasks -> Nat]
  BY <1>2, <1>3 DEF MarksAfter
<1>6. \A k \in Tasks : MarksAfter(o)[k] >= marks[k]
  BY <1>1, <1>2, <1>3, <1>4
<1>7. \A i \in 1..Len(o.list) : MarksAfter(o)[o.list[i].task] >= o.at
  BY <1>1, <1>2, <1>3, <1>4
<1>8. ASSUME NEW k \in Tasks
      PROVE  /\ NewestAfter(o)[k].wt = IF k \in Touched(o) THEN Target(o, k) ELSE newest[k].wt
             /\ NewestAfter(o)[k] \in [at : Nat, wt : Worktrees \cup {None}]
  BY <1>1, <1>2 DEF NewestAfter, BindingTypes
<1>9. NewestAfter(o) \in [Tasks -> [at : Nat, wt : Worktrees \cup {None}]]
  BY <1>8 DEF NewestAfter
<1>10. QED
  BY <1>4, <1>5, <1>6, <1>7, <1>8, <1>9

\* The recorded times and the answered observations stay below higher watermarks.
LEMMA MarksMayRise ==
  ASSUME BindingTypes, RecordsTimed, AckedApplied, marks' \in [Tasks -> Nat],
         \A k \in Tasks : marks'[k] >= marks[k], records' = records, acked' = acked
  PROVE  RecordsTimed' /\ AckedApplied'
<1>1. ASSUME NEW i \in 1..Len(records)
      PROVE  records[i].at > 0 /\ records[i].at <= marks'[records[i].task]
  <2>1. records[i] \in BindingRecords
    BY ElementOfSeq DEF BindingTypes
  <2>2. records[i].at \in Nat /\ records[i].task \in Tasks
    BY <2>1 DEF BindingRecords
  <2>3. marks[records[i].task] \in Nat /\ marks'[records[i].task] \in Nat
    BY <2>2 DEF BindingTypes
  <2>4. records[i].at > 0 /\ records[i].at <= marks[records[i].task]
    BY DEF RecordsTimed
  <2>5. QED
    BY <2>2, <2>3, <2>4
<1>2. ASSUME NEW o \in acked, NEW i \in 1..Len(o.list)
      PROVE  marks'[o.list[i].task] >= o.at
  <2>1. o \in Observations
    BY DEF BindingTypes
  <2>2. o.at \in Nat /\ o.list[i].task \in Tasks
    BY <2>1, AnObservation
  <2>3. marks[o.list[i].task] >= o.at
    BY DEF AckedApplied
  <2>4. marks[o.list[i].task] \in Nat /\ marks'[o.list[i].task] \in Nat
    BY <2>2 DEF BindingTypes
  <2>5. QED
    BY <2>2, <2>3, <2>4
<1>3. QED
  BY <1>1, <1>2 DEF RecordsTimed, AckedApplied

LEMMA PublishWatermarksKeeps ==
  ASSUME BindingsInv, PublishWatermarks
  PROVE  BindingsInv'
<1> DEFINE o == update.obs
<1> USE DEF PublishWatermarks, fileVars, sqlVars, history
<1>1. /\ BindingTypes /\ HistoryIn(records) /\ RecordsTimed /\ TodoFits
      /\ NewestKept /\ AckedApplied /\ FilesFinished /\ SqlKept
  BY DEF BindingsInv
<1>2. o \in Observations /\ update.todo = Additions(o) /\ store # "sql"
  BY <1>1 DEF TodoFits, NoUpdate
<1>3. /\ update'.pc = IF update.todo = <<>> THEN "answer" ELSE "append"
      /\ update'.obs = o /\ update'.todo = update.todo /\ update' \in BindingUpdates
  BY <1>1 DEF BindingTypes, BindingUpdates
<1>4. /\ marks' = MarksAfter(o) /\ newest' = NewestAfter(o) /\ cut' = cut \ Touched(o)
      /\ records' = records /\ acked' = acked /\ store' = store /\ pending' = FALSE
      /\ cuts' = cuts /\ unfinished' = unfinished /\ broken' = broken
  OBVIOUS
<1> HIDE DEF o, PublishWatermarks
<1>5. /\ marks' \in [Tasks -> Nat] /\ \A k \in Tasks : marks'[k] >= marks[k]
      /\ \A k \in Tasks : marks'[k] = IF k \in Touched(o) THEN o.at ELSE marks[k]
      /\ \A i \in 1..Len(o.list) : marks'[o.list[i].task] >= o.at
      /\ newest' \in [Tasks -> [at : Nat, wt : Worktrees \cup {None}]]
      /\ \A k \in Tasks : newest'[k].wt = IF k \in Touched(o) THEN Target(o, k) ELSE newest[k].wt
  BY <1>1, <1>2, <1>4, MarksRise
<1>6. /\ Distinct(Additions(o))
      /\ \A n \in 1..Len(Additions(o)) :
            /\ Fits(records, Additions(o)[n]) /\ Additions(o)[n].at = o.at
            /\ Additions(o)[n].task \in Touched(o)
            /\ Additions(o)[n].wt = Target(o, Additions(o)[n].task)
      /\ \A k \in Touched(o) :
            /\ k \in Tasks
            /\ \/ \E n \in 1..Len(Additions(o)) : Additions(o)[n].task = k
               \/ Where(k) = Target(o, k)
  BY <1>1, <1>2, AdditionsFit
<1>7. BindingTypes'
  BY <1>1, <1>3, <1>4, <1>5 DEF BindingTypes, PublishWatermarks
<1>8. RecordsTimed' /\ AckedApplied' /\ HistoryIn(records)'
  BY <1>1, <1>4, <1>5, MarksMayRise
<1>9. TodoFits'
  <2>1. o.at > 0
    BY <1>2, AnObservation
  <2>2. ASSUME NEW n \in 1..Len(update.todo)
        PROVE  /\ update.todo[n].at = marks'[update.todo[n].task] /\ update.todo[n].at > 0
               /\ update.todo[n].wt = newest'[update.todo[n].task].wt
    BY <1>2, <1>5, <1>6, <2>1
  <2>3. QED
    BY <1>2, <1>3, <1>4, <1>5, <1>6, <2>2 DEF TodoFits
<1>10. NewestKept'
  <2>1. ASSUME NEW k \in Tasks
        PROVE  (Where(k) = newest[k].wt \/ k \in cut \/ Expected(k))'
    <3>1. Where(k)' = Where(k)
      BY <1>4 DEF Where, Of, LastOf
    <3>2. CASE k \in Touched(o)
      <4>1. CASE \E n \in 1..Len(Additions(o)) : Additions(o)[n].task = k
        <5>1. update.todo # <<>>
          BY <1>2, <4>1, EmptySeq
        <5>2. QED
          BY <1>2, <1>3, <4>1, <5>1 DEF Expected
      <4>2. CASE Where(k) = Target(o, k)
        BY <1>5, <3>1, <3>2, <4>2
      <4>3. QED
        BY <1>6, <3>2, <4>1, <4>2
    <3>3. CASE k \notin Touched(o)
      <4>1. update.pc = "publish"
        BY DEF PublishWatermarks
      <4>2. Where(k) = newest[k].wt \/ k \in cut
        BY <1>1, <4>1 DEF NewestKept, Expected
      <4>3. QED
        BY <1>4, <1>5, <3>1, <3>3, <4>2
    <3>4. QED
      BY <3>2, <3>3
  <2>2. QED
    BY <2>1 DEF NewestKept
<1>11. FilesFinished' /\ SqlKept'
  <2>1. update.pc = "publish"
    BY DEF PublishWatermarks
  <2>2. ~broken /\ ~unfinished
    BY <1>1, <2>1 DEF FilesFinished, NoUpdate
  <2>3. update'.pc # "publish"
    BY <1>3
  <2>4. FilesFinished'
    BY <1>4, <2>2, <2>3 DEF FilesFinished
  <2>5. SqlKept'
    BY <1>2, <1>4 DEF SqlKept
  <2>6. QED
    BY <2>4, <2>5
<1>12. QED
  BY <1>7, <1>8, <1>9, <1>10, <1>11 DEF BindingsInv

\* A record of another task takes nothing from what fits.
LEMMA FitsLonger ==
  ASSUME NEW s \in Seq(BindingRecords), NEW a \in Seq(BindingRecords), Distinct(a),
         NEW r, Fits(s, r), \A n \in 1..Len(a) : a[n].task # r.task
  PROVE  Fits(s \o a, r)
<1>1. OfIn(s \o a, r.task) = OfIn(s, r.task) /\ WhereIn(s \o a, r.task) = WhereIn(s, r.task)
  BY LongerUntouched
<1>2. \A i \in OfIn(s, r.task) : (s \o a)[i] = s[i]
  BY Longer DEF OfIn
<1>3. QED
  BY <1>1, <1>2 DEF Fits

LEMMA RecordWritten ==
  ASSUME BindingsInv, update.pc = "append", unfinished,
         records' = Append(records, Head(update.todo)), unfinished' = FALSE,
         update' = [update EXCEPT !.todo = Tail(@),
                                  !.pc = IF Len(update.todo) = 1 THEN "answer" ELSE "append"],
         UNCHANGED <<store, marks, pending, sqlVars, life, acked, history, cuts>>
  PROVE  BindingsInv'
<1> DEFINE r == Head(update.todo)
           todo == update.todo
<1> USE DEF sqlVars, history
<1>1. /\ BindingTypes /\ HistoryIn(records) /\ RecordsTimed /\ TodoFits
      /\ NewestKept /\ AckedApplied /\ FilesFinished /\ SqlKept
  BY DEF BindingsInv
<1>2. /\ Distinct(todo) /\ \A n \in 1..Len(todo) : Fits(records, todo[n])
      /\ todo # <<>> /\ store # "sql"
      /\ \A n \in 1..Len(todo) :
            /\ todo[n].at = marks[todo[n].task] /\ todo[n].at > 0
            /\ todo[n].wt = newest[todo[n].task].wt
      /\ update.obs \in Observations
      /\ \A i \in 1..Len(update.obs.list) : marks[update.obs.list[i].task] >= update.obs.at
  BY <1>1 DEF TodoFits, NoUpdate
<1>3. /\ todo \in Seq(BindingRecords) /\ Len(todo) \in Nat /\ Len(todo) >= 1
      /\ r = todo[1] /\ r \in BindingRecords /\ 1 \in 1..Len(todo)
      /\ Tail(todo) \in Seq(BindingRecords) /\ Len(Tail(todo)) = Len(todo) - 1
      /\ \A n \in 1..Len(Tail(todo)) : n + 1 \in 1..Len(todo) /\ Tail(todo)[n] = todo[n + 1]
  <2>1. todo \in Seq(BindingRecords)
    BY <1>1 DEF BindingTypes, BindingUpdates
  <2>2. Len(todo) \in Nat /\ Len(todo) # 0
    BY <1>2, <2>1, LenProperties, EmptySeq
  <2>3. /\ r = todo[1] /\ r \in BindingRecords
        /\ Tail(todo) \in Seq(BindingRecords) /\ Len(Tail(todo)) = Len(todo) - 1
        /\ \A n \in 1..Len(Tail(todo)) : Tail(todo)[n] = todo[n + 1]
    BY <1>2, <2>1, HeadTailProperties
  <2>4. QED
    BY <2>1, <2>2, <2>3
<1>4. /\ update'.pc = IF Len(todo) = 1 THEN "answer" ELSE "append"
      /\ update'.obs = update.obs /\ update'.todo = Tail(todo) /\ update' \in BindingUpdates
  BY <1>1, <1>3 DEF BindingTypes, BindingUpdates
<1> DEFINE a == <<r>>
<1>5. /\ a \in Seq(BindingRecords) /\ Len(a) = 1 /\ a[1] = r /\ Distinct(a)
      /\ records' = records \o a /\ records \in Seq(BindingRecords)
  <2>1. records \in Seq(BindingRecords)
    BY <1>1 DEF BindingTypes
  <2>2. Append(records, r) = records \o <<r>>
    BY <1>3, <2>1, AppendIsConcat
  <2>3. a \in Seq(BindingRecords) /\ Len(a) = 1 /\ a[1] = r
    BY <1>3
  <2>4. QED
    BY <2>1, <2>2, <2>3 DEF Distinct
<1> HIDE DEF a, r, todo
<1>6. /\ records' \in Seq(BindingRecords) /\ Len(records') = Len(records) + 1
      /\ \A i \in 1..Len(records) : records'[i] = records[i]
      /\ records'[Len(records) + 1] = r /\ Len(records) \in Nat
  BY <1>5, Longer
<1>7. HistoryIn(records)'
  <2>1. \A n \in 1..Len(a) : Fits(records, a[n])
    BY <1>2, <1>3, <1>5
  <2>2. HistoryIn(records')
    BY <1>1, <1>5, <2>1, LongerValid
  <2>3. QED
    BY <2>2
<1>8. BindingTypes'
  BY <1>1, <1>4, <1>6 DEF BindingTypes
<1>9. RecordsTimed'
  <2>1. ASSUME NEW i \in 1..Len(records')
        PROVE  records'[i].at > 0 /\ records'[i].at <= marks[records'[i].task]
    <3>1. CASE i \in 1..Len(records)
      BY <1>1, <1>6, <3>1 DEF RecordsTimed
    <3>2. CASE i = Len(records) + 1
      <4>1. r.at \in Nat /\ r.at > 0 /\ r.at = marks[r.task]
        BY <1>2, <1>3 DEF BindingRecords
      <4>2. QED
        BY <1>6, <3>2, <4>1
    <3>3. QED
      BY <1>6, <3>1, <3>2
  <2>2. QED
    BY <2>1 DEF RecordsTimed
<1>10. ASSUME NEW n \in 1..Len(todo), n # 1
       PROVE  todo[n].task # r.task
  <2>1. todo[n].task = todo[1].task => n = 1
    BY <1>2, <1>3 DEF Distinct
  <2>2. QED
    BY <1>3, <1>10, <2>1
<1>11. TodoFits'
  <2>1. ASSUME NEW n \in 1..Len(Tail(todo))
        PROVE  /\ Fits(records', Tail(todo)[n])
               /\ Tail(todo)[n].at = marks[Tail(todo)[n].task] /\ Tail(todo)[n].at > 0
               /\ Tail(todo)[n].wt = newest[Tail(todo)[n].task].wt
    <3>1. n + 1 \in 1..Len(todo) /\ Tail(todo)[n] = todo[n + 1] /\ n + 1 # 1
      BY <1>3
    <3>2. Fits(records, todo[n + 1]) /\ todo[n + 1].task # r.task
      BY <1>2, <1>10, <3>1
    <3>3. \A l \in 1..Len(a) : a[l].task # todo[n + 1].task
      BY <1>5, <3>2
    <3>4. Fits(records \o a, todo[n + 1])
      BY <1>5, <3>2, <3>3, FitsLonger
    <3>5. QED
      BY <1>2, <1>5, <3>1, <3>4
  <2>2. Distinct(Tail(todo))
    <3>1. SUFFICES ASSUME NEW i \in 1..Len(Tail(todo)), NEW j \in 1..Len(Tail(todo)),
                          Tail(todo)[i].task = Tail(todo)[j].task
                   PROVE  i = j
      BY DEF Distinct
    <3>2. i + 1 = j + 1
      BY <1>2, <1>3, <3>1 DEF Distinct
    <3>3. QED
      BY <3>2
  <2>3. update'.pc = "append" => Tail(todo) # <<>>
    <3>1. ASSUME update'.pc = "append", Tail(todo) = <<>> PROVE FALSE
      <4>1. Len(Tail(todo)) = 0
        BY <3>1, EmptySeq
      <4>2. QED
        BY <1>3, <1>4, <3>1, <4>1
    <3>2. QED
      BY <3>1
  <2>4. /\ store' # "sql" /\ marks' = marks /\ newest' = newest /\ update'.todo = Tail(todo)
        /\ update'.obs = update.obs /\ update'.pc \in {"append", "answer"}
    BY <1>2, <1>4
  <2>5. Len(update'.todo) = Len(Tail(todo))
    BY <2>4
  <2>6. QED
    BY <1>2, <2>1, <2>2, <2>3, <2>4, <2>5 DEF TodoFits
<1>12. NewestKept'
  <2>1. ASSUME NEW k \in Tasks
        PROVE  (Where(k) = newest[k].wt \/ k \in cut \/ Expected(k))'
    <3>1. Where(k) = WhereIn(records, k) /\ Where(k)' = WhereIn(records \o a, k)
      BY <1>5, WhereIsLast, WhereIsNext
    <3>2. CASE k = r.task
      <4>1. WhereIn(records \o a, a[1].task) = a[1].wt
        BY <1>5, LongerTouched
      <4>2. r.wt = newest[r.task].wt
        BY <1>2, <1>3
      <4>3. Where(k)' = newest'[k].wt
        BY <1>5, <3>1, <3>2, <4>1, <4>2
      <4>4. QED
        BY <4>3
    <3>3. CASE k # r.task
      <4>1. WhereIn(records \o a, k) = WhereIn(records, k)
        BY <1>5, <3>3, LongerUntouched
      <4>2. CASE Where(k) = newest[k].wt \/ k \in cut
        BY <3>1, <4>1, <4>2
      <4>3. CASE Expected(k)
        <5>1. PICK n \in 1..Len(todo) : todo[n].task = k
          BY <4>3 DEF Expected, todo
        <5>2. n # 1
          BY <1>3, <3>3, <5>1
        <5>3. n - 1 \in 1..Len(Tail(todo)) /\ (n - 1) + 1 = n /\ Len(todo) # 1
          BY <1>3, <5>2
        <5>4. Tail(todo)[n - 1].task = k
          BY <1>3, <5>1, <5>3
        <5>5. QED
          BY <1>4, <5>3, <5>4 DEF Expected
      <4>4. QED
        BY <1>1, <4>2, <4>3 DEF NewestKept
    <3>4. QED
      BY <3>2, <3>3
  <2>2. QED
    BY <2>1 DEF NewestKept
<1>13. AckedApplied' /\ FilesFinished' /\ SqlKept'
  <2>1. AckedApplied' /\ SqlKept'
    BY <1>1, <1>2 DEF AckedApplied, SqlKept
  <2>2. ~broken /\ ~pending
    BY <1>1 DEF FilesFinished, NoUpdate
  <2>3. update'.pc # "publish"
    BY <1>4
  <2>4. FilesFinished'
    BY <2>2, <2>3 DEF FilesFinished
  <2>5. QED
    BY <2>1, <2>4
<1>14. QED
  BY <1>7, <1>8, <1>9, <1>11, <1>12, <1>13 DEF BindingsInv

LEMMA AppendRecordKeeps ==
  ASSUME BindingsInv, AppendRecord
  PROVE  BindingsInv'
<1>1. CASE unfinished
  BY <1>1, RecordWritten DEF AppendRecord
<1>2. CASE ~unfinished
  <2> USE DEF sqlVars, history
  <2>1. /\ BindingTypes /\ HistoryIn(records) /\ RecordsTimed /\ TodoFits
        /\ NewestKept /\ AckedApplied /\ FilesFinished /\ SqlKept
    BY DEF BindingsInv
  <2>2. /\ update.pc = "append" /\ unfinished' = TRUE
        /\ UNCHANGED <<records, update, store, marks, pending, sqlVars, life, acked, history, cuts>>
    BY <1>2 DEF AppendRecord
  <2>3. HistoryIn(records)' /\ RecordsTimed' /\ SqlKept' /\ AckedApplied'
    BY <2>1, <2>2, SameHistory
  <2>4. BindingTypes' /\ FilesFinished'
    BY <2>1, <2>2 DEF BindingTypes, FilesFinished, NoUpdate
  <2>5. TodoFits'
    BY <2>1, <2>2 DEF TodoFits
  <2>6. NewestKept'
    BY <2>1, <2>2, SameWhere DEF NewestKept, Expected
  <2>7. QED
    BY <2>3, <2>4, <2>5, <2>6 DEF BindingsInv
<1>3. QED
  BY <1>1, <1>2

LEMMA AnswerObservationKeeps ==
  ASSUME BindingsInv, AnswerObservation
  PROVE  BindingsInv'
<1> USE DEF AnswerObservation, fileVars, sqlVars, history
<1>1. /\ BindingTypes /\ HistoryIn(records) /\ RecordsTimed /\ TodoFits
      /\ NewestKept /\ AckedApplied /\ FilesFinished /\ SqlKept
  BY DEF BindingsInv
<1>2. /\ update'.pc = "idle" /\ update'.todo = <<>> /\ update' = NoUpdate /\ Len(<<>>) = 0
      /\ update' \in BindingUpdates
  <2>1. <<>> \in Seq(BindingRecords)
    BY EmptySeq
  <2>2. QED
    BY <2>1 DEF NoUpdate, BindingUpdates
<1>3. HistoryIn(records)' /\ RecordsTimed' /\ SqlKept'
  <2>1. LinksValid => LinksValid'
    BY DEF LinksValid
  <2>2. ASSUME NEW k \in Tasks, CursorValid(k)
        PROVE  CursorValid(k)'
    BY <2>2 DEF CursorValid, Of, LastOf
  <2>3. QED
    BY <1>1, <2>1, <2>2 DEF RecordsTimed, SqlKept
<1>4. update.obs \in Observations
      /\ \A i \in 1..Len(update.obs.list) : marks[update.obs.list[i].task] >= update.obs.at
  BY <1>1 DEF TodoFits
<1>5. BindingTypes' /\ AckedApplied'
  BY <1>1, <1>2, <1>4 DEF BindingTypes, AckedApplied
<1>6. TodoFits'
  BY <1>1, <1>2 DEF TodoFits, Distinct
<1>7. NewestKept' /\ FilesFinished'
  BY <1>1, <1>2, SameWhere DEF NewestKept, Expected, FilesFinished, NoUpdate
<1>8. QED
  BY <1>3, <1>5, <1>6, <1>7 DEF BindingsInv

LEMMA InterruptUpdateKeeps ==
  ASSUME BindingsInv, InterruptUpdate
  PROVE  BindingsInv'
<1> USE DEF InterruptUpdate, fileVars, sqlVars, history
<1>1. /\ BindingTypes /\ HistoryIn(records) /\ RecordsTimed /\ TodoFits
      /\ NewestKept /\ AckedApplied /\ FilesFinished /\ SqlKept
  BY DEF BindingsInv
<1>2. /\ update'.pc = "idle" /\ update'.todo = <<>> /\ update' = NoUpdate /\ Len(<<>>) = 0
      /\ update' \in BindingUpdates
  <2>1. <<>> \in Seq(BindingRecords)
    BY EmptySeq
  <2>2. QED
    BY <2>1 DEF NoUpdate, BindingUpdates
<1>3. HistoryIn(records)' /\ RecordsTimed' /\ SqlKept' /\ AckedApplied'
  BY <1>1, SameHistory
<1> DEFINE lost == IF update.pc = "append" THEN 1..Len(update.todo) ELSE {}
<1>4. /\ cut' = cut \cup {update.todo[i].task : i \in lost}
      /\ \A i \in lost : i \in 1..Len(update.todo)
  OBVIOUS
<1>5. cut' \subseteq Tasks
  <2>1. \A i \in 1..Len(update.todo) : update.todo[i] \in BindingRecords
    BY <1>1, ElementOfSeq DEF BindingTypes, BindingUpdates
  <2>2. QED
    BY <1>1, <1>4, <2>1 DEF BindingTypes, BindingRecords
<1>6. BindingTypes' /\ FilesFinished'
  <2>1. BindingTypes'
    BY <1>1, <1>2, <1>5 DEF BindingTypes
  <2>2. cuts' > 0 /\ store = "file"
    BY <1>1 DEF BindingTypes, TodoFits
  <2>3. /\ pending' = pending /\ unfinished' = unfinished /\ store' = store
        /\ broken' = (broken \/ update.pc = "publish" \/ (update.pc = "append" /\ unfinished))
        /\ update # NoUpdate
    OBVIOUS
  <2> HIDE DEF InterruptUpdate
  <2>4. FilesFinished'
    <3>1. /\ ~broken
          /\ pending <=> update.pc = "publish"
          /\ unfinished => update.pc = "append"
      BY <1>1, <2>3 DEF FilesFinished
    <3>2. pending' <=> update'.pc = "publish" \/ (broken' /\ ~unfinished')
      BY <1>2, <2>3, <3>1
    <3>3. unfinished' => update'.pc = "append" \/ broken'
      BY <2>3, <3>1
    <3>4. QED
      BY <1>2, <2>2, <2>3, <3>2, <3>3 DEF FilesFinished
  <2>5. QED
    BY <2>1, <2>4
<1>7. TodoFits'
  BY <1>1, <1>2 DEF TodoFits, Distinct
<1>8. NewestKept'
  <2>1. ASSUME NEW k \in Tasks, Expected(k) PROVE k \in cut'
    BY <1>4, <2>1 DEF Expected
  <2>2. cut \subseteq cut' /\ newest' = newest
    BY <1>4
  <2>3. QED
    BY <1>1, <2>1, <2>2, SameWhere DEF NewestKept
<1>9. QED
  BY <1>3, <1>6, <1>7, <1>8 DEF BindingsInv

-----------------------------------------------------------------------------
\* The SQL store.  LinksValid and CursorValid of one record and of one task, for
\* any history s, links ls, cursor c and watermark m.
LinkFits(l, r, reg) ==
    /\ l.dest[1] = r.wt
    /\ (l.source = None) = (r.from = None)
    /\ l.source # None => l.source[1] = r.from
    /\ l.dest[2] # None => l.dest \in reg

CursorFits(s, ls, c, m, k) ==
    LET last == IF OfIn(s, k) = {} THEN 0 ELSE LastIn(s, k)
    IN  /\ (c = None) = (m = 0)
        /\ c = None => last = 0
        /\ c # None =>
              /\ c.at = m /\ c.history = last
              /\ (c.current = None) = (last = 0)
              /\ last # 0 =>
                    /\ c.current[1] = s[last].wt
                    /\ c.at >= s[last].at
                    /\ c.at = s[last].at => c.current = ls[last].dest

LEMMA LinksAreValid ==
  LinksValid <=> Len(links) = Len(records)
                 /\ \A i \in 1..Len(records) : LinkFits(links[i], records[i], registry)
BY DEF LinksValid, LinkFits

LEMMA CursorIsValid ==
  ASSUME NEW k
  PROVE  CursorValid(k) <=> CursorFits(records, links, cursors[k], marks[k], k)
BY WhereIsLast DEF CursorValid, CursorFits

\* A cursor stays valid when the history gets records of other tasks only.
LEMMA CursorUntouched ==
  ASSUME NEW s \in Seq(BindingRecords), NEW a \in Seq(BindingRecords), Distinct(a),
         NEW ls, NEW ms, \A i \in 1..Len(s) : ms[i] = ls[i],
         NEW c, NEW m, NEW k, \A n \in 1..Len(a) : a[n].task # k,
         CursorFits(s, ls, c, m, k)
  PROVE  CursorFits(s \o a, ms, c, m, k)
<1>1. OfIn(s \o a, k) = OfIn(s, k) /\ LastIn(s \o a, k) = LastIn(s, k)
  BY LongerUntouched
<1>2. CASE OfIn(s, k) = {}
  BY <1>1, <1>2 DEF CursorFits
<1>3. CASE OfIn(s, k) # {}
  <2> DEFINE last == LastIn(s, k)
  <2>1. last \in 1..Len(s)
    BY <1>3, WhereIsWorktree
  <2>2. (s \o a)[last] = s[last] /\ ms[last] = ls[last]
    BY <2>1, Longer
  <2>3. QED
    BY <1>1, <1>3, <2>2 DEF CursorFits
<1>4. QED
  BY <1>2, <1>3

\* The cursor of a task the observation moves.
LEMMA CursorMoved ==
  ASSUME NEW s \in Seq(BindingRecords), NEW a \in Seq(BindingRecords), Distinct(a),
         NEW ls, NEW n \in 1..Len(a), NEW w \in Anchors, w[1] = a[n].wt, a[n].at > 0,
         ls[Len(s) + n].dest = w
  PROVE  CursorFits(s \o a, ls, [at |-> a[n].at, current |-> w, history |-> Len(s) + n],
                    a[n].at, a[n].task)
<1> DEFINE k == a[n].task
           c == [at |-> a[n].at, current |-> w, history |-> Len(s) + n]
<1>1. OfIn(s \o a, k) # {} /\ LastIn(s \o a, k) = Len(s) + n
  <2>1. /\ OfIn(s \o a, k) = OfIn(s, k) \cup {Len(s) + n}
        /\ LastIn(s \o a, k) = Len(s) + n
    BY LongerTouched
  <2>2. Len(s) + n \in OfIn(s \o a, k)
    BY <2>1
  <2>3. QED
    BY <2>1, <2>2
<1>2. /\ (s \o a)[Len(s) + n] = a[n] /\ Len(s) \in Nat /\ n \in Nat /\ n > 0
  BY Longer
<1>3. a[n] \in BindingRecords
  BY ElementOfSeq
<1>4. a[n].at \in Nat /\ Len(s) + n # 0
  BY <1>2, <1>3 DEF BindingRecords
<1>5. /\ c.at = a[n].at /\ c.current = w /\ c.history = Len(s) + n /\ c \in Cursors
  <2>1. Len(s) + n \in Nat
    BY <1>2
  <2>2. QED
    BY <1>4, <2>1 DEF Cursors
<1>6. c # None /\ w # None
  BY <1>5, BindingAssumption
<1> HIDE DEF c, k
<1>7. CursorFits(s \o a, ls, c, a[n].at, k)
  BY <1>1, <1>2, <1>4, <1>5, <1>6 DEF CursorFits
<1>8. QED
  BY <1>7 DEF c, k

\* The cursor of a task seen again where it was.
LEMMA CursorSeenAgain ==
  ASSUME NEW s \in Seq(BindingRecords), NEW a \in Seq(BindingRecords), Distinct(a),
         NEW ls, NEW ms, NEW c \in Cursors \cup {None}, NEW m \in Nat, NEW k,
         \A n \in 1..Len(a) : a[n].task # k,
         CursorFits(s, ls, c, m, k), NEW at \in Nat, m < at,
         NEW w \in Anchors, w[1] = WhereIn(s, k), w[1] \in Worktrees
  PROVE  CursorFits(s \o a, ms, [at |-> at, current |-> w, history |-> c.history], at, k)
<1> DEFINE d == [at |-> at, current |-> w, history |-> c.history]
           last == LastIn(s, k)
<1>1. /\ OfIn(s \o a, k) = OfIn(s, k) /\ LastIn(s \o a, k) = last
  BY LongerUntouched
<1>2. /\ OfIn(s, k) # {} /\ last \in 1..Len(s) /\ w[1] = s[last].wt
  <2>1. WhereIn(s, k) # None
    BY BindingAssumption
  <2>2. QED
    BY <2>1, WhereIsWorktree
<1>3. (s \o a)[last] = s[last] /\ Len(s) \in Nat /\ last # 0
  BY <1>2, Longer
<1>4. /\ c # None /\ c.at = m /\ c.history = last /\ m >= s[last].at
  BY <1>2, <1>3 DEF CursorFits
<1>5. s[last] \in BindingRecords
  BY <1>2, ElementOfSeq
<1>6. s[last].at \in Nat /\ at >= s[last].at /\ at # s[last].at /\ at # 0
  <2>1. s[last].at \in Nat
    BY <1>5 DEF BindingRecords
  <2>2. QED
    BY <1>4, <2>1
<1>7. /\ d.at = at /\ d.current = w /\ d.history = last /\ d \in Cursors
  BY <1>4 DEF Cursors
<1>8. d # None /\ w # None
  BY <1>7, BindingAssumption
<1> HIDE DEF d, last
<1>9. CursorFits(s \o a, ms, d, at, k)
  BY <1>1, <1>2, <1>3, <1>6, <1>7, <1>8 DEF CursorFits, last
<1>10. QED
  BY <1>9 DEF d

LEMMA OriginIsAnchor ==
  ASSUME BindingTypes, NEW w \in Worktrees
  PROVE  Origin(w) \in Anchors /\ Origin(w)[1] = w /\ Origin(w) # None
BY BindingAssumption DEF BindingTypes, Origin, Anchors

\* The links of the added records.
LEMMA LinksKeptBySql ==
  ASSUME NEW o \in Observations, BindingTypes, RecordsTimed, LinksValid,
         \A k \in Tasks : CursorValid(k),
         records' = records \o Additions(o), links' = LinksAfter(Additions(o)),
         registry' = RegistryAfter(o)
  PROVE  /\ links' \in Seq(LinkRecords) /\ LinksValid'
         /\ \A i \in 1..Len(records) : links'[i] = links[i]
         /\ \A n \in 1..Len(Additions(o)) :
               links'[Len(records) + n].dest = Origin(Additions(o)[n].wt)
<1> DEFINE a == Additions(o)
           new == [n \in 1..Len(a) |->
                      [dest |-> Origin(a[n].wt),
                       source |-> IF cursors[a[n].task] = None THEN None
                                  ELSE cursors[a[n].task].current]]
<1>1. /\ a \in Seq(BindingRecords) /\ Distinct(a)
      /\ \A n \in 1..Len(a) :
            /\ Fits(records, a[n]) /\ a[n].task \in Touched(o)
            /\ a[n].wt = Target(o, a[n].task)
  BY AdditionsFit
<1>2. links' = links \o new
  BY DEF LinksAfter
<1>3. registry' = registry \cup {Origin(Target(o, k)) : k \in Touched(o)}
  BY DEF RegistryAfter
<1>4. /\ records \in Seq(BindingRecords) /\ links \in Seq(LinkRecords)
      /\ Len(a) \in Nat /\ Len(records) \in Nat
  BY <1>1, LenProperties DEF BindingTypes
<1> HIDE DEF a
<1>5. ASSUME NEW n \in 1..Len(a)
      PROVE  a[n].task \in Tasks /\ a[n].wt \in Worktrees
  <2>1. a[n] \in BindingRecords
    BY <1>1, ElementOfSeq
  <2>2. QED
    BY <2>1 DEF BindingRecords
<1>6. ASSUME NEW n \in 1..Len(a)
      PROVE  new[n] \in LinkRecords /\ LinkFits(new[n], a[n], registry')
  <2> DEFINE k == a[n].task
             w == a[n].wt
             c == cursors[k]
             from == IF c = None THEN None ELSE c.current
  <2>1. k \in Tasks /\ w \in Worktrees
    BY <1>5
  <2>2. Origin(w) \in Anchors /\ Origin(w)[1] = w
    BY <2>1, OriginIsAnchor
  <2>3. c \in Cursors \cup {None}
    BY <2>1 DEF BindingTypes
  <2>4. new[n].dest = Origin(w) /\ new[n].source = from
    OBVIOUS
  <2>5. Origin(w) \in registry'
    BY <1>1, <1>3
  <2>6. CursorFits(records, links, c, marks[k], k)
    BY <2>1, CursorIsValid
  <2>7. a[n].from = WhereIn(records, k)
    BY <1>1 DEF Fits
  <2>8. from \in Anchors \cup {None}
    BY <2>3 DEF Cursors
  <2>9. new[n] \in LinkRecords
    BY <2>2, <2>8 DEF LinkRecords
  <2> HIDE DEF new, k, w, c
  <2>10. (from = None) = (a[n].from = None) /\ (from # None => from[1] = a[n].from)
    <3>1. CASE OfIn(records, k) = {}
      <4>1. a[n].from = None
        BY <2>7, <3>1 DEF WhereIn
      <4>2. from = None
        BY <2>6, <3>1 DEF CursorFits
      <4>3. QED
        BY <4>1, <4>2
    <3>2. CASE OfIn(records, k) # {}
      <4>1. /\ LastIn(records, k) \in 1..Len(records)
            /\ a[n].from = records[LastIn(records, k)].wt /\ a[n].from # None
        BY <1>4, <2>7, <3>2, WhereIsWorktree
      <4>2. LastIn(records, k) # 0
        BY <1>4, <4>1
      <4>3. c # None /\ c.current # None /\ c.current[1] = records[LastIn(records, k)].wt
        BY <2>6, <3>2, <4>2 DEF CursorFits
      <4>4. QED
        BY <4>1, <4>3
    <3>3. QED
      BY <3>1, <3>2
  <2> HIDE DEF from
  <2>11. LinkFits(new[n], a[n], registry')
    BY <2>2, <2>4, <2>5, <2>10 DEF LinkFits, w
  <2>12. QED
    BY <2>9, <2>11
<1>7. new \in Seq(LinkRecords) /\ Len(new) = Len(a)
  <2>1. new \in [1..Len(a) -> LinkRecords]
    BY <1>6
  <2>2. new \in Seq(LinkRecords)
    BY <1>4, <2>1, IsASeq
  <2>3. DOMAIN new = 1..Len(a) /\ DOMAIN new = 1..Len(new) /\ Len(new) \in Nat
    BY <2>2, LenProperties
  <2>4. QED
    BY <1>4, <2>2, <2>3
<1>8. \A n \in 1..Len(a) : new[n].dest = Origin(a[n].wt)
  OBVIOUS
<1> HIDE DEF new
<1>9. /\ Len(links) = Len(records)
      /\ \A i \in 1..Len(records) : LinkFits(links[i], records[i], registry)
  BY LinksAreValid
<1>10. /\ links \o new \in Seq(LinkRecords) /\ Len(links \o new) = Len(links) + Len(new)
       /\ \A i \in 1..Len(links) : (links \o new)[i] = links[i]
       /\ \A n \in 1..Len(new) : (links \o new)[Len(links) + n] = new[n]
  <2>1. links \in Seq(LinkRecords) /\ new \in Seq(LinkRecords)
    BY <1>4, <1>7
  <2>2. /\ links \o new \in Seq(LinkRecords) /\ Len(links \o new) = Len(links) + Len(new)
        /\ \A i \in 1..Len(links) : i \in 1..Len(links \o new) /\ (links \o new)[i] = links[i]
        /\ \A n \in 1..Len(new) : /\ Len(links) + n \in 1..Len(links \o new)
                                   /\ (links \o new)[Len(links) + n] = new[n]
    BY <2>1, Joined
  <2>3. QED
    BY <2>2
<1>11. /\ Len(records') = Len(records) + Len(a)
       /\ \A i \in 1..Len(records) : records'[i] = records[i]
       /\ \A n \in 1..Len(a) : records'[Len(records) + n] = a[n]
       /\ \A i \in 1..Len(records') : i \in 1..Len(records) \/ \E n \in 1..Len(a) : i = Len(records) + n
  BY <1>1, <1>4, Longer DEF a
<1>12. ASSUME NEW i \in 1..Len(records')
       PROVE  LinkFits(links'[i], records'[i], registry')
  <2>1. CASE i \in 1..Len(records)
    <3>1. links'[i] = links[i] /\ records'[i] = records[i]
      BY <1>2, <1>9, <1>10, <1>11, <2>1
    <3>2. LinkFits(links[i], records[i], registry)
      BY <1>9, <2>1
    <3>3. QED
      BY <1>3, <3>1, <3>2 DEF LinkFits
  <2>2. ASSUME NEW n \in 1..Len(a), i = Len(records) + n
        PROVE  LinkFits(links'[i], records'[i], registry')
    <3>1. links'[i] = new[n] /\ records'[i] = a[n]
      BY <1>2, <1>7, <1>9, <1>10, <1>11, <2>2
    <3>2. QED
      BY <1>6, <3>1
  <2>3. QED
    BY <1>11, <2>1, <2>2
<1>13. LinksValid'
  <2>1. Len(links') = Len(records')
    BY <1>2, <1>7, <1>9, <1>10, <1>11
  <2>2. QED
    BY <1>12, <2>1 DEF LinksValid, LinkFits
<1>14. QED
  BY <1>2, <1>7, <1>8, <1>9, <1>10, <1>13 DEF a

LEMMA CursorsKeptBySql ==
  ASSUME NEW o \in Observations, BindingTypes, RecordsTimed,
         \A k \in Tasks : CursorValid(k), Len(links) = Len(records),
         records' = records \o Additions(o), links' \in Seq(LinkRecords),
         \A i \in 1..Len(records) : links'[i] = links[i],
         \A n \in 1..Len(Additions(o)) :
            links'[Len(records) + n].dest = Origin(Additions(o)[n].wt),
         cursors' = CursorsAfter(o, Additions(o)), marks' = MarksAfter(o),
         NEW k \in Tasks
  PROVE  CursorValid(k)' /\ cursors'[k] \in Cursors \cup {None}
<1> DEFINE a == Additions(o)
           s == records
           w == Origin(Target(o, k))
           history2 == IF \E n \in 1..Len(a) : a[n].task = k
                       THEN Len(s) + (CHOOSE n \in 1..Len(a) : a[n].task = k)
                       ELSE cursors[k].history
<1>1. /\ a \in Seq(BindingRecords) /\ Distinct(a) /\ s \in Seq(BindingRecords)
      /\ \A n \in 1..Len(a) :
            /\ a[n].task \in Touched(o) /\ a[n].at = o.at
            /\ a[n].wt = Target(o, a[n].task)
      /\ k \in Touched(o) =>
            /\ marks[k] < o.at /\ Target(o, k) \in Worktrees
            /\ (\E n \in 1..Len(a) : a[n].task = k) \/ Where(k) = Target(o, k)
  BY AdditionsFit DEF BindingTypes
<1>2. /\ o.at \in Nat /\ o.at > 0 /\ marks[k] \in Nat /\ cursors[k] \in Cursors \cup {None}
  BY AnObservation DEF BindingTypes
<1>3. CursorFits(s, links, cursors[k], marks[k], k)
  BY CursorIsValid
<1>4. cursors'[k] = IF k \notin Touched(o) THEN cursors[k]
                    ELSE [at |-> o.at, current |-> w, history |-> history2]
  BY DEF CursorsAfter
<1>5. marks'[k] = IF k \in Touched(o) THEN o.at ELSE marks[k]
  BY MarksRise
<1>6. Len(s) \in Nat
  BY <1>1, LenProperties
<1>7. CursorValid(k)' <=> CursorFits(records', links', cursors'[k], marks'[k], k)
  BY WhereIsNext DEF CursorValid, CursorFits
<1>8. records' = s \o a
  OBVIOUS
<1>9. /\ \A i \in 1..Len(s) : links'[i] = links[i]
      /\ \A n \in 1..Len(a) : links'[Len(s) + n].dest = Origin(a[n].wt)
  OBVIOUS
<1> HIDE DEF a, s, w, history2
<1>10. CASE k \notin Touched(o)
  <2>1. \A n \in 1..Len(a) : a[n].task # k
    BY <1>1, <1>10
  <2>2. CursorFits(s \o a, links', cursors[k], marks[k], k)
    BY <1>1, <1>3, <1>9, <2>1, CursorUntouched
  <2>3. QED
    BY <1>2, <1>4, <1>5, <1>7, <1>8, <1>10, <2>2
<1>11. CASE k \in Touched(o)
  <2>1. w \in Anchors /\ w[1] = Target(o, k)
    BY <1>1, <1>11, OriginIsAnchor DEF w
  <2>2. ASSUME NEW n \in 1..Len(a), a[n].task = k
        PROVE  /\ CursorFits(s \o a, links', [at |-> o.at, current |-> w, history |-> history2], o.at, k)
               /\ history2 \in Nat
    <3>1. (CHOOSE l \in 1..Len(a) : a[l].task = k) = n
      BY <1>1, <2>2 DEF Distinct
    <3>2. history2 = Len(s) + n
      BY <2>2, <3>1 DEF history2
    <3>3. /\ w[1] = a[n].wt /\ a[n].at > 0 /\ a[n].at = o.at
          /\ links'[Len(s) + n].dest = w
      BY <1>1, <1>2, <1>9, <2>1, <2>2 DEF w
    <3>4. CursorFits(s \o a, links', [at |-> a[n].at, current |-> w, history |-> Len(s) + n],
                     a[n].at, a[n].task)
      BY <1>1, <2>1, <3>3, CursorMoved
    <3>5. QED
      BY <1>6, <2>2, <3>2, <3>3, <3>4
  <2>3. ASSUME \A n \in 1..Len(a) : a[n].task # k
        PROVE  /\ CursorFits(s \o a, links', [at |-> o.at, current |-> w, history |-> history2], o.at, k)
               /\ history2 \in Nat
    <3>1. history2 = cursors[k].history /\ Where(k) = Target(o, k)
      BY <1>1, <1>11, <2>3 DEF history2
    <3>2. w[1] = WhereIn(s, k) /\ w[1] \in Worktrees
      BY <1>1, <1>11, <2>1, <3>1, WhereIsLast DEF s
    <3>3. marks[k] < o.at
      BY <1>1, <1>11
    <3>4. CursorFits(s \o a, links', [at |-> o.at, current |-> w, history |-> cursors[k].history], o.at, k)
      BY <1>1, <1>2, <1>3, <2>1, <2>3, <3>2, <3>3, CursorSeenAgain
    <3>5. cursors[k] \in Cursors
      <4>1. OfIn(s, k) # {}
        <5>1. WhereIn(s, k) # None
          BY <3>2, BindingAssumption
        <5>2. QED
          BY <1>1, <5>1, WhereIsWorktree
      <4>2. LastIn(s, k) # 0
        BY <1>1, <1>6, <4>1, WhereIsWorktree
      <4>3. QED
        BY <1>2, <1>3, <4>1, <4>2 DEF CursorFits
    <3>6. QED
      BY <3>1, <3>4, <3>5 DEF Cursors
  <2>4. /\ CursorFits(s \o a, links', [at |-> o.at, current |-> w, history |-> history2], o.at, k)
        /\ history2 \in Nat
    BY <2>2, <2>3
  <2>5. [at |-> o.at, current |-> w, history |-> history2] \in Cursors
    BY <1>2, <2>1, <2>4 DEF Cursors
  <2>6. QED
    BY <1>4, <1>5, <1>7, <1>8, <1>11, <2>4, <2>5
<1>12. QED
  BY <1>10, <1>11

LEMMA ObserveSqlKeeps ==
  ASSUME NEW o \in Observations, BindingsInv, ObserveSql(o)
  PROVE  BindingsInv'
<1> DEFINE a == Additions(o)
<1> USE DEF ObserveSql
<1>1. /\ BindingTypes /\ HistoryIn(records) /\ RecordsTimed /\ TodoFits
      /\ NewestKept /\ AckedApplied /\ FilesFinished /\ SqlKept
  BY DEF BindingsInv
<1>2. store = "sql" /\ update = NoUpdate /\ LinksValid /\ \A k \in Tasks : CursorValid(k)
  BY <1>1 DEF TodoFits, TablesReadable
<1>3. /\ records' = records \o a /\ links' = LinksAfter(a) /\ registry' = RegistryAfter(o)
      /\ cursors' = CursorsAfter(o, a) /\ marks' = MarksAfter(o) /\ newest' = NewestAfter(o)
      /\ cut' = cut \ Touched(o) /\ acked' = acked \cup {o}
      /\ UNCHANGED <<store, unfinished, pending, life, update, broken, cuts>>
  OBVIOUS
<1> HIDE DEF ObserveSql
<1>4. /\ a \in Seq(BindingRecords) /\ Distinct(a)
      /\ \A n \in 1..Len(a) :
            /\ Fits(records, a[n]) /\ a[n].at = o.at /\ a[n].task \in Touched(o)
            /\ a[n].wt = Target(o, a[n].task)
      /\ \A k \in Touched(o) :
            /\ k \in Tasks
            /\ \/ \E n \in 1..Len(a) : a[n].task = k
               \/ Where(k) = Target(o, k)
  BY <1>1, AdditionsFit
<1>5. /\ marks' \in [Tasks -> Nat] /\ \A k \in Tasks : marks'[k] >= marks[k]
      /\ \A k \in Tasks : marks'[k] = IF k \in Touched(o) THEN o.at ELSE marks[k]
      /\ \A i \in 1..Len(o.list) : marks'[o.list[i].task] >= o.at
      /\ newest' \in [Tasks -> [at : Nat, wt : Worktrees \cup {None}]]
      /\ \A k \in Tasks : newest'[k].wt = IF k \in Touched(o) THEN Target(o, k) ELSE newest[k].wt
  BY <1>1, <1>3, MarksRise
<1>6. /\ links' \in Seq(LinkRecords) /\ LinksValid'
      /\ \A i \in 1..Len(records) : links'[i] = links[i]
      /\ \A n \in 1..Len(a) : links'[Len(records) + n].dest = Origin(a[n].wt)
  BY <1>1, <1>2, <1>3, LinksKeptBySql
<1>7. ASSUME NEW k \in Tasks
      PROVE  CursorValid(k)' /\ cursors'[k] \in Cursors \cup {None}
  <2>1. Len(links) = Len(records)
    BY <1>2 DEF LinksValid
  <2>2. QED
    BY <1>1, <1>2, <1>3, <1>6, <2>1, CursorsKeptBySql
<1>8. /\ records \in Seq(BindingRecords) /\ records' \in Seq(BindingRecords)
      /\ \A i \in 1..Len(records) : records'[i] = records[i]
      /\ \A n \in 1..Len(a) : records'[Len(records) + n] = a[n]
      /\ \A i \in 1..Len(records') : i \in 1..Len(records) \/ \E n \in 1..Len(a) : i = Len(records) + n
  <2>1. records \in Seq(BindingRecords)
    BY <1>1 DEF BindingTypes
  <2>2. QED
    BY <1>3, <1>4, <2>1, Longer
<1> HIDE DEF a
<1>9. HistoryIn(records)'
  <2>1. HistoryIn(records \o a)
    BY <1>1, <1>4, <1>8, LongerValid
  <2>2. QED
    BY <1>3, <2>1
<1>10. BindingTypes'
  <2>1. cursors' \in [Tasks -> Cursors \cup {None}]
    <3>1. cursors' = [k \in Tasks |-> cursors'[k]]
      BY <1>3 DEF CursorsAfter
    <3>2. QED
      BY <1>7, <3>1
  <2>2. QED
    BY <1>1, <1>3, <1>5, <1>6, <1>8, <2>1 DEF BindingTypes
<1>11. RecordsTimed' /\ AckedApplied'
  <2>1. o.at \in Nat /\ o.at > 0
    BY AnObservation
  <2>2. ASSUME NEW i \in 1..Len(records)
        PROVE  records[i].at > 0 /\ records[i].at <= marks'[records[i].task]
    <3>1. records[i] \in BindingRecords
      BY <1>8, <2>2, ElementOfSeq
    <3>2. records[i].at \in Nat /\ records[i].task \in Tasks
      BY <3>1 DEF BindingRecords
    <3>3. marks[records[i].task] \in Nat /\ marks'[records[i].task] \in Nat
      BY <1>1, <1>5, <3>2 DEF BindingTypes
    <3>4. records[i].at > 0 /\ records[i].at <= marks[records[i].task]
      BY <1>1 DEF RecordsTimed
    <3>5. marks'[records[i].task] >= marks[records[i].task]
      BY <1>5, <3>2
    <3>6. QED
      BY <3>2, <3>3, <3>4, <3>5
  <2>3. ASSUME NEW n \in 1..Len(a)
        PROVE  a[n].at > 0 /\ a[n].at <= marks'[a[n].task]
    BY <1>4, <1>5, <2>1
  <2>4. ASSUME NEW i \in 1..Len(records')
        PROVE  records'[i].at > 0 /\ records'[i].at <= marks'[records'[i].task]
    <3>1. CASE i \in 1..Len(records)
      <4>1. records'[i] = records[i]
        BY <1>8, <3>1
      <4>2. QED
        BY <2>2, <3>1, <4>1
    <3>2. CASE \E n \in 1..Len(a) : i = Len(records) + n
      <4>1. PICK n \in 1..Len(a) : i = Len(records) + n
        BY <3>2
      <4>2. records'[i] = a[n]
        BY <1>8, <4>1
      <4>3. QED
        BY <2>3, <4>2
    <3>3. QED
      BY <1>8, <3>1, <3>2
  <2>5. ASSUME NEW p \in acked', NEW i \in 1..Len(p.list)
        PROVE  marks'[p.list[i].task] >= p.at
    <3>1. CASE p = o
      BY <1>5, <3>1
    <3>2. CASE p \in acked
      <4>1. p \in Observations
        BY <1>1, <3>2 DEF BindingTypes
      <4>2. p.at \in Nat /\ p.list[i].task \in Tasks
        BY <4>1, AnObservation
      <4>3. /\ marks[p.list[i].task] \in Nat /\ marks'[p.list[i].task] \in Nat
            /\ marks[p.list[i].task] >= p.at /\ marks'[p.list[i].task] >= marks[p.list[i].task]
        BY <1>1, <1>5, <3>2, <4>2 DEF BindingTypes, AckedApplied
      <4>4. QED
        BY <4>2, <4>3
    <3>3. QED
      BY <1>3, <3>1, <3>2
  <2>6. QED
    BY <2>4, <2>5 DEF RecordsTimed, AckedApplied
<1>12. TodoFits'
  <2>1. update'.todo = <<>> /\ Len(<<>>) = 0 /\ update'.pc = "idle" /\ update' = NoUpdate
    BY <1>2, <1>3, EmptySeq DEF NoUpdate
  <2>2. QED
    BY <2>1 DEF TodoFits, Distinct
<1>13. NewestKept'
  <2>1. ASSUME NEW k \in Tasks
        PROVE  Where(k)' = newest'[k].wt \/ k \in cut'
    <3>1. Where(k) = WhereIn(records, k) /\ Where(k)' = WhereIn(records \o a, k)
      BY <1>3, WhereIsLast, WhereIsNext
    <3>2. CASE \E n \in 1..Len(a) : a[n].task = k
      <4>1. PICK n \in 1..Len(a) : a[n].task = k
        BY <3>2
      <4>2. WhereIn(records \o a, k) = a[n].wt
        BY <1>4, <1>8, <4>1, LongerTouched
      <4>3. QED
        BY <1>4, <1>5, <3>1, <4>1, <4>2
    <3>3. CASE \A n \in 1..Len(a) : a[n].task # k
      <4>1. Where(k)' = Where(k)
        BY <1>4, <1>8, <3>1, <3>3, LongerUntouched
      <4>2. CASE k \in Touched(o)
        BY <1>4, <1>5, <3>3, <4>1, <4>2
      <4>3. CASE k \notin Touched(o)
        <5>1. Where(k) = newest[k].wt \/ k \in cut
          BY <1>1, <1>2 DEF NewestKept, Expected, NoUpdate
        <5>2. QED
          BY <1>3, <1>5, <4>1, <4>3, <5>1
      <4>4. QED
        BY <4>2, <4>3
    <3>4. QED
      BY <3>2, <3>3
  <2>2. QED
    BY <2>1 DEF NewestKept
<1>14. FilesFinished' /\ SqlKept'
  BY <1>1, <1>3, <1>6, <1>7 DEF FilesFinished, SqlKept
<1>15. QED
  BY <1>9, <1>10, <1>11, <1>12, <1>13, <1>14 DEF BindingsInv

\* The import anchors every record and every task to what git has at that time.
LEMMA ActivateKeeps ==
  ASSUME BindingsInv, Activate
  PROVE  BindingsInv'
<1> USE DEF Activate, fileVars, history
<1>1. /\ BindingTypes /\ HistoryIn(records) /\ RecordsTimed /\ TodoFits
      /\ NewestKept /\ AckedApplied /\ FilesFinished /\ SqlKept
  BY DEF BindingsInv
<1>2. /\ store' = "sql" /\ update' = update /\ update = NoUpdate
      /\ UNCHANGED <<records, unfinished, marks, pending, life, acked, newest, cut, broken, cuts>>
      /\ ~pending /\ ~unfinished
      /\ links' = [i \in 1..Len(records) |-> [dest |-> FrozenLink(records[i].wt),
                                              source |-> FrozenLink(records[i].from)]]
      /\ registry' = {Origin(w) : w \in {v \in Worktrees : Live(v)}}
      /\ cursors' = [k \in Tasks |->
             IF marks[k] = 0 THEN None
             ELSE [at |-> marks[k], current |-> FrozenLink(Where(k)),
                   history |-> IF Of(k) = {} THEN 0 ELSE LastOf(k)]]
  BY DEF FilesReadable, WatermarksReadable
<1> HIDE DEF Activate
<1>3. records \in Seq(BindingRecords) /\ Len(records) \in Nat
  BY <1>1, LenProperties DEF BindingTypes
<1>4. ASSUME NEW i \in 1..Len(records)
      PROVE  /\ records[i].wt \in Worktrees /\ records[i].from \in Worktrees \cup {None}
             /\ records[i].at \in Nat /\ records[i].task \in Tasks /\ records[i].at > 0
             /\ records[i].at <= marks[records[i].task]
  <2>1. records[i] \in BindingRecords
    BY <1>3, ElementOfSeq
  <2>2. QED
    BY <1>1, <2>1 DEF BindingRecords, RecordsTimed
<1>5. ASSUME NEW w \in Worktrees \cup {None}
      PROVE  /\ FrozenLink(w) \in Anchors \cup {None}
             /\ FrozenLink(w) = None <=> w = None
             /\ w # None => /\ FrozenLink(w) \in Anchors /\ FrozenLink(w)[1] = w
                            /\ FrozenLink(w)[2] # None => FrozenLink(w) \in registry'
  <2>1. CASE w = None
    BY <2>1, BindingAssumption DEF FrozenLink
  <2>2. CASE w # None
    <3>1. w \in Worktrees /\ Origin(w) \in Anchors /\ Origin(w)[1] = w
      BY <1>1, <2>2, OriginIsAnchor
    <3>2. <<w, None>> \in Anchors /\ <<w, None>>[1] = w /\ <<w, None>>[2] = None
      BY <3>1 DEF Anchors
    <3>3. FrozenLink(w) = IF Live(w) THEN Origin(w) ELSE <<w, None>>
      BY <2>2 DEF FrozenLink
    <3>4. Live(w) => Origin(w) \in registry'
      BY <1>2, <3>1
    <3>5. FrozenLink(w) \in Anchors /\ FrozenLink(w)[1] = w
      BY <3>1, <3>2, <3>3
    <3>6. FrozenLink(w) # None
      BY <3>5, BindingAssumption
    <3>7. FrozenLink(w)[2] # None => FrozenLink(w) \in registry'
      BY <3>2, <3>3, <3>4
    <3>8. QED
      BY <2>2, <3>5, <3>6, <3>7
  <2>3. QED
    BY <2>1, <2>2
<1>6. ASSUME NEW i \in 1..Len(records)
      PROVE  /\ links'[i] \in LinkRecords /\ LinkFits(links'[i], records[i], registry')
             /\ links'[i].dest = FrozenLink(records[i].wt)
  <2>1. /\ links'[i].dest = FrozenLink(records[i].wt)
        /\ links'[i].source = FrozenLink(records[i].from)
        /\ links'[i] = [dest |-> FrozenLink(records[i].wt), source |-> FrozenLink(records[i].from)]
    BY <1>2
  <2>2. records[i].wt # None
    BY <1>4, BindingAssumption
  <2>3. links'[i] \in LinkRecords
    BY <1>4, <1>5, <2>1, <2>2 DEF LinkRecords
  <2>4. LinkFits(links'[i], records[i], registry')
    BY <1>4, <1>5, <2>1, <2>2 DEF LinkFits
  <2>5. QED
    BY <2>1, <2>3, <2>4
<1>7. links' \in Seq(LinkRecords) /\ Len(links') = Len(records)
  <2>1. links' \in [1..Len(records) -> LinkRecords]
    BY <1>2, <1>6
  <2>2. links' \in Seq(LinkRecords)
    BY <1>3, <2>1, IsASeq
  <2>3. DOMAIN links' = 1..Len(records) /\ DOMAIN links' = 1..Len(links') /\ Len(links') \in Nat
    BY <2>1, <2>2, LenProperties
  <2>4. QED
    BY <1>3, <2>2, <2>3
<1>8. LinksValid'
  BY <1>2, <1>6, <1>7 DEF LinksValid, LinkFits
<1>9. ASSUME NEW k \in Tasks
      PROVE  CursorValid(k)' /\ cursors'[k] \in Cursors \cup {None}
  <2> DEFINE last == IF OfIn(records, k) = {} THEN 0 ELSE LastIn(records, k)
  <2>1. cursors'[k] = IF marks[k] = 0 THEN None
                      ELSE [at |-> marks[k], current |-> FrozenLink(WhereIn(records, k)),
                            history |-> last]
    BY <1>2, WhereIsLast
  <2>2. CursorValid(k)' <=> CursorFits(records, links', cursors'[k], marks[k], k)
    BY <1>2, WhereIsNext DEF CursorValid, CursorFits
  <2>3. /\ marks[k] \in Nat /\ WhereIn(records, k) \in Worktrees \cup {None}
        /\ WhereIn(records, k) = None <=> OfIn(records, k) = {}
    BY <1>1, <1>3, WhereIsWorktree DEF BindingTypes
  <2>4. /\ FrozenLink(WhereIn(records, k)) \in Anchors \cup {None}
        /\ FrozenLink(WhereIn(records, k)) = None <=> OfIn(records, k) = {}
    BY <1>5, <2>3
  <2>5. CASE OfIn(records, k) = {}
    <3>1. last = 0
      BY <2>5
    <3>2. marks[k] # 0 => cursors'[k] \in Cursors
      BY <2>1, <2>3, <2>4, <3>1 DEF Cursors
    <3>3. CursorFits(records, links', cursors'[k], marks[k], k)
      BY <2>1, <2>4, <2>5, <3>1, <3>2, BindingAssumption DEF CursorFits
    <3>4. QED
      BY <2>1, <2>2, <3>2, <3>3
  <2>6. CASE OfIn(records, k) # {}
    <3>1. /\ last = LastIn(records, k) /\ last \in 1..Len(records) /\ records[last].task = k
          /\ WhereIn(records, k) = records[last].wt
      BY <1>3, <2>6, LastIsLast, WhereIsWorktree DEF OfIn
    <3>2. /\ records[last].at \in Nat /\ records[last].at > 0 /\ records[last].at <= marks[k]
          /\ records[last].wt \in Worktrees /\ last \in Nat /\ last # 0
      BY <1>3, <1>4, <3>1
    <3>3. marks[k] # 0 /\ marks[k] >= records[last].at
      BY <2>3, <3>2
    <3> DEFINE c == [at |-> marks[k], current |-> FrozenLink(WhereIn(records, k)), history |-> last]
    <3>4. cursors'[k] = c
      BY <2>1, <3>3
    <3>5. /\ c.at = marks[k] /\ c.current = FrozenLink(WhereIn(records, k)) /\ c.history = last
          /\ c \in Cursors
      BY <2>3, <2>4, <3>2 DEF Cursors
    <3>6. /\ c.current[1] = records[last].wt /\ c.current # None
          /\ links'[last].dest = c.current
      BY <1>5, <1>6, <2>3, <2>4, <2>6, <3>1, <3>5
    <3>7. c # None
      BY <3>5, BindingAssumption
    <3> HIDE DEF c, last
    <3>8. CursorFits(records, links', c, marks[k], k)
      BY <2>6, <3>1, <3>2, <3>3, <3>5, <3>6, <3>7 DEF CursorFits
    <3>9. QED
      BY <2>2, <3>4, <3>5, <3>8
  <2>7. QED
    BY <2>5, <2>6
<1>10. BindingTypes'
  <2>1. cursors' \in [Tasks -> Cursors \cup {None}]
    BY <1>2, <1>9
  <2>2. QED
    BY <1>1, <1>2, <1>7, <2>1 DEF BindingTypes
<1>11. HistoryIn(records)' /\ RecordsTimed' /\ AckedApplied'
  BY <1>1, <1>2 DEF RecordsTimed, AckedApplied
<1>12. TodoFits'
  <2>1. update'.todo = <<>> /\ Len(<<>>) = 0 /\ update'.pc = "idle" /\ update' = NoUpdate
    BY <1>2, EmptySeq DEF NoUpdate
  <2>2. QED
    BY <2>1 DEF TodoFits, Distinct
<1>13. NewestKept' /\ FilesFinished' /\ SqlKept'
  BY <1>1, <1>2, <1>8, <1>9, SameWhere DEF NewestKept, Expected, FilesFinished, SqlKept
<1>14. QED
  BY <1>10, <1>11, <1>12, <1>13 DEF BindingsInv

\* Only the incarnations of the worktrees change, or nothing does.
LEMMA LifeKeeps ==
  ASSUME BindingsInv, life' \in [Worktrees -> Nat],
         UNCHANGED <<store, fileVars, sqlVars, update, acked, history, cuts>>
  PROVE  BindingsInv'
<1> USE DEF fileVars, sqlVars, history
<1>1. /\ BindingTypes /\ HistoryIn(records) /\ RecordsTimed /\ TodoFits
      /\ NewestKept /\ AckedApplied /\ FilesFinished /\ SqlKept
  BY DEF BindingsInv
<1>2. HistoryIn(records)' /\ RecordsTimed' /\ SqlKept' /\ AckedApplied'
  BY <1>1, SameHistory
<1>3. BindingTypes' /\ FilesFinished'
  BY <1>1 DEF BindingTypes, FilesFinished, NoUpdate
<1>4. Additions(update.obs)' = Additions(update.obs)
  <2>1. PICK o : o = update.obs
    OBVIOUS
  <2>2. Additions(o)' = Additions(o)
    BY SameAdditions
  <2>3. Additions(update.obs) = Additions(o) /\ Additions(update.obs)' = Additions(o)'
    BY <2>1
  <2>4. QED
    BY <2>2, <2>3
<1>5. TodoFits'
  BY <1>1, <1>4 DEF TodoFits
<1>6. NewestKept'
  BY <1>1, SameWhere DEF NewestKept, Expected
<1>7. QED
  BY <1>2, <1>3, <1>5, <1>6 DEF BindingsInv

LEMMA BindingsStep == BindingsInv /\ [BindingsNext]_bindingVars => BindingsInv'
<1> SUFFICES ASSUME BindingsInv, [BindingsNext]_bindingVars PROVE BindingsInv'
  OBVIOUS
<1>1. ASSUME NEW o \in Observations, ObserveFile(o) PROVE BindingsInv'
  BY <1>1, ObserveFileKeeps
<1>2. ASSUME NEW o \in Observations, ObserveSql(o) PROVE BindingsInv'
  BY <1>2, ObserveSqlKeeps
<1>3. CASE WritePending
  BY <1>3, WritePendingKeeps
<1>4. CASE PublishWatermarks
  BY <1>4, PublishWatermarksKeeps
<1>5. CASE AppendRecord
  BY <1>5, AppendRecordKeeps
<1>6. CASE AnswerObservation
  BY <1>6, AnswerObservationKeeps
<1>7. CASE InterruptUpdate
  BY <1>7, InterruptUpdateKeeps
<1>8. CASE Activate
  BY <1>8, ActivateKeeps
<1>9. ASSUME NEW w \in Worktrees, MoveWorktree(w) PROVE BindingsInv'
  <2>1. life' \in [Worktrees -> Nat]
    BY <1>9 DEF MoveWorktree, BindingsInv, BindingTypes
  <2>2. QED
    BY <1>9, <2>1, LifeKeeps DEF MoveWorktree
<1>10. CASE UNCHANGED bindingVars
  <2>1. life' \in [Worktrees -> Nat]
    BY <1>10 DEF bindingVars, BindingsInv, BindingTypes
  <2>2. QED
    BY <1>10, <2>1, LifeKeeps DEF bindingVars
<1>11. QED
  BY <1>1, <1>2, <1>3, <1>4, <1>5, <1>6, <1>7, <1>8, <1>9, <1>10 DEF BindingsNext

LEMMA BindingsInductive == BindingsSpec => []BindingsInv
<1>1. BindingsInit => BindingsInv
  BY BindingsStart
<1>2. BindingsInv /\ [BindingsNext]_bindingVars => BindingsInv'
  BY BindingsStep
<1>3. QED
  BY <1>1, <1>2, PTL DEF BindingsSpec

-----------------------------------------------------------------------------
\* Whatever arrives in whatever order, is cut off or imported, the next
\* operation finds the stored history valid and, in the SQL store, its links
\* and cursors in agreement with it; the files are refused exactly after an
\* update was cut off inside one of them, and from then on by every operation
\* (read_binding_watermarks, read_binding_records, validate_bindings).
THEOREM BindingsStayReadable == BindingsSpec => []BindingsReadable
<1>1. BindingsInv => BindingsReadable
  <2> SUFFICES ASSUME BindingsInv PROVE BindingsReadable
    OBVIOUS
  <2>1. HistoryValid /\ FilesFinished /\ (store = "sql" => TablesReadable)
    BY HistoryIsValid DEF BindingsInv, TablesReadable, SqlKept
  <2>2. update = NoUpdate => (FilesReadable <=> ~broken)
    BY <2>1 DEF FilesFinished, FilesReadable, WatermarksReadable, NoUpdate
  <2>3. QED
    BY <2>1, <2>2 DEF BindingsReadable
<1>2. QED
  BY <1>1, BindingsInductive, PTL

\* A late observation undoes nothing that a newer one said, and an answered one
\* has been applied or overtaken (update_bindings, the watermarks).
THEOREM NewestObservationWins == BindingsSpec => []NewestObservationHolds
<1>1. BindingsInv => NewestObservationHolds
  BY DEF BindingsInv, NewestObservationHolds, NewestKept, AckedApplied, Expected
<1>2. QED
  BY <1>1, BindingsInductive, PTL

\* The variables of the bindings have their types, and only an interrupted
\* update leaves an unfinished file behind.
THEOREM BindingsTypeCorrect == BindingsSpec => []BindingsTypeOK
<1>1. BindingsInv => BindingsTypeOK
  BY DEF BindingsInv, BindingsTypeOK, BindingTypes, FilesFinished, NoUpdate
<1>2. QED
  BY <1>1, BindingsInductive, PTL
=============================================================================
