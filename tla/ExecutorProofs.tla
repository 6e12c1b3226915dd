--------------------------- MODULE ExecutorProofs ---------------------------
(***************************************************************************)
(* The executor keeps its reservations, its service order and its receipts *)
(* for every number of connections, mutations, queries and reservations.   *)
(***************************************************************************)
EXTENDS Executor, SequenceTheorems, FiniteSetTheorems, TLAPS

Barred == IF pending = NoLink THEN <<>> ELSE <<pending>>

\* The thread holds a group exactly between two receives, and collects only
\* while it has no barrier in hand.
PhaseShape ==
  /\ phase = "recv" <=> group = <<>>
  /\ phase = "collect" => pending = NoLink

\* The unanswered jobs, each once, are the links whose reservation travels
\* with an accepted job.
OrderShape ==
  /\ \A i, j \in 1..Len(order) : order[i] = order[j] => i = j
  /\ \A l \in Links : l \in Accepted <=> InRange(l, order)

\* Permits and reservations in use add up (and there are finitely many).
Conserved == IsFiniteSet(Held) /\ ReservationsConserved

ShapeInv == ExecTypeOK /\ PhaseShape /\ FifoService /\ OrderShape

\* A link without an accepted job has neither command nor answer.
Blank ==
  \A l \in Links : loc[l] \in {"none", "serve"} =>
    job[l] = NoCommand /\ result[l] = NoAnswer

\* All members of a cohort that is still to be executed have one command.
OneCommand ==
  phase \in {"collect", "execute"} =>
    \A k \in 1..Len(group) : job[group[k]] = job[group[1]]

\* Admissions are no newer than the store.
SeenPast == \A l \in Links : seen[l] <= Len(log)

AnswerInv == Blank /\ OneCommand /\ SeenPast /\ FreshAnswers /\ TrueAnswers

IInv == ShapeInv /\ Conserved /\ AnswerInv

-----------------------------------------------------------------------------
\* Facts about sequences.

LEMMA AppendConcat ==
  ASSUME NEW S, NEW s \in Seq(S), NEW t \in Seq(S), NEW u \in Seq(S), NEW e \in S
  PROVE  s \o t \o Append(u, e) = Append(s \o t \o u, e)
BY AppendProperties, ConcatProperties, ConcatAssociative, SMTT(30)

LEMMA HeadSplit ==
  ASSUME NEW S, NEW s \in Seq(S), s # <<>>
  PROVE  /\ s = <<Head(s)>> \o Tail(s)
         /\ Head(s) \in S /\ Tail(s) \in Seq(S)
         /\ Len(Tail(s)) = Len(s) - 1
         /\ \A k \in 1..Len(Tail(s)) : Tail(s)[k] = s[k + 1]
<1>1. /\ Head(s) \in S /\ Tail(s) \in Seq(S) /\ Len(Tail(s)) = Len(s) - 1
      /\ \A k \in 1..Len(Tail(s)) : Tail(s)[k] = s[k + 1]
  BY HeadTailProperties
<1>2. Len(s) \in Nat \ {0} /\ Head(s) = s[1]
  BY EmptySeq
<1>3. s = <<Head(s)>> \o Tail(s)
  <2>1. <<Head(s)>> \in Seq(S) /\ Len(<<Head(s)>>) = 1
    BY <1>1
  <2>2. /\ <<Head(s)>> \o Tail(s) \in Seq(S)
        /\ Len(<<Head(s)>> \o Tail(s)) = Len(s)
        /\ \A i \in 1..Len(s) : (<<Head(s)>> \o Tail(s))[i] = s[i]
    BY <1>1, <1>2, <2>1, ConcatProperties
  <2>3. QED
    BY <2>2, SeqEqual
<1>4. QED
  BY <1>1, <1>3

\* Tail, kept folded so that the provers do not rewrite it away.
Rest(s) == Tail(s)

LEMMA TailConcat ==
  ASSUME NEW S, NEW s \in Seq(S), NEW t \in Seq(S), NEW u \in Seq(S), s # <<>>
  PROVE  /\ Rest(s) \o t \o u = Rest(s \o t \o u)
         /\ Head(s \o t \o u) = Head(s)
         /\ s \o t \o u # <<>>
<1>1. s = <<Head(s)>> \o Tail(s) /\ Head(s) \in S /\ Tail(s) \in Seq(S)
  BY HeadSplit
<1>2. Len(s) \in Nat \ {0} /\ Len(Tail(s)) = Len(s) - 1
  BY EmptySeq, HeadSplit
<1>3. DEFINE w == s \o t \o u
<1>4. /\ w \in Seq(S) /\ Len(w) = Len(s) + Len(t) + Len(u)
      /\ \A i \in 1..Len(w) : w[i] = IF i <= Len(s) THEN s[i]
                                     ELSE IF i <= Len(s) + Len(t) THEN t[i - Len(s)]
                                     ELSE u[i - (Len(s) + Len(t))]
  BY ConcatProperties, LenProperties
<1>5. DEFINE v == Tail(s) \o t \o u
<1>6. /\ v \in Seq(S) /\ Len(v) = Len(s) - 1 + Len(t) + Len(u)
      /\ \A i \in 1..Len(v) : v[i] = IF i <= Len(s) - 1 THEN Tail(s)[i]
                                ELSE IF i <= Len(s) - 1 + Len(t) THEN t[i - (Len(s) - 1)]
                                ELSE u[i - (Len(s) - 1 + Len(t))]
  BY <1>1, <1>2, ConcatProperties, LenProperties
<1>7. w # <<>>
  BY <1>2, <1>4, EmptySeq, LenProperties
<1>8. /\ Tail(w) \in Seq(S) /\ Len(Tail(w)) = Len(w) - 1
      /\ \A i \in 1..Len(Tail(w)) : Tail(w)[i] = w[i + 1]
  BY <1>4, <1>7, HeadSplit
<1>9. \A i \in 1..Len(v) : v[i] = Tail(w)[i]
  BY <1>2, <1>4, <1>6, <1>8, HeadSplit, LenProperties
<1>10. v = Tail(w)
  BY <1>2, <1>4, <1>6, <1>8, <1>9, SeqEqual, LenProperties, SMTT(30)
<1>11. Head(w) = Head(s)
  BY <1>2, <1>4, LenProperties
<1>12. QED
  BY <1>7, <1>10, <1>11 DEF Rest

LEMMA RestConcat ==
  ASSUME NEW S, NEW s \in Seq(S), NEW t \in Seq(S), NEW u \in Seq(S), s # <<>>
  PROVE  Rest(s) \o t \o u = Rest(s \o t \o u)
BY TailConcat

-----------------------------------------------------------------------------
\* Facts about states.

LEMMA AnswersTyped == NoAnswer \in Answer /\ ErrorAnswer \in Answer
                      /\ \A n \in Nat : OkAnswer(n) \in Answer
BY DEF NoAnswer, ErrorAnswer, OkAnswer, Answer

LEMMA BarredTyped == ASSUME ExecTypeOK PROVE Barred \in Seq(Links)
BY EmptySeq DEF Barred, ExecTypeOK

\* The group is the oldest part of the order and the channel the youngest.
LEMMA OrderParts ==
  ASSUME ShapeInv
  PROVE  /\ Len(order) = Len(group) + Len(Barred) + Len(queue)
         /\ \A k \in 1..Len(group) : k \in 1..Len(order) /\ group[k] = order[k]
         /\ \A k \in 1..Len(queue) : InRange(queue[k], order)
         /\ pending # NoLink => InRange(pending, order)
<1>1. /\ group \in Seq(Links) /\ queue \in Seq(Links) /\ Barred \in Seq(Links)
      /\ order = group \o Barred \o queue
  BY BarredTyped DEF ShapeInv, ExecTypeOK, FifoService, Barred
<1>2. /\ Len(group) \in Nat /\ Len(queue) \in Nat /\ Len(Barred) \in Nat
      /\ group \o Barred \in Seq(Links)
      /\ Len(group \o Barred) = Len(group) + Len(Barred)
      /\ \A i \in 1..Len(group) + Len(Barred) : (group \o Barred)[i] =
           IF i <= Len(group) THEN group[i] ELSE Barred[i - Len(group)]
  BY <1>1, ConcatProperties, LenProperties
<1>3. /\ Len(order) = Len(group) + Len(Barred) + Len(queue)
      /\ \A i \in 1..Len(order) : order[i] =
           IF i <= Len(group) + Len(Barred) THEN (group \o Barred)[i]
           ELSE queue[i - (Len(group) + Len(Barred))]
  BY <1>1, <1>2, ConcatProperties
<1>4. \A k \in 1..Len(group) : k \in 1..Len(order) /\ group[k] = order[k]
  BY <1>2, <1>3
<1>5. ASSUME NEW k \in 1..Len(queue) PROVE InRange(queue[k], order)
  <2>1. /\ Len(group) + Len(Barred) + k \in 1..Len(order)
        /\ ~(Len(group) + Len(Barred) + k <= Len(group) + Len(Barred))
        /\ (Len(group) + Len(Barred) + k) - (Len(group) + Len(Barred)) = k
    BY <1>2, <1>3
  <2>2. order[Len(group) + Len(Barred) + k] = queue[k]
    BY <1>3, <2>1
  <2>3. QED
    BY <2>1, <2>2 DEF InRange
<1>6. ASSUME pending # NoLink PROVE InRange(pending, order)
  <2>1. Len(Barred) = 1 /\ Barred[1] = pending
    BY <1>6 DEF Barred
  <2>2. Len(group) + 1 \in 1..Len(order) /\ order[Len(group) + 1] = pending
    BY <1>2, <1>3, <2>1
  <2>3. QED
    BY <2>2 DEF InRange
<1>7. QED
  BY <1>3, <1>4, <1>5, <1>6

-----------------------------------------------------------------------------
(***************************************************************************)
(* Types, phases and the service order.                                    *)
(***************************************************************************)

LEMMA InitShape == ExecInit => ShapeInv
<1> SUFFICES ASSUME ExecInit PROVE ShapeInv
  OBVIOUS
<1>1. ExecTypeOK
  BY ExecutorAssumption, EmptySeq, AnswersTyped DEF ExecInit, ExecTypeOK, Location
<1>2. order = group \o Barred \o queue
  BY ConcatEmptySeq, EmptySeq DEF ExecInit, Barred
<1>3. OrderShape
  BY EmptySeq DEF ExecInit, OrderShape, Accepted, InRange
<1>4. QED
  BY <1>1, <1>2, <1>3 DEF ExecInit, ShapeInv, PhaseShape, FifoService, Barred

\* Steps that move reservations outside the thread's hands keep the shape.
LEMMA QuietShape ==
  ASSUME ShapeInv, ExecTypeOK', UNCHANGED threadVars, Accepted' = Accepted
  PROVE  ShapeInv'
BY DEF ShapeInv, PhaseShape, FifoService, OrderShape, threadVars, InRange

LEMMA ReleaseTypes ==
  ASSUME ExecTypeOK, NEW l \in Links, Release(l)
  PROVE  /\ free' \in Nat
         /\ loc' \in [Links -> Location]
         /\ job' \in [Links -> Commands \cup {NoCommand}]
         /\ result' \in [Links -> Answer]
         /\ l \notin Accepted'
         /\ \A k \in Links \ {l} : loc'[k] = loc[k]
BY AnswersTyped DEF ExecTypeOK, Release, Location, Accepted

LEMMA TaskShape ==
  ASSUME ShapeInv, NEW l \in Links, ServeTask(l)
  PROVE  ShapeInv'
<1> USE DEF ShapeInv
<1>1. CASE Reserve(l)
  <2>1. ExecTypeOK'
    BY <1>1 DEF Reserve, ExecTypeOK, Location, threadVars
  <2>2. Accepted' = Accepted
    BY <1>1 DEF Reserve, ExecTypeOK, Accepted
  <2>3. QED
    BY <1>1, <2>1, <2>2, QuietShape DEF Reserve, threadVars
<1>2. CASE Forfeit(l)
  <2>1. ExecTypeOK'
    BY <1>2, ReleaseTypes DEF Forfeit, ExecTypeOK, threadVars
  <2>2. Accepted' = Accepted
    BY <1>2, ReleaseTypes DEF Forfeit, Accepted
  <2>3. QED
    BY <1>2, <2>1, <2>2, QuietShape DEF Forfeit, threadVars
<1>3. CASE Disconnect(l)
  <2>1. ExecTypeOK'
    BY <1>3, ReleaseTypes DEF Disconnect, ExecTypeOK, threadVars
  <2>2. Accepted' = Accepted
    BY <1>3, ReleaseTypes DEF Disconnect, Accepted
  <2>3. QED
    BY <1>3, <2>1, <2>2, QuietShape DEF Disconnect, threadVars
<1>4. CASE TakeReply(l)
  <2>1. ExecTypeOK'
    BY <1>4 DEF TakeReply, ExecTypeOK, Location, threadVars
  <2>2. Accepted' = Accepted
    BY <1>4 DEF TakeReply, ExecTypeOK, Accepted
  <2>3. QED
    BY <1>4, <2>1, <2>2, QuietShape DEF TakeReply, threadVars
<1>5. CASE DropCompleted(l)
  <2>1. ExecTypeOK'
    BY <1>5, ReleaseTypes DEF DropCompleted, ExecTypeOK, threadVars
  <2>2. Accepted' = Accepted
    BY <1>5, ReleaseTypes DEF DropCompleted, Accepted
  <2>3. QED
    BY <1>5, <2>1, <2>2, QuietShape DEF DropCompleted, threadVars
<1>6. ASSUME NEW x \in Commands, Submit(l, x) PROVE ShapeInv'
  <2>1. CASE Len(queue) < MaxExchanges
    <3>1. /\ queue' = Append(queue, l) /\ order' = Append(order, l)
          /\ UNCHANGED <<pending, group, phase>>
          /\ loc[l] = "serve" /\ loc' = [loc EXCEPT ![l] = "queue"]
      BY <1>6, <2>1 DEF Submit
    <3>2. ExecTypeOK'
      <4>1. queue' \in Seq(Links) /\ order' \in Seq(Links)
        BY <3>1, AppendProperties DEF ExecTypeOK
      <4>2. QED
        BY <1>6, <2>1, <4>1 DEF Submit, ExecTypeOK, Location
    <3>3. FifoService'
      <4>1. /\ group \in Seq(Links) /\ queue \in Seq(Links) /\ Barred \in Seq(Links)
            /\ Barred' = Barred /\ order = group \o Barred \o queue
        BY <3>1, BarredTyped DEF FifoService, Barred, ExecTypeOK
      <4>2. group \o Barred \o Append(queue, l) = Append(order, l)
        BY <4>1, AppendConcat, SMTT(30)
      <4>3. order' = group' \o Barred' \o queue'
        BY <3>1, <4>1, <4>2
      <4>4. QED
        BY <4>3 DEF FifoService, Barred
    <3>4. Accepted' = Accepted \cup {l} /\ l \notin Accepted
      BY <3>1 DEF Accepted, ExecTypeOK
    <3>5. /\ Len(order) \in Nat /\ Len(order') = Len(order) + 1
          /\ order'[Len(order) + 1] = l
          /\ \A i \in 1..Len(order) : order'[i] = order[i]
      BY <3>1, AppendProperties, LenProperties DEF ExecTypeOK
    <3>6. ~InRange(l, order)
      BY <3>4 DEF OrderShape
    <3>7. OrderShape'
      <4>1. \A i, j \in 1..Len(order') : order'[i] = order'[j] => i = j
        BY <3>5, <3>6 DEF OrderShape, InRange
      <4>2. \A k \in Links : InRange(k, order') <=> InRange(k, order) \/ k = l
        BY <3>5 DEF InRange
      <4>3. QED
        BY <3>4, <4>1, <4>2 DEF OrderShape
    <3>8. QED
      BY <3>1, <3>2, <3>3, <3>7 DEF PhaseShape
  <2>2. CASE ~(Len(queue) < MaxExchanges)
    <3>1. ExecTypeOK'
      BY <1>6, <2>2, ReleaseTypes DEF Submit, ExecTypeOK
    <3>2. Accepted' = Accepted
      BY <1>6, <2>2, ReleaseTypes DEF Submit, Accepted
    <3>3. QED
      BY <1>6, <2>2, <3>1, <3>2, QuietShape DEF Submit, threadVars
  <2>3. QED
    BY <2>1, <2>2
<1>7. QED
  BY <1>1, <1>2, <1>3, <1>4, <1>5, <1>6 DEF ServeTask

\* A reservation that stays in the thread's hands keeps the accepted set.
LEMMA MoveAccepted ==
  ASSUME ExecTypeOK, NEW l \in Accepted, NEW p \in {"queue", "pending", "group"},
         loc' = [loc EXCEPT ![l] = p]
  PROVE  Accepted' = Accepted /\ loc' \in [Links -> Location]
BY DEF ExecTypeOK, Accepted, Location

\* Steps of the thread that move jobs but answer none of them.
LEMMA SameOrder ==
  ASSUME ShapeInv, UNCHANGED order, Accepted' = Accepted
  PROVE  OrderShape'
BY DEF ShapeInv, OrderShape, InRange

LEMMA FifoForm == FifoService <=> order = group \o Barred \o queue
BY DEF FifoService, Barred

\* The heads of the thread's sequences are accepted links.
LEMMA HeadsAccepted ==
  ASSUME ShapeInv
  PROVE  /\ pending # NoLink => pending \in Accepted
         /\ queue # <<>> => Head(queue) \in Accepted
         /\ \A k \in 1..Len(group) : group[k] \in Accepted
<1>1. \A l \in Links : InRange(l, order) => l \in Accepted
  BY DEF ShapeInv, OrderShape
<1>2. pending # NoLink => pending \in Links
  BY DEF ShapeInv, ExecTypeOK
<1>3. ASSUME queue # <<>> PROVE Head(queue) \in Accepted
  <2>1. queue \in Seq(Links)
    BY DEF ShapeInv, ExecTypeOK
  <2>2. Head(queue) \in Links /\ Head(queue) = queue[1] /\ 1 \in 1..Len(queue)
    BY <1>3, <2>1, HeadTailProperties, EmptySeq
  <2>3. QED
    BY <1>1, <2>2, OrderParts
<1>4. ASSUME NEW k \in 1..Len(group) PROVE group[k] \in Accepted
  <2>1. group[k] \in Links
    BY ElementOfSeq DEF ShapeInv, ExecTypeOK
  <2>2. InRange(group[k], order)
    BY OrderParts DEF InRange
  <2>3. QED
    BY <1>1, <2>1, <2>2
<1>5. QED
  BY <1>1, <1>2, <1>3, <1>4, OrderParts

LEMMA RecvShape ==
  ASSUME ShapeInv, RecvPending \/ RecvQueue
  PROVE  ShapeInv'
<1>1. ExecTypeOK /\ PhaseShape /\ FifoService /\ OrderShape
  BY DEF ShapeInv
<1>2. /\ group = <<>> /\ queue \in Seq(Links) /\ <<>> \in Seq(Links)
      /\ NoLink \notin Links
  BY <1>1, EmptySeq, ExecutorAssumption
  DEF PhaseShape, ExecTypeOK, RecvPending, RecvQueue
<1>3. CASE RecvPending
  <2>1. /\ pending \in Links /\ pending # NoLink /\ pending \in Accepted
        /\ group' = <<pending>> /\ pending' = NoLink /\ queue' = queue
        /\ order' = order /\ loc' = [loc EXCEPT ![pending] = "group"]
        /\ phase' \in {"collect", "execute"}
    BY <1>1, <1>3, HeadsAccepted DEF RecvPending, ExecTypeOK, FirstPhase
  <2>2. Accepted' = Accepted /\ loc' \in [Links -> Location]
    BY <1>1, <2>1, MoveAccepted
  <2>3. group' \in Seq(Links) /\ group' # <<>>
    BY <2>1
  <2>4. ExecTypeOK'
    BY <1>1, <1>3, <2>1, <2>2, <2>3 DEF RecvPending, ExecTypeOK
  <2>5. Barred = <<pending>> /\ Barred' = <<>>
    BY <2>1 DEF Barred
  <2>6. order = <<>> \o <<pending>> \o queue
    BY <1>1, <1>2, <2>5, FifoForm
  <2>7. order = <<pending>> \o <<>> \o queue
    BY <2>1, <2>3, <2>6, ConcatEmptySeq
  <2>8. FifoService'
    BY <2>1, <2>5, <2>7 DEF FifoService, Barred
  <2>9. QED
    BY <2>1, <2>2, <2>3, <2>4, <2>8, SameOrder DEF ShapeInv, PhaseShape
<1>4. CASE RecvQueue
  <2>1. /\ pending = NoLink /\ queue # <<>> /\ Head(queue) \in Accepted
        /\ group' = <<Head(queue)>> /\ pending' = NoLink /\ queue' = Tail(queue)
        /\ order' = order /\ loc' = [loc EXCEPT ![Head(queue)] = "group"]
        /\ phase' \in {"collect", "execute"}
    BY <1>4, HeadsAccepted DEF RecvQueue, FirstPhase
  <2>2. Accepted' = Accepted /\ loc' \in [Links -> Location]
    BY <1>1, <2>1, MoveAccepted
  <2>3. /\ Head(queue) \in Links /\ Tail(queue) \in Seq(Links)
        /\ queue = <<Head(queue)>> \o Tail(queue)
    BY <1>2, <2>1, HeadSplit
  <2>4. group' \in Seq(Links) /\ group' # <<>>
    BY <2>1, <2>3
  <2>5. ExecTypeOK'
    BY <1>1, <1>4, <2>1, <2>2, <2>3, <2>4 DEF RecvQueue, ExecTypeOK
  <2>6. Barred = <<>> /\ Barred' = <<>>
    BY <2>1 DEF Barred
  <2>7. order = <<>> \o <<>> \o queue
    BY <1>1, <1>2, <2>6, FifoForm
  <2>8. order = queue
    BY <1>2, <2>7, ConcatEmptySeq
  <2>9. <<Head(queue)>> \o <<>> = <<Head(queue)>>
    BY <2>1, <2>4, ConcatEmptySeq
  <2>10. order = <<Head(queue)>> \o <<>> \o Tail(queue)
    BY <2>3, <2>8, <2>9
  <2>11. FifoService'
    BY <2>1, <2>6, <2>10 DEF FifoService, Barred
  <2>12. QED
    BY <2>1, <2>2, <2>4, <2>5, <2>11, SameOrder DEF ShapeInv, PhaseShape
<1>5. QED
  BY <1>3, <1>4

LEMMA CollectShape ==
  ASSUME ShapeInv, Join \/ Barrier \/ CloseWindow
  PROVE  ShapeInv'
<1>1. ExecTypeOK /\ PhaseShape /\ FifoService /\ OrderShape
  BY DEF ShapeInv
<1>2. /\ phase = "collect" /\ pending = NoLink /\ group # <<>>
      /\ group \in Seq(Links) /\ queue \in Seq(Links) /\ NoLink \notin Links
  BY <1>1, ExecutorAssumption DEF PhaseShape, ExecTypeOK, Join, Barrier, CloseWindow
<1>3. order = group \o <<>> \o queue /\ Barred = <<>>
  BY <1>1, <1>2, FifoForm DEF Barred
<1>4. group \o <<>> = group
  BY <1>2, ConcatEmptySeq
<1>5. ASSUME queue # <<>>
      PROVE  /\ Head(queue) \in Links /\ Head(queue) \in Accepted
             /\ <<Head(queue)>> \in Seq(Links) /\ Tail(queue) \in Seq(Links)
             /\ order = (group \o <<Head(queue)>>) \o Tail(queue)
  <2>1. /\ Head(queue) \in Links /\ Tail(queue) \in Seq(Links)
        /\ queue = <<Head(queue)>> \o Tail(queue)
    BY <1>2, <1>5, HeadSplit
  <2>2. order = group \o (<<Head(queue)>> \o Tail(queue)) /\ <<Head(queue)>> \in Seq(Links)
    BY <1>3, <1>4, <2>1
  <2>3. (group \o <<Head(queue)>>) \o Tail(queue) = group \o (<<Head(queue)>> \o Tail(queue))
    BY <1>2, <2>1, <2>2, ConcatAssociative
  <2>4. QED
    BY <1>5, <2>1, <2>2, <2>3, HeadsAccepted
<1>6. CASE Join
  <2>1. /\ queue # <<>> /\ group' = Append(group, Head(queue))
        /\ queue' = Tail(queue) /\ pending' = NoLink /\ order' = order
        /\ loc' = [loc EXCEPT ![Head(queue)] = "group"] /\ phase' = phase
    BY <1>2, <1>6 DEF Join
  <2>2. Accepted' = Accepted /\ loc' \in [Links -> Location]
    BY <1>1, <1>5, <2>1, MoveAccepted
  <2>3. /\ group' = group \o <<Head(queue)>> /\ group' \in Seq(Links)
        /\ group' # <<>>
    BY <1>2, <1>5, <2>1, AppendProperties, AppendIsConcat
  <2>4. ExecTypeOK'
    BY <1>1, <1>5, <1>6, <2>1, <2>2, <2>3 DEF Join, ExecTypeOK
  <2>5. group' \o <<>> = group'
    BY <2>3, ConcatEmptySeq
  <2>6. order' = group' \o <<>> \o queue' /\ Barred' = <<>>
    BY <1>5, <2>1, <2>3, <2>5 DEF Barred
  <2>7. FifoService'
    BY <2>6 DEF FifoService, Barred
  <2>8. QED
    BY <1>2, <2>1, <2>2, <2>3, <2>4, <2>7, SameOrder DEF ShapeInv, PhaseShape
<1>7. CASE Barrier
  <2>1. /\ queue # <<>> /\ pending' = Head(queue) /\ queue' = Tail(queue)
        /\ group' = group /\ order' = order
        /\ loc' = [loc EXCEPT ![Head(queue)] = "pending"] /\ phase' = "execute"
    BY <1>7 DEF Barrier
  <2>2. Accepted' = Accepted /\ loc' \in [Links -> Location]
    BY <1>1, <1>5, <2>1, MoveAccepted
  <2>3. ExecTypeOK'
    BY <1>1, <1>5, <1>7, <2>1, <2>2 DEF Barrier, ExecTypeOK
  <2>4. Barred' = <<Head(queue)>>
    BY <1>2, <1>5, <2>1 DEF Barred
  <2>5. order' = group' \o Barred' \o queue'
    BY <1>5, <2>1, <2>4
  <2>6. FifoService'
    BY <2>5 DEF FifoService, Barred
  <2>7. QED
    BY <1>2, <2>1, <2>2, <2>3, <2>6, SameOrder DEF ShapeInv, PhaseShape
<1>8. CASE CloseWindow
  <2>1. UNCHANGED <<loc, queue, group, pending, order>> /\ phase' = "execute"
    BY <1>8 DEF CloseWindow
  <2>2. ExecTypeOK' /\ Accepted' = Accepted
    BY <1>1, <1>8 DEF CloseWindow, ExecTypeOK, Accepted
  <2>3. FifoService'
    BY <1>1, <2>1 DEF FifoService
  <2>4. QED
    BY <1>2, <2>1, <2>2, <2>3, SameOrder DEF ShapeInv, PhaseShape
<1>9. QED
  BY <1>6, <1>7, <1>8

LEMMA AnsweredTypes ==
  ASSUME ExecTypeOK, NEW failed, NEW answer \in Answer, Answered(failed, answer)
  PROVE  result' \in [Links -> Answer]
BY AnswersTyped DEF ExecTypeOK, Answered

LEMMA ExecuteShape ==
  ASSUME ShapeInv, Execute
  PROVE  ShapeInv'
<1>1. ExecTypeOK /\ PhaseShape /\ FifoService /\ OrderShape
  BY DEF ShapeInv
<1>2. /\ phase = "execute" /\ phase' = "deliver"
      /\ UNCHANGED <<owner, free, loc, waiting, job, queue, pending, group,
                     order, seen>>
  BY DEF Execute, ExecuteQuery, ReplayMutation, CommitMutation, RefuseMutation
<1>3. log' \in Seq(Mutations)
  <2>1. CASE CommitMutation
    <3>1. log \in Seq(Mutations) /\ job[group[1]] \in Mutations
      BY <1>1, <2>1 DEF ExecTypeOK, CommitMutation
    <3>2. Append(log, job[group[1]]) \in Seq(Mutations)
      BY <3>1, AppendProperties
    <3>3. QED
      BY <2>1, <3>2 DEF CommitMutation
  <2>2. CASE ExecuteQuery \/ ReplayMutation \/ RefuseMutation
    BY <1>1, <2>2 DEF ExecTypeOK, ExecuteQuery, ReplayMutation, RefuseMutation
  <2>3. QED
    BY <2>1, <2>2 DEF Execute
<1>4. result' \in [Links -> Answer]
  <2>1. Len(log) \in Nat
    BY <1>1, LenProperties DEF ExecTypeOK
  <2>2. \E failed : \E answer \in Answer : Answered(failed, answer)
    <3>1. CASE ExecuteQuery
      BY <3>1, <2>1, AnswersTyped DEF ExecuteQuery
    <3>2. CASE ReplayMutation
      BY <3>2, <2>1, AnswersTyped DEF ReplayMutation
    <3>3. CASE CommitMutation
      BY <3>3, <2>1, AnswersTyped DEF CommitMutation
    <3>4. CASE RefuseMutation
      BY <3>4, AnswersTyped DEF RefuseMutation
    <3>5. QED
      BY <3>1, <3>2, <3>3, <3>4 DEF Execute
  <2>3. QED
    BY <1>1, <2>2, AnsweredTypes
<1>5. ExecTypeOK' /\ Accepted' = Accepted
  BY <1>1, <1>2, <1>3, <1>4 DEF ExecTypeOK, Accepted
<1>6. FifoService' /\ PhaseShape'
  BY <1>1, <1>2 DEF FifoService, PhaseShape
<1>7. QED
  BY <1>2, <1>5, <1>6, SameOrder DEF ShapeInv

\* The thread answers the oldest accepted job.
LEMMA DeliverFacts ==
  ASSUME ShapeInv, Deliver
  PROVE  /\ Head(group) = group[1] /\ Head(group) \in Links
         /\ Head(group) \in Accepted /\ Head(group) = Head(order)
         /\ group # <<>> /\ Len(group) \in Nat \ {0}
         /\ order # <<>> /\ order' = Tail(order)
         /\ Accepted' = Accepted \ {Head(group)}
         /\ \A k \in Links \ {Head(group)} : loc'[k] = loc[k]
<1>1. ExecTypeOK /\ PhaseShape /\ FifoService /\ OrderShape
  BY DEF ShapeInv
<1>2. group \in Seq(Links) /\ queue \in Seq(Links) /\ group # <<>>
  BY <1>1 DEF Deliver, PhaseShape, ExecTypeOK
<1>3. /\ Len(group) \in Nat \ {0} /\ 1 \in 1..Len(group)
      /\ Head(group) = group[1] /\ Head(group) \in Links
  BY <1>2, EmptySeq, HeadTailProperties
<1>4. Head(group) \in Accepted
  BY <1>3, HeadsAccepted
<1>5. order # <<>> /\ Head(order) = Head(group)
  BY <1>1, <1>2, BarredTyped, FifoForm, TailConcat
<1>6. /\ Accepted' = Accepted \ {Head(group)}
      /\ \A k \in Links \ {Head(group)} : loc'[k] = loc[k]
  BY <1>1, <1>3 DEF Deliver, Release, Accepted, ExecTypeOK
<1>7. QED
  BY <1>2, <1>3, <1>4, <1>5, <1>6 DEF Deliver

LEMMA DeliverShape ==
  ASSUME ShapeInv, Deliver
  PROVE  ShapeInv'
<1>1. ExecTypeOK /\ PhaseShape /\ FifoService /\ OrderShape
  BY DEF ShapeInv
<1>2. /\ group \in Seq(Links) /\ group # <<>> /\ queue \in Seq(Links)
      /\ order \in Seq(Links) /\ order # <<>> /\ Barred \in Seq(Links)
  BY <1>1, DeliverFacts, BarredTyped DEF ExecTypeOK
<1>3. /\ group' = Tail(group) /\ Tail(group) \in Seq(Links)
      /\ Len(Tail(group)) = Len(group) - 1 /\ Len(group) \in Nat
      /\ order' = Tail(order) /\ Tail(order) \in Seq(Links)
      /\ UNCHANGED <<queue, pending>>
      /\ phase' = IF Len(group) = 1 THEN "recv" ELSE "deliver"
  BY <1>2, HeadTailProperties, LenProperties DEF Deliver
<1>4. ExecTypeOK'
  <2>1. /\ free' \in Nat /\ loc' \in [Links -> Location]
        /\ job' \in [Links -> Commands \cup {NoCommand}]
        /\ result' \in [Links -> Answer]
    <3>1. CASE Head(group) \in waiting
      BY <3>1, <1>1 DEF Deliver, ExecTypeOK, Location
    <3>2. CASE Head(group) \notin waiting
      BY <3>2, <1>1, DeliverFacts, ReleaseTypes DEF Deliver
    <3>3. QED
      BY <3>1, <3>2
  <2>2. QED
    BY <1>1, <1>3, <2>1 DEF Deliver, ExecTypeOK
<1>5. PhaseShape'
  <2>1. Tail(group) # <<>> => Len(Tail(group)) \in Nat \ {0}
    BY <1>3, EmptySeq
  <2>2. Tail(group) = <<>> => Len(Tail(group)) = 0
    BY EmptySeq
  <2>3. Len(group) = 1 <=> Tail(group) = <<>>
    BY <1>3, <2>1, <2>2
  <2>4. QED
    BY <1>3, <2>3 DEF PhaseShape
<1>6. FifoService'
  <2>1. order = group \o Barred \o queue
    BY <1>1, FifoForm
  <2>2. Rest(group) \o Barred \o queue = Rest(group \o Barred \o queue)
    <3>1. /\ group \in Seq(Links) /\ Barred \in Seq(Links)
          /\ queue \in Seq(Links) /\ group # <<>>
      BY <1>2
    <3>2. QED
      BY ONLY <3>1, RestConcat
  <2>3. order' = Rest(order) /\ group' = Rest(group)
    BY <1>3 DEF Rest
  <2>4. order' = group' \o Barred \o queue
    BY <2>1, <2>2, <2>3
  <2>5. QED
    BY <1>3, <2>4 DEF FifoService, Barred
<1>7. OrderShape'
  <2>1. /\ Len(order) \in Nat \ {0} /\ Len(Tail(order)) = Len(order) - 1
        /\ \A k \in 1..Len(Tail(order)) : Tail(order)[k] = order[k + 1]
        /\ Head(order) = order[1]
    BY <1>2, HeadTailProperties, EmptySeq
  <2>2. \A i, j \in 1..Len(order') : order'[i] = order'[j] => i = j
    <3>1. SUFFICES ASSUME NEW i \in 1..Len(order'), NEW j \in 1..Len(order'),
                          order'[i] = order'[j]
                   PROVE  i = j
      OBVIOUS
    <3>2. /\ i \in Nat /\ j \in Nat /\ i + 1 \in 1..Len(order)
          /\ j + 1 \in 1..Len(order) /\ order[i + 1] = order[j + 1]
      BY <3>1, <1>3, <2>1
    <3>3. i + 1 = j + 1
      BY <3>2, <1>1 DEF OrderShape
    <3>4. QED
      BY <3>2, <3>3
  <2>3. ASSUME NEW l \in Links
        PROVE  InRange(l, Tail(order)) <=> InRange(l, order) /\ l # Head(order)
    <3>1. ASSUME NEW k \in 1..Len(Tail(order)), Tail(order)[k] = l
          PROVE  k + 1 \in 1..Len(order) /\ order[k + 1] = l /\ l # Head(order)
      <4>1. k \in Nat /\ k + 1 \in 1..Len(order) /\ order[k + 1] = l /\ k + 1 # 1
        BY <3>1, <2>1
      <4>2. 1 \in 1..Len(order)
        BY <2>1
      <4>3. QED
        BY <4>1, <4>2, <2>1, <1>1 DEF OrderShape
    <3>2. ASSUME NEW k \in 1..Len(order), order[k] = l, l # Head(order)
          PROVE  k - 1 \in 1..Len(Tail(order)) /\ Tail(order)[k - 1] = l
      <4>1. k \in Nat /\ k # 1
        BY <3>2, <2>1
      <4>2. k - 1 \in 1..Len(Tail(order)) /\ (k - 1) + 1 = k
        BY <4>1, <2>1
      <4>3. QED
        BY <3>2, <4>2, <2>1
    <3>3. QED
      BY <3>1, <3>2 DEF InRange
  <2>4. QED
    BY <1>1, <1>3, <2>2, <2>3, DeliverFacts DEF OrderShape
<1>8. QED
  BY <1>4, <1>5, <1>6, <1>7 DEF ShapeInv

-----------------------------------------------------------------------------
(***************************************************************************)
(* Reservations.                                                           *)
(***************************************************************************)

LEMMA ReleaseConserves ==
  ASSUME ExecTypeOK, Conserved, NEW l \in Links, loc[l] # "none", Release(l)
  PROVE  Conserved'
<1>1. l \in Held /\ Held' = Held \ {l} /\ free' = free + 1
  BY DEF ExecTypeOK, Release, Held
<1>2. IsFiniteSet(Held) /\ Cardinality(Held) \in Nat
  BY FS_CardinalityType DEF Conserved
<1>3. IsFiniteSet(Held \ {l}) /\ Cardinality(Held \ {l}) = Cardinality(Held) - 1
  BY <1>1, <1>2, FS_RemoveElement
<1>4. QED
  BY <1>1, <1>2, <1>3 DEF Conserved, ReservationsConserved, ExecTypeOK

LEMMA StayConserves ==
  ASSUME Conserved, free' = free, Held' = Held
  PROVE  Conserved'
BY DEF Conserved, ReservationsConserved

LEMMA InitConserves == ExecInit => Conserved
<1> SUFFICES ASSUME ExecInit PROVE Conserved
  OBVIOUS
<1>1. Held = {} /\ free = MaxExchanges
  BY DEF ExecInit, Held
<1>2. QED
  BY <1>1, FS_EmptySet, ExecutorAssumption DEF Conserved, ReservationsConserved

LEMMA TaskConserves ==
  ASSUME ExecTypeOK, Conserved, NEW l \in Links, ServeTask(l)
  PROVE  Conserved'
<1>1. CASE Reserve(l)
  <2>1. l \notin Held /\ Held' = Held \cup {l} /\ free > 0 /\ free' = free - 1
    BY <1>1 DEF Reserve, ExecTypeOK, Held
  <2>2. IsFiniteSet(Held) /\ Cardinality(Held) \in Nat
    BY FS_CardinalityType DEF Conserved
  <2>3. /\ IsFiniteSet(Held \cup {l})
        /\ Cardinality(Held \cup {l}) = Cardinality(Held) + 1
    BY <2>1, <2>2, FS_AddElement
  <2>4. QED
    BY <2>1, <2>2, <2>3 DEF Conserved, ReservationsConserved, ExecTypeOK
<1>2. CASE Forfeit(l) \/ DropCompleted(l)
  BY <1>2, ReleaseConserves DEF Forfeit, DropCompleted
<1>3. CASE Disconnect(l)
  <2>1. CASE loc[l] = "reply"
    BY <1>3, <2>1, ReleaseConserves DEF Disconnect
  <2>2. CASE loc[l] # "reply"
    BY <1>3, <2>2, StayConserves DEF Disconnect, Held
  <2>3. QED
    BY <2>1, <2>2
<1>4. CASE TakeReply(l)
  <2>1. free' = free /\ Held' = Held
    BY <1>4 DEF TakeReply, ExecTypeOK, Held
  <2>2. QED
    BY <2>1, StayConserves
<1>5. ASSUME NEW x \in Commands, Submit(l, x) PROVE Conserved'
  <2>1. CASE Len(queue) < MaxExchanges
    <3>1. free' = free /\ Held' = Held
      BY <1>5, <2>1 DEF Submit, ExecTypeOK, Held
    <3>2. QED
      BY <3>1, StayConserves
  <2>2. CASE ~(Len(queue) < MaxExchanges)
    BY <1>5, <2>2, ReleaseConserves DEF Submit
  <2>3. QED
    BY <2>1, <2>2
<1>6. QED
  BY <1>1, <1>2, <1>3, <1>4, <1>5 DEF ServeTask

LEMMA WorkerConserves ==
  ASSUME ShapeInv, Conserved, Worker
  PROVE  Conserved'
<1>1. ExecTypeOK
  BY DEF ShapeInv
<1>2. CASE RecvPending
  <2>1. pending \in Accepted
    BY <1>2, HeadsAccepted DEF RecvPending
  <2>2. free' = free /\ Held' = Held
    BY <1>1, <1>2, <2>1 DEF RecvPending, ExecTypeOK, Held, Accepted
  <2>3. QED
    BY <2>2, StayConserves
<1>3. CASE RecvQueue \/ Join \/ Barrier
  <2>1. Head(queue) \in Accepted
    BY <1>3, HeadsAccepted DEF RecvQueue, Join, Barrier
  <2>2. free' = free /\ Held' = Held
    BY <1>1, <1>3, <2>1 DEF RecvQueue, Join, Barrier, ExecTypeOK, Held, Accepted
  <2>3. QED
    BY <2>2, StayConserves
<1>4. CASE CloseWindow \/ Execute
  <2>1. free' = free /\ loc' = loc
    BY <1>4 DEF CloseWindow, Execute, ExecuteQuery, ReplayMutation,
                CommitMutation, RefuseMutation
  <2>2. QED
    BY <2>1, StayConserves DEF Held
<1>5. CASE Deliver
  <2>1. Head(group) \in Links /\ Head(group) \in Accepted
    BY <1>5, DeliverFacts
  <2>2. loc[Head(group)] # "none"
    BY <2>1 DEF Accepted
  <2>3. CASE Head(group) \in waiting
    <3>1. free' = free /\ Held' = Held
      BY <1>1, <1>5, <2>1, <2>2, <2>3 DEF Deliver, ExecTypeOK, Held
    <3>2. QED
      BY <3>1, StayConserves
  <2>4. CASE Head(group) \notin waiting
    BY <1>1, <1>5, <2>1, <2>2, <2>4, ReleaseConserves DEF Deliver
  <2>5. QED
    BY <2>3, <2>4
<1>6. QED
  BY <1>2, <1>3, <1>4, <1>5 DEF Worker

LEMMA ProcessConserves ==
  ASSUME ExecTypeOK, Conserved, Process
  PROVE  Conserved'
<1>1. CASE DropReactor
  <2>1. /\ free' = free + Cardinality(Held \ Accepted)
        /\ Held' = Accepted /\ Held \cap Accepted = Accepted
    BY <1>1 DEF DropReactor, ExecTypeOK, Held, Accepted
  <2>2. /\ IsFiniteSet(Held) /\ Cardinality(Held) \in Nat
        /\ IsFiniteSet(Held \cap Accepted)
    BY FS_CardinalityType, FS_Intersection DEF Conserved
  <2>3. Cardinality(Held \ Accepted) = Cardinality(Held) - Cardinality(Held \cap Accepted)
    BY <2>2, FS_Difference
  <2>4. IsFiniteSet(Accepted) /\ Cardinality(Accepted) \in Nat
    BY <2>1, <2>2, FS_CardinalityType
  <2>5. Cardinality(Held \ Accepted) = Cardinality(Held) - Cardinality(Accepted)
    BY <2>1, <2>3
  <2>6. free' + Cardinality(Accepted) = MaxExchanges
    BY <2>1, <2>2, <2>4, <2>5 DEF Conserved, ReservationsConserved, ExecTypeOK
  <2>7. QED
    BY <2>1, <2>4, <2>6 DEF Conserved, ReservationsConserved
<1>2. CASE JoinWorker \/ Restart
  <2>1. free' = free /\ Held' = Held
    BY <1>2 DEF JoinWorker, Restart, Held
  <2>2. QED
    BY <2>1, StayConserves
<1>3. CASE Crash
  <2>1. Held' = {} /\ free' = MaxExchanges
    BY <1>3 DEF Crash, Held
  <2>2. QED
    BY <2>1, FS_EmptySet, ExecutorAssumption DEF Conserved, ReservationsConserved
<1>4. QED
  BY <1>1, <1>2, <1>3 DEF Process

-----------------------------------------------------------------------------
LEMMA ProcessShape ==
  ASSUME ShapeInv, Conserved, Process
  PROVE  ShapeInv'
<1>1. ExecTypeOK /\ PhaseShape /\ FifoService /\ OrderShape
  BY DEF ShapeInv
<1>2. CASE DropReactor
  <2>1. free + Cardinality(Held \ Accepted) \in Nat
    <3>1. IsFiniteSet(Held \ Accepted)
      BY FS_Difference DEF Conserved
    <3>2. QED
      BY <1>1, <3>1, FS_CardinalityType DEF ExecTypeOK
  <2>2. ExecTypeOK'
    BY <1>1, <1>2, <2>1, AnswersTyped
    DEF DropReactor, ExecTypeOK, Location, threadVars
  <2>3. Accepted' = Accepted
    BY <1>2 DEF DropReactor, Accepted
  <2>4. QED
    BY <1>2, <2>2, <2>3, QuietShape DEF DropReactor
<1>3. CASE JoinWorker \/ Restart
  <2>1. ExecTypeOK'
    BY <1>1, <1>3 DEF JoinWorker, Restart, ExecTypeOK, threadVars
  <2>2. Accepted' = Accepted
    BY <1>3 DEF JoinWorker, Restart, Accepted
  <2>3. QED
    BY <1>3, <2>1, <2>2, QuietShape DEF JoinWorker, Restart
<1>4. CASE Crash
  <2>1. ExecTypeOK'
    BY <1>1, <1>4, ExecutorAssumption, EmptySeq, AnswersTyped
    DEF Crash, ExecTypeOK, Location
  <2>2. Barred' = <<>> /\ group' = <<>> /\ queue' = <<>> /\ order' = <<>>
    BY <1>4 DEF Crash, Barred
  <2>3. order' = group' \o Barred' \o queue'
    BY <2>2, ConcatEmptySeq, EmptySeq
  <2>4. FifoService'
    BY <2>3 DEF FifoService, Barred
  <2>5. OrderShape'
    BY <1>4, EmptySeq DEF Crash, OrderShape, Accepted, InRange
  <2>6. PhaseShape'
    BY <1>4 DEF Crash, PhaseShape
  <2>7. QED
    BY <2>1, <2>4, <2>5, <2>6 DEF ShapeInv
<1>5. QED
  BY <1>2, <1>3, <1>4 DEF Process

-----------------------------------------------------------------------------
(***************************************************************************)
(* Room in the channel: a link that still uploads holds a permit that no   *)
(* queued job can hold.                                                    *)
(***************************************************************************)

LEMMA RoomFromPermits ==
  ASSUME ShapeInv, Conserved
  PROVE  QueueHasRoom
<1> SUFFICES ASSUME NEW l \in Links, loc[l] = "serve"
             PROVE  Len(queue) < MaxExchanges
  BY DEF QueueHasRoom
<1>1. ExecTypeOK /\ FifoService /\ OrderShape
  BY DEF ShapeInv
<1>2. /\ order \in Seq(Links) /\ Len(order) \in Nat
      /\ order \in [1..Len(order) -> Links]
  BY <1>1, LenProperties DEF ExecTypeOK
<1>3. \A k \in 1..Len(order) : order[k] \in Accepted
  BY <1>1, <1>2 DEF OrderShape, InRange
<1>4. order \in [1..Len(order) -> Accepted]
  BY <1>2, <1>3
<1>5. order \in Injection(1..Len(order), Accepted)
  BY <1>1, <1>4 DEF OrderShape, Injection, IsInjective
<1>6. IsFiniteSet(Held) /\ Cardinality(Held) \in Nat /\ Cardinality(Held) <= MaxExchanges
  BY <1>1, ExecutorAssumption, FS_CardinalityType
  DEF Conserved, ReservationsConserved, ExecTypeOK
<1>7. /\ IsFiniteSet(Held \ {l})
      /\ Cardinality(Held \ {l}) = Cardinality(Held) - 1
  <2>1. l \in Held
    BY DEF Held
  <2>2. QED
    BY <1>6, <2>1, FS_RemoveElement
<1>8. Accepted \subseteq Held \ {l}
  BY DEF Held, Accepted
<1>9. IsFiniteSet(Accepted) /\ Cardinality(Accepted) <= Cardinality(Held \ {l})
  BY <1>7, <1>8, FS_Subset
<1>10. Cardinality(1..Len(order)) <= Cardinality(Accepted)
  BY <1>5, <1>9, FS_Injection
<1>11. Cardinality(1..Len(order)) = Len(order)
  BY <1>2, FS_Interval
<1>12. Cardinality(Accepted) \in Nat
  BY <1>9, FS_CardinalityType
<1>13. Len(order) < MaxExchanges
  BY <1>2, <1>6, <1>7, <1>9, <1>10, <1>11, <1>12, ExecutorAssumption
<1>14. Len(queue) \in Nat /\ Len(group) \in Nat /\ Len(Barred) \in Nat
  BY <1>1, BarredTyped, LenProperties DEF ExecTypeOK
<1>15. QED
  BY <1>2, <1>13, <1>14, OrderParts, ExecutorAssumption

-----------------------------------------------------------------------------
(***************************************************************************)
(* The store.                                                              *)
(***************************************************************************)

\* Every step but a commit leaves the store alone.
LEMMA LogSteps ==
  ASSUME ExecNext
  PROVE  log' = log \/ CommitMutation
<1>1. ASSUME NEW l \in Links, ServeTask(l) PROVE log' = log
  BY <1>1 DEF ServeTask, Reserve, Forfeit, Disconnect, TakeReply,
              DropCompleted, Submit
<1>2. ASSUME Worker PROVE log' = log \/ CommitMutation
  BY <1>2 DEF Worker, RecvPending, RecvQueue, Join, Barrier, CloseWindow,
              Execute, ExecuteQuery, ReplayMutation, RefuseMutation, Deliver
<1>3. ASSUME Process PROVE log' = log
  BY <1>3 DEF Process, DropReactor, JoinWorker, Crash, Restart
<1>4. QED
  BY <1>1, <1>2, <1>3 DEF ExecNext

LEMMA CommitAppends ==
  ASSUME ExecTypeOK, CommitMutation
  PROVE  /\ Len(log) \in Nat /\ Len(log') = Len(log) + 1
         /\ log'[Len(log) + 1] = job[group[1]]
         /\ \A k \in 1..Len(log) : log'[k] = log[k]
         /\ ~InRange(job[group[1]], log)
<1>1. log \in Seq(Mutations) /\ job[group[1]] \in Mutations
  BY DEF ExecTypeOK, CommitMutation
<1>2. log' = Append(log, job[group[1]]) /\ ~InRange(job[group[1]], log)
  BY DEF CommitMutation
<1>3. QED
  BY <1>1, <1>2, AppendProperties, LenProperties

-----------------------------------------------------------------------------
(***************************************************************************)
(* Answers.                                                                *)
(***************************************************************************)

\* A link's command, answer and admission stand, or it has no answer now.
Settled(l) ==
  \/ /\ job'[l] = job[l] /\ result'[l] = result[l] /\ seen'[l] = seen[l]
     /\ loc'[l] \in {"none", "serve"} => loc[l] \in {"none", "serve"}
  \/ /\ result'[l] = NoAnswer /\ seen'[l] <= Len(log)
     /\ loc'[l] \in {"none", "serve"} => job'[l] = NoCommand

LEMMA SettledAnswers ==
  ASSUME AnswerInv, log' = log, OneCommand', \A l \in Links : Settled(l)
  PROVE  AnswerInv'
<1>1. Blank' /\ SeenPast'
  BY DEF AnswerInv, Settled, Blank, SeenPast
<1>2. FreshAnswers' /\ TrueAnswers'
  BY DEF AnswerInv, Settled, FreshAnswers, TrueAnswers, NoAnswer
<1>3. QED
  BY <1>1, <1>2 DEF AnswerInv

LEMMA SameCohort ==
  ASSUME ShapeInv, OneCommand, group' = group,
         phase' \in {"collect", "execute"} => phase \in {"collect", "execute"},
         \A l \in Accepted : job'[l] = job[l]
  PROVE  OneCommand'
<1>1. group \in Seq(Links) /\ Len(group) \in Nat
  BY LenProperties DEF ShapeInv, ExecTypeOK
<1>2. \A k \in 1..Len(group) : job'[group[k]] = job[group[k]] /\ 1 \in 1..Len(group)
  BY <1>1, HeadsAccepted
<1>3. QED
  BY <1>2 DEF OneCommand

LEMMA ReleaseSettles ==
  ASSUME ExecTypeOK, SeenPast, NEW l \in Links, Release(l), seen' = seen
  PROVE  /\ \A k \in Links : Settled(k)
         /\ \A k \in Links \ {l} : job'[k] = job[k]
BY DEF ExecTypeOK, SeenPast, Release, Settled

LEMMA TaskAnswers ==
  ASSUME ShapeInv, AnswerInv, NEW l \in Links, ServeTask(l)
  PROVE  AnswerInv'
<1>1. ExecTypeOK /\ Blank /\ OneCommand /\ SeenPast
  BY DEF ShapeInv, AnswerInv
<1>2. log' = log /\ group' = group /\ phase' = phase
  BY DEF ServeTask, Reserve, Forfeit, Disconnect, TakeReply, DropCompleted,
         Submit, threadVars
<1>3. (\A k \in Links : Settled(k)) /\ (\A k \in Accepted : job'[k] = job[k])
  <2>1. CASE Reserve(l)
    <3>1. result[l] = NoAnswer /\ job[l] = NoCommand
      BY <1>1, <2>1 DEF Reserve, Blank
    <3>2. Len(log) \in Nat
      BY <1>1, LenProperties DEF ExecTypeOK
    <3>3. QED
      BY <1>1, <2>1, <3>1, <3>2 DEF Reserve, ExecTypeOK, Settled, Accepted
  <2>2. CASE Forfeit(l) \/ DropCompleted(l)
    BY <1>1, <2>2, ReleaseSettles DEF Forfeit, DropCompleted, Accepted
  <2>3. CASE Disconnect(l)
    <3>1. CASE loc[l] = "reply"
      BY <1>1, <2>3, <3>1, ReleaseSettles DEF Disconnect, Accepted
    <3>2. CASE loc[l] # "reply"
      BY <2>3, <3>2 DEF Disconnect, Settled, Accepted
    <3>3. QED
      BY <3>1, <3>2
  <2>4. CASE TakeReply(l)
    BY <1>1, <2>4 DEF TakeReply, ExecTypeOK, Settled, Accepted
  <2>5. ASSUME NEW x \in Commands, Submit(l, x)
        PROVE  (\A k \in Links : Settled(k)) /\ (\A k \in Accepted : job'[k] = job[k])
    <3>1. CASE Len(queue) < MaxExchanges
      <4>1. result[l] = NoAnswer /\ seen[l] <= Len(log) /\ l \notin Accepted
        BY <1>1, <2>5 DEF Submit, Blank, SeenPast, Accepted
      <4>2. QED
        BY <1>1, <2>5, <3>1, <4>1 DEF Submit, ExecTypeOK, Settled, Accepted
    <3>2. CASE ~(Len(queue) < MaxExchanges)
      BY <1>1, <2>5, <3>2, ReleaseSettles DEF Submit, Accepted
    <3>3. QED
      BY <3>1, <3>2
  <2>6. QED
    BY <2>1, <2>2, <2>3, <2>4, <2>5 DEF ServeTask
<1>4. OneCommand'
  BY <1>1, <1>2, <1>3, SameCohort
<1>5. QED
  BY <1>2, <1>3, <1>4, SettledAnswers

LEMMA ExecuteAnswers ==
  ASSUME ShapeInv, AnswerInv, Execute
  PROVE  AnswerInv'
<1>1. ExecTypeOK /\ Blank /\ OneCommand /\ SeenPast /\ FreshAnswers /\ TrueAnswers
  BY DEF ShapeInv, AnswerInv
<1>2. /\ phase = "execute" /\ phase' = "deliver"
      /\ UNCHANGED <<loc, job, group, seen>>
  BY DEF Execute, ExecuteQuery, ReplayMutation, CommitMutation, RefuseMutation
<1>3. /\ Members \subseteq Accepted
      /\ \A l \in Members : job[l] = job[group[1]]
  BY <1>1, <1>2, HeadsAccepted DEF Members, OneCommand
<1>4. /\ Len(log) \in Nat
      /\ Len(log') \in Nat /\ Len(log) <= Len(log')
      /\ \A k \in 1..Len(log) : log'[k] = log[k]
  <2>1. Len(log) \in Nat
    BY <1>1, LenProperties DEF ExecTypeOK
  <2>2. CASE CommitMutation
    BY <1>1, <2>1, <2>2, CommitAppends
  <2>3. CASE ExecuteQuery \/ ReplayMutation \/ RefuseMutation
    BY <2>1, <2>3 DEF ExecuteQuery, ReplayMutation, RefuseMutation
  <2>4. QED
    BY <2>2, <2>3, <2>1 DEF Execute
<1>5. \A l \in Links \ Members : result'[l] = result[l]
  BY DEF Execute, ExecuteQuery, ReplayMutation, CommitMutation, RefuseMutation,
         Answered
<1>6. \A l \in Members \cap Links : result'[l].status = "ok" =>
        \/ job[group[1]] \in Queries /\ result'[l].at = Len(log)
        \/ /\ job[group[1]] \in Mutations /\ result'[l].at \in 1..Len(log')
           /\ log'[result'[l].at] = job[group[1]]
  <2>1. CASE ExecuteQuery
    BY <2>1 DEF ExecuteQuery, Answered, OkAnswer, ErrorAnswer
  <2>2. CASE ReplayMutation
    BY <2>2 DEF ReplayMutation, Answered, OkAnswer, ErrorAnswer
  <2>3. CASE CommitMutation
    <3>1. Len(log) + 1 \in 1..Len(log') /\ log'[Len(log) + 1] = job[group[1]]
      BY <1>1, <2>3, CommitAppends
    <3>2. QED
      BY <2>3, <3>1 DEF CommitMutation, Answered, OkAnswer, ErrorAnswer
  <2>4. CASE RefuseMutation
    BY <2>4 DEF RefuseMutation, Answered, ErrorAnswer
  <2>5. QED
    BY <2>1, <2>2, <2>3, <2>4 DEF Execute
<1>7. Blank'
  BY <1>1, <1>2, <1>3, <1>5 DEF Blank, Accepted
<1>8. OneCommand'
  BY <1>2 DEF OneCommand
<1>9. SeenPast'
  BY <1>1, <1>2, <1>4 DEF SeenPast, ExecTypeOK
<1>10. FreshAnswers'
  <2>1. SUFFICES ASSUME NEW l \in Links, result'[l].status = "ok", job[l] \in Queries
                 PROVE  result'[l].at \in seen[l]..Len(log')
    BY <1>2 DEF FreshAnswers
  <2>2. seen[l] \in Nat /\ seen[l] <= Len(log)
    BY <1>1 DEF SeenPast, ExecTypeOK
  <2>3. CASE l \in Members
    <3>1. result'[l].at = Len(log)
      BY <2>1, <2>3, <1>3, <1>6, ExecutorAssumption
    <3>2. QED
      BY <3>1, <2>2, <1>4
  <2>4. CASE l \notin Members
    <3>1. result[l].at \in seen[l]..Len(log) /\ result'[l] = result[l]
      BY <2>1, <2>4, <1>1, <1>5 DEF FreshAnswers
    <3>2. QED
      BY <3>1, <2>2, <1>4
  <2>5. QED
    BY <2>3, <2>4
<1>11. TrueAnswers'
  <2>1. SUFFICES ASSUME NEW l \in Links, result'[l].status = "ok", job[l] \in Mutations
                 PROVE  result'[l].at \in 1..Len(log') /\ log'[result'[l].at] = job[l]
    BY <1>2 DEF TrueAnswers
  <2>2. CASE l \in Members
    BY <2>1, <2>2, <1>3, <1>6, ExecutorAssumption
  <2>3. CASE l \notin Members
    <3>1. /\ result[l].at \in 1..Len(log) /\ log[result[l].at] = job[l]
          /\ result'[l] = result[l]
      BY <2>1, <2>3, <1>1, <1>5 DEF TrueAnswers
    <3>2. QED
      BY <3>1, <1>4
  <2>4. QED
    BY <2>2, <2>3
<1>12. QED
  BY <1>7, <1>8, <1>9, <1>10, <1>11 DEF AnswerInv

LEMMA WorkerAnswers ==
  ASSUME ShapeInv, AnswerInv, Worker
  PROVE  AnswerInv'
<1>1. ExecTypeOK /\ Blank /\ OneCommand /\ SeenPast
  BY DEF ShapeInv, AnswerInv
<1>2. CASE RecvPending \/ RecvQueue
  <2>1. /\ log' = log /\ job' = job /\ result' = result /\ seen' = seen
        /\ \E x : group' = <<x>> /\ loc' = [loc EXCEPT ![x] = "group"]
    BY <1>2 DEF RecvPending, RecvQueue
  <2>2. OneCommand'
    BY <2>1 DEF OneCommand
  <2>3. \A l \in Links : Settled(l)
    BY <1>1, <2>1 DEF Settled, ExecTypeOK
  <2>4. QED
    BY <2>1, <2>2, <2>3, SettledAnswers
<1>3. CASE Join
  <2>1. /\ log' = log /\ job' = job /\ result' = result /\ seen' = seen
        /\ group' = Append(group, Head(queue)) /\ phase = "collect"
        /\ job[Head(queue)] = job[group[1]]
        /\ loc' = [loc EXCEPT ![Head(queue)] = "group"] /\ queue # <<>>
    BY <1>3 DEF Join
  <2>2. /\ group \in Seq(Links) /\ group # <<>> /\ Head(queue) \in Links
    BY <1>1, <2>1, HeadTailProperties DEF ExecTypeOK, ShapeInv, PhaseShape
  <2>3. /\ Len(group) \in Nat \ {0} /\ Len(group') = Len(group) + 1
        /\ group'[Len(group) + 1] = Head(queue)
        /\ \A k \in 1..Len(group) : group'[k] = group[k]
    BY <2>1, <2>2, AppendProperties, EmptySeq
  <2>4. \A k \in 1..Len(group) : job[group[k]] = job[group[1]]
    BY <1>1, <2>1 DEF OneCommand
  <2>5. \A k \in 1..Len(group) + 1 : job'[group'[k]] = job'[group'[1]]
    BY <2>1, <2>3, <2>4
  <2>6. OneCommand'
    BY <2>3, <2>5 DEF OneCommand
  <2>7. \A l \in Links : Settled(l)
    BY <1>1, <2>1 DEF Settled, ExecTypeOK
  <2>8. QED
    BY <2>1, <2>6, <2>7, SettledAnswers
<1>4. CASE Barrier \/ CloseWindow
  <2>1. /\ log' = log /\ job' = job /\ result' = result /\ seen' = seen
        /\ group' = group /\ phase = "collect"
        /\ loc' = loc \/ \E x : loc' = [loc EXCEPT ![x] = "pending"]
    BY <1>4 DEF Barrier, CloseWindow
  <2>2. OneCommand'
    BY <1>1, <2>1, SameCohort
  <2>3. \A l \in Links : Settled(l)
    BY <1>1, <2>1 DEF Settled, ExecTypeOK
  <2>4. QED
    BY <2>1, <2>2, <2>3, SettledAnswers
<1>5. CASE Deliver
  <2>1. log' = log /\ seen' = seen /\ OneCommand'
    BY <1>5 DEF Deliver, OneCommand
  <2>2. Head(group) \in Links
    BY <1>5, DeliverFacts
  <2>3. \A l \in Links : Settled(l)
    <3>1. CASE Head(group) \in waiting
      BY <1>1, <1>5, <2>1, <2>2, <3>1 DEF Deliver, Settled, ExecTypeOK
    <3>2. CASE Head(group) \notin waiting
      BY <1>1, <1>5, <2>1, <2>2, <3>2, ReleaseSettles DEF Deliver
    <3>3. QED
      BY <3>1, <3>2
  <2>4. QED
    BY <2>1, <2>3, SettledAnswers
<1>6. CASE Execute
  BY <1>6, ExecuteAnswers
<1>7. QED
  BY <1>2, <1>3, <1>4, <1>5, <1>6 DEF Worker

LEMMA ProcessAnswers ==
  ASSUME ShapeInv, AnswerInv, Process
  PROVE  AnswerInv'
<1>1. ExecTypeOK /\ Blank /\ OneCommand /\ SeenPast
  BY DEF ShapeInv, AnswerInv
<1>2. log' = log /\ seen' = seen
  BY DEF Process, DropReactor, JoinWorker, Crash, Restart
<1>3. (\A l \in Links : Settled(l)) /\ OneCommand'
  <2>1. CASE DropReactor
    <3>1. /\ group' = group /\ phase' = phase
          /\ \A l \in Links : l \in Accepted => job'[l] = job[l]
      BY <2>1 DEF DropReactor, threadVars
    <3>2. OneCommand'
      BY <1>1, <3>1, SameCohort DEF Accepted
    <3>3. \A l \in Links : Settled(l)
      BY <1>1, <1>2, <2>1 DEF DropReactor, Settled, Accepted, SeenPast
    <3>4. QED
      BY <3>2, <3>3
  <2>2. CASE JoinWorker \/ Restart
    BY <1>1, <1>2, <2>2, SameCohort DEF JoinWorker, Restart, Settled, threadVars
  <2>3. CASE Crash
    BY <1>1, <1>2, <2>3 DEF Crash, Settled, OneCommand, SeenPast
  <2>4. QED
    BY <2>1, <2>2, <2>3 DEF Process
<1>4. QED
  BY <1>2, <1>3, SettledAnswers

LEMMA InitAnswers == ExecInit => AnswerInv
BY EmptySeq DEF ExecInit, AnswerInv, Blank, OneCommand, SeenPast, FreshAnswers,
                TrueAnswers, NoAnswer

-----------------------------------------------------------------------------
(***************************************************************************)
(* The theorems.                                                           *)
(***************************************************************************)

LEMMA WorkerShape == ShapeInv /\ Worker => ShapeInv'
BY RecvShape, CollectShape, ExecuteShape, DeliverShape DEF Worker

LEMMA InitIInv == ExecInit => IInv
BY InitShape, InitConserves, InitAnswers DEF IInv

LEMMA StepIInv ==
  ASSUME IInv, [ExecNext]_execVars
  PROVE  IInv'
<1>1. ShapeInv /\ Conserved /\ AnswerInv /\ ExecTypeOK
  BY DEF IInv, ShapeInv
<1>2. CASE UNCHANGED execVars
  <2>1. ExecTypeOK' /\ Accepted' = Accepted
    BY <1>1, <1>2 DEF execVars, ExecTypeOK, Accepted
  <2>2. ShapeInv'
    BY <1>1, <1>2, <2>1, QuietShape DEF execVars, threadVars
  <2>3. Conserved'
    BY <1>1, <1>2, StayConserves DEF execVars, Held
  <2>4. AnswerInv'
    BY <1>1, <1>2 DEF execVars, AnswerInv, Blank, OneCommand, SeenPast,
                      FreshAnswers, TrueAnswers
  <2>5. QED
    BY <2>2, <2>3, <2>4 DEF IInv
<1>3. ASSUME NEW l \in Links, ServeTask(l) PROVE IInv'
  BY <1>1, <1>3, TaskShape, TaskConserves, TaskAnswers DEF IInv
<1>4. CASE Worker
  BY <1>1, <1>4, WorkerShape, WorkerConserves, WorkerAnswers DEF IInv
<1>5. CASE Process
  BY <1>1, <1>5, ProcessShape, ProcessConserves, ProcessAnswers DEF IInv
<1>6. QED
  BY <1>2, <1>3, <1>4, <1>5 DEF ExecNext

LEMMA Inductive == ExecSpec => []IInv
BY InitIInv, StepIInv, PTL DEF ExecSpec

\* Reservations are neither lost nor returned twice, whatever way an exchange,
\* its job, its answer or the owner ends.
THEOREM PermitsConserved == ExecSpec => []ReservationsConserved
<1>1. IInv => ReservationsConserved
  BY DEF IInv, Conserved
<1>2. QED
  BY <1>1, Inductive, PTL

\* The channel never refuses a job whose reservation was granted.
THEOREM AdmittedJobsFit == ExecSpec => []QueueHasRoom
<1>1. IInv => QueueHasRoom
  BY RoomFromPermits DEF IInv
<1>2. QED
  BY <1>1, Inductive, PTL

\* Accepted work is kept and served in the order it was accepted.
THEOREM ServedInOrder == ExecSpec => []FifoService
<1>1. IInv => FifoService
  BY DEF IInv, ShapeInv
<1>2. QED
  BY <1>1, Inductive, PTL

\* A shared execution answers nobody with a store older than his admission,
\* and a successful mutation is where its answer says.
THEOREM AnswersHold == ExecSpec => []SoundAnswers
<1>1. IInv => SoundAnswers
  BY DEF IInv, AnswerInv, SoundAnswers
<1>2. QED
  BY <1>1, Inductive, PTL

\* The state variables keep their types.
THEOREM ExecTypeCorrect == ExecSpec => []ExecTypeOK
<1>1. IInv => ExecTypeOK
  BY DEF IInv, ShapeInv
<1>2. QED
  BY <1>1, Inductive, PTL

=============================================================================
