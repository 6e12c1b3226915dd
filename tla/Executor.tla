------------------------------ MODULE Executor ------------------------------
(***************************************************************************)
(* The owner's executor: exchange reservations, the bounded job channel,   *)
(* the single application thread and its query cohorts                     *)
(* (runtime/executor.rs, runtime/executor/cohort.rs and the admission part *)
(* of runtime/owner.rs).                                                   *)
(*                                                                         *)
(* A Link is one client connection.  Its serve task handles one exchange   *)
(* at a time, so a link holds at most one reservation; `loc` says where    *)
(* that reservation is.  A reservation travels with the job and then with  *)
(* its completed bytes, whether or not anybody still waits for them.       *)
(*                                                                         *)
(* A command is a prepared mutation or a query (its request bytes together *)
(* with its connection's verified origin).  The store is the sequence of   *)
(* mutations committed so far: an answer carries the position at which its *)
(* mutation stands in the store, or the length of the store it has read.   *)
(***************************************************************************)
EXTENDS Naturals, Sequences, FiniteSets

CONSTANTS Links,         \* client connections
          Mutations,     \* prepared mutations, each with its own receipt
          Queries,       \* (request bytes, origin) pairs
          NoLink,        \* no pending job
          NoCommand,     \* no job bytes
          MaxExchanges   \* protocol::MAX_EXCHANGES: reservations and channel

ASSUME ExecutorAssumption ==
  /\ NoLink \notin Links
  /\ Mutations \cap Queries = {}
  /\ NoCommand \notin Mutations \cup Queries
  /\ MaxExchanges \in Nat \ {0}

Commands == Mutations \cup Queries

VARIABLES
  owner,    \* "up", "stopping" (reactor dropped, thread draining), "down"
  free,     \* available permits of Admission::memory
  loc,      \* [Links -> Location]: where the link's reservation is
  waiting,  \* links whose serve task awaits the oneshot receiver
  job,      \* [Links -> Commands or NoCommand]: Job::bytes
  queue,    \* the sync_channel, oldest first
  pending,  \* the barrier job the collector read but did not take
  group,    \* the cohort in hand, answers not sent yet
  phase,    \* the thread: "recv", "collect", "execute" or "deliver"
  result,   \* [Links -> Answer]: encoded result of the link's job
  log,      \* the store: committed mutations in commit order
  order,    \* history: unanswered jobs in the order the channel took them
  seen      \* [Links -> Nat]: history, Len(log) when the link was admitted

execVars == <<owner, free, loc, waiting, job, queue, pending, group, phase,
              result, log, order, seen>>

threadVars == <<queue, pending, group, phase, order>>

Location == {"none", "serve", "queue", "pending", "group", "reply", "writing"}
Answer == [status : {"none", "ok", "error"}, at : Nat]
NoAnswer == [status |-> "none", at |-> 0]
ErrorAnswer == [status |-> "error", at |-> 0]
OkAnswer(n) == [status |-> "ok", at |-> n]

InRange(x, s) == \E k \in 1..Len(s) : s[k] = x

\* Reservations in use, and those of jobs the application thread still owns.
Held == {l \in Links : loc[l] # "none"}
Accepted == {l \in Links : loc[l] \in {"queue", "pending", "group"}}

ExecTypeOK ==
  /\ owner \in {"up", "stopping", "down"}
  /\ free \in Nat
  /\ loc \in [Links -> Location]
  /\ waiting \subseteq Links
  /\ job \in [Links -> Commands \cup {NoCommand}]
  /\ queue \in Seq(Links)
  /\ pending \in Links \cup {NoLink}
  /\ group \in Seq(Links)
  /\ phase \in {"recv", "collect", "execute", "deliver"}
  /\ result \in [Links -> Answer]
  /\ log \in Seq(Mutations)
  /\ order \in Seq(Links)
  /\ seen \in [Links -> Nat]

ExecInit ==
  /\ owner = "up"
  /\ free = MaxExchanges
  /\ loc = [l \in Links |-> "none"]
  /\ waiting = {}
  /\ job = [l \in Links |-> NoCommand]
  /\ queue = <<>>
  /\ pending = NoLink
  /\ group = <<>>
  /\ phase = "recv"
  /\ result = [l \in Links |-> NoAnswer]
  /\ log = <<>>
  /\ order = <<>>
  /\ seen = [l \in Links |-> 0]

-----------------------------------------------------------------------------
(***************************************************************************)
(* The serve task's side: reservation, upload, oneshot.                    *)
(***************************************************************************)

\* Dropping an OwnedSemaphorePermit, with whatever it travelled in.
Release(l) ==
  /\ free' = free + 1
  /\ loc' = [loc EXCEPT ![l] = "none"]
  /\ job' = [job EXCEPT ![l] = NoCommand]
  /\ result' = [result EXCEPT ![l] = NoAnswer]

\* Begin: try_acquire_many_owned succeeds, before any byte is uploaded.
Reserve(l) ==
  /\ owner = "up"
  /\ loc[l] = "none" /\ l \notin waiting
  /\ free > 0
  /\ free' = free - 1
  /\ loc' = [loc EXCEPT ![l] = "serve"]
  /\ seen' = [seen EXCEPT ![l] = Len(log)]
  /\ UNCHANGED <<owner, waiting, job, threadVars, result, log>>

\* Fault: a failed upload forgets its permit.
FaultPermitForgotten(l) ==
  /\ loc[l] = "serve"
  /\ loc' = [loc EXCEPT ![l] = "none"]
  /\ UNCHANGED <<owner, free, waiting, job, threadVars, result, log, seen>>

\* The upload fails (disconnect, bad frame, deadline) before dispatch.
Forfeit(l) ==
  /\ loc[l] = "serve"
  /\ Release(l)
  /\ UNCHANGED <<owner, waiting, threadVars, log, seen>>

\* admission.sender.try_send(job).  With a full channel the job comes back and
\* is dropped with its reservation, and the client reads Busy.
Submit(l, x) ==
  /\ loc[l] = "serve"
  /\ IF Len(queue) < MaxExchanges
       THEN /\ queue' = Append(queue, l)
            /\ order' = Append(order, l)
            /\ loc' = [loc EXCEPT ![l] = "queue"]
            /\ job' = [job EXCEPT ![l] = x]
            /\ waiting' = waiting \cup {l}
            /\ UNCHANGED <<free, result>>
       ELSE /\ Release(l)
            /\ UNCHANGED <<queue, order, waiting>>
  /\ UNCHANGED <<owner, pending, group, phase, log, seen>>

\* The serve task gives up on its oneshot.  An answer already in it is
\* dropped; a job that is still queued or running is not cancelled.
Disconnect(l) ==
  /\ l \in waiting
  /\ waiting' = waiting \ {l}
  /\ IF loc[l] = "reply"
       THEN Release(l)
       ELSE UNCHANGED <<free, loc, job, result>>
  /\ UNCHANGED <<owner, threadVars, log, seen>>

\* receiver.await returns the completed bytes, with their reservation.
TakeReply(l) ==
  /\ l \in waiting /\ loc[l] = "reply"
  /\ waiting' = waiting \ {l}
  /\ loc' = [loc EXCEPT ![l] = "writing"]
  /\ UNCHANGED <<owner, free, job, threadVars, result, log, seen>>

\* drop(completed) after the response is written, or writing it failed.
DropCompleted(l) ==
  /\ loc[l] = "writing"
  /\ Release(l)
  /\ UNCHANGED <<owner, waiting, threadVars, log, seen>>

-----------------------------------------------------------------------------
(***************************************************************************)
(* The application thread.                                                 *)
(***************************************************************************)

\* Where the thread goes with the first job of a group: only queries wait
\* for the batching window (cohort::collect).
FirstPhase(l) == IF job[l] \in Queries THEN "collect" ELSE "execute"

\* Fault: the receiver is asked before the pending job is taken.
FaultRecvFirst ==
  /\ phase = "recv" /\ pending # NoLink /\ queue # <<>>
  /\ group' = <<pending>>
  /\ loc' = [loc EXCEPT ![pending] = "group"]
  /\ phase' = FirstPhase(pending)
  /\ pending' = NoLink
  /\ UNCHANGED <<owner, free, waiting, job, queue, result, log, order, seen>>

\* pending.take().or_else(|| receiver.recv().ok())
RecvPending ==
  /\ phase = "recv" /\ pending # NoLink
  /\ group' = <<pending>>
  /\ loc' = [loc EXCEPT ![pending] = "group"]
  /\ phase' = FirstPhase(pending)
  /\ pending' = NoLink
  /\ UNCHANGED <<owner, free, waiting, job, queue, result, log, order, seen>>

RecvQueue ==
  /\ phase = "recv" /\ pending = NoLink /\ queue # <<>>
  /\ group' = <<Head(queue)>>
  /\ queue' = Tail(queue)
  /\ loc' = [loc EXCEPT ![Head(queue)] = "group"]
  /\ phase' = FirstPhase(Head(queue))
  /\ UNCHANGED <<owner, free, waiting, job, pending, result, log, order, seen>>

\* collect_until: an equivalent job inside the window joins the cohort.
Join ==
  /\ phase = "collect" /\ queue # <<>>
  /\ Len(group) < MaxExchanges
  /\ job[Head(queue)] = job[group[1]]
  /\ group' = Append(group, Head(queue))
  /\ queue' = Tail(queue)
  /\ loc' = [loc EXCEPT ![Head(queue)] = "group"]
  /\ UNCHANGED <<owner, free, waiting, job, pending, phase, result, log, order,
                 seen>>

\* collect_until: another job, or one read after the deadline, is a barrier.
Barrier ==
  /\ phase = "collect" /\ queue # <<>>
  /\ Len(group) < MaxExchanges
  /\ pending' = Head(queue)
  /\ queue' = Tail(queue)
  /\ loc' = [loc EXCEPT ![Head(queue)] = "pending"]
  /\ phase' = "execute"
  /\ UNCHANGED <<owner, free, waiting, job, group, result, log, order, seen>>

\* collect_until: the window closes or the cohort is full.
CloseWindow ==
  /\ phase = "collect"
  /\ phase' = "execute"
  /\ UNCHANGED <<owner, free, waiting, job, queue, pending, group, loc, result,
                 log, order, seen>>

Members == {group[k] : k \in 1..Len(group)}

\* One command of the cohort is executed for all of its members.  `failed`
\* are the members whose own origin check refuses them; for the rest the
\* execution's result is encoded once.  (cohort::shared sends the refusals of
\* the opening check before it executes; every member has a oneshot of its own,
\* so Deliver sends all answers of the cohort in one order.)
Answered(failed, answer) ==
  result' = [l \in Links |-> IF l \notin Members THEN result[l]
                             ELSE IF l \in failed THEN ErrorAnswer
                             ELSE answer]

\* Fault: the cohort shares a projection as old as its first member.
FaultStaleCohort ==
  /\ phase = "execute" /\ job[group[1]] \in Queries
  /\ \E failed \in SUBSET Members : Answered(failed, OkAnswer(seen[group[1]]))
  /\ phase' = "deliver"
  /\ UNCHANGED <<owner, free, loc, waiting, job, queue, pending, group, log,
                 order, seen>>

\* A query reads the store as it is now.
ExecuteQuery ==
  /\ phase = "execute" /\ job[group[1]] \in Queries
  /\ \E failed \in SUBSET Members : Answered(failed, OkAnswer(Len(log)))
  /\ phase' = "deliver"
  /\ UNCHANGED <<owner, free, loc, waiting, job, queue, pending, group, log,
                 order, seen>>

\* A mutation with a receipt in the store replays its result ...
ReplayMutation ==
  /\ phase = "execute" /\ job[group[1]] \in Mutations
  /\ \E k \in 1..Len(log) : log[k] = job[group[1]] /\ Answered({}, OkAnswer(k))
  /\ phase' = "deliver"
  /\ UNCHANGED <<owner, free, loc, waiting, job, queue, pending, group, log,
                 order, seen>>

\* Fault: the receipt is not looked up before the commit.
FaultNoReceipt ==
  /\ phase = "execute" /\ job[group[1]] \in Mutations
  /\ Len(log) < 2 * Cardinality(Mutations)
  /\ log' = Append(log, job[group[1]])
  /\ Answered({}, OkAnswer(Len(log) + 1))
  /\ phase' = "deliver"
  /\ UNCHANGED <<owner, free, loc, waiting, job, queue, pending, group, order,
                 seen>>

\* ... and one without commits, effect and receipt together; a stage after the
\* commit can still turn the answer into an error ...
CommitMutation ==
  /\ phase = "execute" /\ job[group[1]] \in Mutations
  /\ ~InRange(job[group[1]], log)
  /\ log' = Append(log, job[group[1]])
  /\ \E failed \in {{}, Members} : Answered(failed, OkAnswer(Len(log) + 1))
  /\ phase' = "deliver"
  /\ UNCHANGED <<owner, free, loc, waiting, job, queue, pending, group, order,
                 seen>>

\* ... or fails: quarantined Git, changed source, admission, domain error.
RefuseMutation ==
  /\ phase = "execute" /\ job[group[1]] \in Mutations
  /\ Answered(Members, ErrorAnswer)
  /\ phase' = "deliver"
  /\ UNCHANGED <<owner, free, loc, waiting, job, queue, pending, group, log,
                 order, seen>>

\* cohort::send: the oneshot takes the answer, or nobody waits and it is
\* dropped together with its reservation.
Deliver ==
  /\ phase = "deliver"
  /\ LET l == Head(group) IN
       IF l \in waiting
         THEN /\ loc' = [loc EXCEPT ![l] = "reply"]
              /\ UNCHANGED <<free, job, result>>
         ELSE Release(l)
  /\ group' = Tail(group)
  /\ order' = Tail(order)
  /\ phase' = IF Len(group) = 1 THEN "recv" ELSE "deliver"
  /\ UNCHANGED <<owner, waiting, queue, pending, log, seen>>

-----------------------------------------------------------------------------
(***************************************************************************)
(* The owner process.                                                      *)
(***************************************************************************)

\* drop(reactor): every serve task ends; accepted jobs stay with the thread.
DropReactor ==
  /\ owner = "up"
  /\ owner' = "stopping"
  /\ free' = free + Cardinality(Held \ Accepted)
  /\ loc' = [l \in Links |-> IF l \in Accepted THEN loc[l] ELSE "none"]
  /\ job' = [l \in Links |-> IF l \in Accepted THEN job[l] ELSE NoCommand]
  /\ result' = [l \in Links |-> IF l \in Accepted THEN result[l] ELSE NoAnswer]
  /\ waiting' = {}
  /\ UNCHANGED <<threadVars, log, seen>>

\* The channel is disconnected and empty: the thread breaks and is joined.
JoinWorker ==
  /\ owner = "stopping"
  /\ phase = "recv" /\ pending = NoLink /\ queue = <<>>
  /\ owner' = "down"
  /\ UNCHANGED <<free, loc, waiting, job, threadVars, result, log, seen>>

\* The process dies: only the store survives.
Crash ==
  /\ owner \in {"up", "stopping"}
  /\ owner' = "down"
  /\ free' = MaxExchanges
  /\ loc' = [l \in Links |-> "none"]
  /\ waiting' = {}
  /\ job' = [l \in Links |-> NoCommand]
  /\ queue' = <<>>
  /\ pending' = NoLink
  /\ group' = <<>>
  /\ order' = <<>>
  /\ phase' = "recv"
  /\ result' = [l \in Links |-> NoAnswer]
  /\ UNCHANGED <<log, seen>>

\* The next owner process starts with a fresh executor on the same store.
Restart ==
  /\ owner = "down"
  /\ owner' = "up"
  /\ UNCHANGED <<free, loc, waiting, job, threadVars, result, log, seen>>

-----------------------------------------------------------------------------
ServeTask(l) ==
  \/ Reserve(l) \/ Forfeit(l) \/ Disconnect(l)
  \/ TakeReply(l) \/ DropCompleted(l)
  \/ \E x \in Commands : Submit(l, x)

Execute == ExecuteQuery \/ ReplayMutation \/ CommitMutation \/ RefuseMutation
Worker == RecvPending \/ RecvQueue \/ Join \/ Barrier \/ CloseWindow \/ Execute
          \/ Deliver
Process == DropReactor \/ JoinWorker \/ Crash \/ Restart

ExecNext == (\E l \in Links : ServeTask(l)) \/ Worker \/ Process

ExecSpec == ExecInit /\ [][ExecNext]_execVars

\* The application thread never stops between two jobs.
ExecFairSpec == ExecSpec /\ WF_execVars(Worker)

-----------------------------------------------------------------------------
(***************************************************************************)
(* Properties.                                                             *)
(***************************************************************************)

\* No reservation is lost or returned twice, however exchanges, disconnects,
\* cohorts and shutdown interleave (owner.rs and cohort.rs drop permits in
\* nine places).
ReservationsConserved == free + Cardinality(Held) = MaxExchanges

\* A job that was admitted always finds room in the channel, so the
\* TrySendError::Full branch of serve is dead: memory admits before the queue.
QueueHasRoom == (\E l \in Links : loc[l] = "serve") => Len(queue) < MaxExchanges

FreshAnswers ==
  \A l \in Links : result[l].status = "ok" /\ job[l] \in Queries =>
    result[l].at \in seen[l]..Len(log)

TrueAnswers ==
  \A l \in Links : result[l].status = "ok" /\ job[l] \in Mutations =>
    result[l].at \in 1..Len(log) /\ log[result[l].at] = job[l]

\* An answer is never older than its exchange: a query that shares another
\* client's execution still sees every mutation committed before it was
\* admitted; and a mutation answered with success is in the store, at the
\* answered position.
SoundAnswers == FreshAnswers /\ TrueAnswers

\* Disconnect never cancels accepted work, and nothing overtakes it: the jobs
\* in the thread's hands, the barrier and the channel are exactly the accepted
\* ones, in the order they were accepted.
FifoService ==
  order = group \o (IF pending = NoLink THEN <<>> ELSE <<pending>>) \o queue

\* Every accepted job is answered or dropped by the thread in the end.
AcceptedWorkEnds ==
  \A l \in Links : loc[l] \in {"queue", "pending", "group"} ~> l \notin Accepted
=============================================================================
