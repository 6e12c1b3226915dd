---------------------------- MODULE ProcessProofs ----------------------------
(***************************************************************************)
(* Processes and their locks.  RuntimeOwner, for every set of clients and  *)
(* owner processes, any number of connections and any number of kills; and *)
(* GitProcess, which shares no state with it: Git children are reaped, and *)
(* their groups killed, for every number of threads and of permits.        *)
(***************************************************************************)
EXTENDS RuntimeOwner, GitProcess, FiniteSetTheorems, TLAPS

Holding == {"locked", "serving", "draining", "joined"}

\* owner.lock is held by every owner between try_lock_exclusive and drop(lock),
\* and by every client between its probe and the unlock.
LockHeld ==
  /\ \A i \in Instances : op[i] \in Holding => ownerLock = i
  /\ \A c \in Clients : pc[c] = "spawn" => ownerLock = c

\* An executor thread exists between Executor::start and its join; only it
\* has accepted work.
ExecutorLifetime ==
  /\ \A i \in worker : op[i] \in {"locked", "serving", "draining"}
  /\ \A i \in busy : op[i] \in {"serving", "draining"}

IInv == TypeOK /\ LockHeld /\ ExecutorLifetime /\ EndpointKept

\* startup.lock is held from its probe to the end of connect; a stream without
\* a reply exists only inside connect_once; a client has spawned nobody before
\* the loop body's spawn, and spawns at most once.
StartupHeld ==
  /\ \A c \in Clients : pc[c] \in {"reprobe", "owner", "spawn", "check"} => startupLock = c
  /\ \A c \in Clients : dial[c] # Nobody => pc[c] \in {"probe", "reprobe"}
  /\ \A c \in Clients :
       pc[c] \in {"out", "probe", "startup", "owner", "spawn"} => expected[c] = Nobody

\* A spawned owner that has not tried its lock yet still has the client that
\* spawned it, waiting for it under startup.lock.
StartedAwaited ==
  crashed = {} => \A i \in Instances : op[i] = "started" =>
    \E c \in Clients : expected[c] = i /\ pc[c] \in {"reprobe", "check"}

\* While a client waits for the owner it spawned, no other owner holds the
\* lifetime lock or is about to try it.
NoRival ==
  crashed = {} => \A c \in Clients :
    expected[c] # Nobody /\ pc[c] \in {"reprobe", "check"} =>
      \A i \in Instances : op[i] \in Holding \cup {"started"} => i = expected[c]

ElectionInv ==
  StartupHeld /\ StartedAwaited /\ NoRival /\ SpawnedOwnerWins /\ NoLeakedOwner

LEMMA InitIInv == Init => IInv
BY RuntimeOwnerAssumption
   DEF Init, IInv, TypeOK, LockHeld, ExecutorLifetime, EndpointKept, Holding,
       ClientPc, OwnerPc

LEMMA AfterUnavailableType ==
  ASSUME TypeOK, NEW c \in Clients
  PROVE  AfterUnavailable(c) \in {"startup", "owner", "check"}
BY DEF AfterUnavailable, TypeOK

LEMMA ClientIInv ==
  ASSUME IInv, NEW c \in Clients,
         BeginConnect(c) \/ ClientStep(c) \/ Leave(c) \/ KillClient(c)
  PROVE  IInv'
<1> USE RuntimeOwnerAssumption, AfterUnavailableType
    DEF IInv, TypeOK, LockHeld, ExecutorLifetime, EndpointKept, Holding,
        ClientPc, OwnerPc, ownerVars, Running
<1>f. ASSUME Fail(c), ownerLock' = ownerLock \/ (pc[c] = "spawn" /\ ownerLock' = Nobody)
      PROVE  IInv'
  BY <1>f DEF Fail, KilledChild
<1>1. CASE BeginConnect(c)
  BY <1>1 DEF BeginConnect
<1>2. CASE Dial(c)
  BY <1>2 DEF Dial, Listening
<1>3. CASE Expire(c)
  BY <1>3 DEF Expire
<1>4. CASE HandshakeDeadline(c)
  BY <1>4, <1>f DEF HandshakeDeadline
<1>5. CASE TakeStartup(c)
  BY <1>5 DEF TakeStartup
<1>6. CASE StartupDeadline(c)
  BY <1>6, <1>f DEF StartupDeadline
<1>7. CASE TryOwner(c)
  BY <1>7 DEF TryOwner
<1>8. CASE Spawn(c)
  BY <1>8 DEF Spawn
<1>9. CASE SpawnFails(c)
  BY <1>9, <1>f DEF SpawnFails
<1>10. CASE Retry(c)
  BY <1>10 DEF Retry
<1>11. CASE OwnerDeadline(c)
  BY <1>11, <1>f DEF OwnerDeadline
<1>12. CASE CloseLocks(c)
  BY <1>12 DEF CloseLocks
<1>13. CASE Leave(c)
  BY <1>13 DEF Leave
<1>14. CASE KillClient(c)
  BY <1>14 DEF KillClient, Electing
<1>15. QED
  BY <1>1, <1>2, <1>3, <1>4, <1>5, <1>6, <1>7, <1>8, <1>9, <1>10, <1>11,
     <1>12, <1>13, <1>14 DEF ClientStep

LEMMA OwnerIInv ==
  ASSUME IInv, NEW i \in Instances, OwnerStep(i) \/ KillOwner(i)
  PROVE  IInv'
<1> USE RuntimeOwnerAssumption, AfterUnavailableType
    DEF IInv, TypeOK, LockHeld, ExecutorLifetime, EndpointKept, Holding,
        ClientPc, OwnerPc, clientVars, ownerVars, Running
<1>s. ASSUME StopServing(i), op[i] = "serving" PROVE IInv'
  BY <1>s DEF StopServing, Hangup
<1>1. CASE OwnerStartFails(i)
  BY <1>1 DEF OwnerStartFails
<1>2. CASE OwnerLock(i)
  BY <1>2 DEF OwnerLock
<1>3. CASE Bind(i)
  BY <1>3 DEF Bind
<1>4. CASE BindFails(i)
  BY <1>4 DEF BindFails
<1>5. CASE WorkDone(i)
  BY <1>5 DEF WorkDone
<1>6. CASE IdleExit(i)
  BY <1>6, <1>s DEF IdleExit
<1>7. CASE Quarantine(i)
  BY <1>7, <1>s DEF Quarantine
<1>8. CASE DropExecutor(i)
  BY <1>8 DEF DropExecutor
<1>9. CASE DropLock(i)
  BY <1>9 DEF DropLock
<1>10. CASE Reap(i)
  BY <1>10 DEF Reap, Hangup
<1>11. CASE KillOwner(i)
  BY <1>11 DEF KillOwner
<1>12. QED
  BY <1>1, <1>2, <1>3, <1>4, <1>5, <1>6, <1>7, <1>8, <1>9, <1>10, <1>11
  DEF OwnerStep

LEMMA ServeIInv ==
  ASSUME IInv, NEW i \in Instances, NEW c \in Clients, ServeStep(i, c)
  PROVE  IInv'
<1> USE RuntimeOwnerAssumption, AfterUnavailableType
    DEF IInv, TypeOK, LockHeld, ExecutorLifetime, EndpointKept, Holding,
        ClientPc, OwnerPc, clientVars, ownerVars, Running
<1>1. CASE Accept(i, c)
  BY <1>1 DEF Accept
<1>2. CASE TurnAway(i, c)
  BY <1>2 DEF TurnAway
<1>3. CASE Welcomed(i, c)
  BY <1>3 DEF Welcomed
<1>4. CASE Refused(i, c)
  BY <1>4 DEF Refused, Fail, KilledChild
<1>5. CASE ServeFails(i, c)
  BY <1>5 DEF ServeFails
<1>6. CASE ServeEnds(i, c)
  BY <1>6 DEF ServeEnds
<1>7. CASE Submit(i, c)
  BY <1>7 DEF Submit
<1>8. QED
  BY <1>1, <1>2, <1>3, <1>4, <1>5, <1>6, <1>7 DEF ServeStep

\* The lock discipline is an invariant of every run of connect and owner::run.
THEOREM LockDiscipline == Spec => []IInv
<1>1. IInv /\ [Next]_vars => IInv'
  <2> SUFFICES ASSUME IInv, [Next]_vars PROVE IInv'
    OBVIOUS
  <2>1. CASE UNCHANGED vars
    BY <2>1 DEF vars, IInv, TypeOK, LockHeld, ExecutorLifetime, EndpointKept
  <2>2. CASE Next
    BY <2>2, ClientIInv, OwnerIInv, ServeIInv DEF Next
  <2>3. QED
    BY <2>1, <2>2
<1>2. QED
  BY InitIInv, <1>1, PTL DEF Spec

\* Every variable of the election keeps its type.
THEOREM TypeCorrect == Spec => []TypeOK
BY LockDiscipline, PTL DEF IInv

\* At most one application thread exists for a repository: finish_owner joins
\* the executor before it closes owner.lock, and a killed owner has none.
THEOREM AtMostOneWriter == Spec => []OneWriter
<1>1. IInv => OneWriter
  <2> SUFFICES ASSUME IInv PROVE Cardinality(worker) <= 1
    BY DEF OneWriter
  <2>1. worker \subseteq {ownerLock}
    BY DEF IInv, LockHeld, ExecutorLifetime, TypeOK, Holding
  <2>2. IsFiniteSet({ownerLock}) /\ Cardinality({ownerLock}) = 1
    BY FS_Singleton
  <2>3. IsFiniteSet(worker) /\ Cardinality(worker) <= Cardinality({ownerLock})
    BY <2>1, <2>2, FS_Subset
  <2>4. QED
    BY <2>2, <2>3, SMT
<1>2. QED
  BY <1>1, LockDiscipline, PTL

\* Accepted work runs to its end under the repository's lock.
THEOREM AcceptedWorkUnderLock == Spec => []WorkUnderLock
<1>1. IInv => WorkUnderLock
  BY DEF IInv, LockHeld, ExecutorLifetime, TypeOK, Holding, WorkUnderLock
<1>2. QED
  BY <1>1, LockDiscipline, PTL

\* A serving owner's socket file is never unlinked or rebound.
THEOREM EndpointIsKept == Spec => []EndpointKept
BY LockDiscipline, PTL DEF IInv
-----------------------------------------------------------------------------
(***************************************************************************)
(* The election: whom a client that spawned an owner can meet, and who      *)
(* answers for a spawned owner.                                            *)
(***************************************************************************)

LEMMA InitElection == Init => ElectionInv
BY RuntimeOwnerAssumption
   DEF Init, ElectionInv, StartupHeld, StartedAwaited, NoRival,
       SpawnedOwnerWins, NoLeakedOwner, Running, Holding

\* Where a client stands whose stream is closed without a reply.
Retreats(c) ==
  \/ pc[c] = "probe" /\ expected[c] = Nobody /\ pc'[c] = "startup"
  \/ pc[c] = "reprobe" /\ expected[c] = Nobody /\ pc'[c] = "owner"
  \/ pc[c] = "reprobe" /\ expected[c] # Nobody /\ pc'[c] = "check"

LEMMA UnavailableRetreats ==
  ASSUME StartupHeld, NEW c \in Clients, pc[c] \in {"probe", "reprobe"},
         pc'[c] = AfterUnavailable(c)
  PROVE  Retreats(c)
<1>1. CASE pc[c] = "probe"
  BY <1>1 DEF StartupHeld, AfterUnavailable, Retreats
<1>2. CASE pc[c] = "reprobe" /\ expected[c] = Nobody
  BY <1>2 DEF AfterUnavailable, Retreats
<1>3. CASE pc[c] = "reprobe" /\ expected[c] # Nobody
  BY <1>3 DEF AfterUnavailable, Retreats
<1>4. QED
  BY <1>1, <1>2, <1>3

\* Clients that retreat, and an owner that stops or is gone, keep the election.
LEMMA RetreatsKeep ==
  ASSUME IInv, ElectionInv, UNCHANGED <<expected, startupLock, crashed>>,
         \A c \in Clients : (pc'[c] = pc[c] /\ dial'[c] = dial[c])
                            \/ (Retreats(c) /\ dial'[c] = Nobody),
         \A i \in Instances : op'[i] = op[i]
                              \/ (op[i] = "serving" /\ op'[i] = "draining")
                              \/ (op[i] = "dying" /\ op'[i] = "exited")
  PROVE  ElectionInv'
<1>1. StartupHeld'
  BY DEF ElectionInv, StartupHeld, Retreats
<1>2. StartedAwaited'
  BY RuntimeOwnerAssumption DEF ElectionInv, StartedAwaited, Retreats
<1>3. NoRival'
  BY DEF ElectionInv, NoRival, Retreats, Holding
<1>4. SpawnedOwnerWins'
  BY DEF ElectionInv, SpawnedOwnerWins
<1>5. NoLeakedOwner'
  BY DEF ElectionInv, NoLeakedOwner, Retreats, Electing, Running
<1>6. QED
  BY <1>1, <1>2, <1>3, <1>4, <1>5 DEF ElectionInv

LEMMA HangupRetreats ==
  ASSUME StartupHeld, NEW i \in Instances, Hangup(i), Nobody \notin Instances
  PROVE  \A c \in Clients : (pc'[c] = pc[c] /\ dial'[c] = dial[c])
                            \/ (Retreats(c) /\ dial'[c] = Nobody)
<1>1. SUFFICES ASSUME NEW c \in Clients, dial[c] = i
               PROVE  Retreats(c) /\ dial'[c] = Nobody
  BY DEF Hangup
<1>2. pc'[c] = AfterUnavailable(c) /\ dial'[c] = Nobody
  BY <1>1 DEF Hangup
<1>3. pc[c] \in {"probe", "reprobe"}
  BY <1>1 DEF StartupHeld
<1>4. QED
  BY <1>2, <1>3, UnavailableRetreats

LEMMA ClientElection ==
  ASSUME IInv, ElectionInv, NEW c \in Clients,
         BeginConnect(c) \/ ClientStep(c) \/ Leave(c) \/ KillClient(c)
  PROVE  ElectionInv'
<1> USE RuntimeOwnerAssumption
    DEF IInv, TypeOK, LockHeld, ElectionInv, StartupHeld, StartedAwaited,
        NoRival, SpawnedOwnerWins, NoLeakedOwner, Holding, Running, Electing,
        ownerVars
<1>f. ASSUME Fail(c), pc[c] # "in", pc[c] # "done"
      PROVE  ElectionInv'
  BY <1>f DEF Fail, KilledChild
<1>1. CASE BeginConnect(c)
  BY <1>1 DEF BeginConnect
<1>2. CASE Dial(c)
  <2>1. CASE Listening
    <3>1. /\ pc[c] \in {"probe", "reprobe"} /\ op[endpoint] = "serving"
          /\ endpoint \in Instances /\ dial' = [dial EXCEPT ![c] = endpoint]
          /\ UNCHANGED <<pc, expected, startupLock, crashed, op>>
      BY <1>2, <2>1 DEF Dial, Listening
    <3>2. QED
      BY <3>1
  <2>2. CASE ~Listening
    <3>1. /\ pc[c] \in {"probe", "reprobe"} /\ dial[c] = Nobody
          /\ pc' = [pc EXCEPT ![c] = AfterUnavailable(c)]
          /\ UNCHANGED <<dial, expected, startupLock, crashed, op>>
      BY <1>2, <2>2 DEF Dial
    <3>2. Retreats(c)
      BY <3>1, UnavailableRetreats
    <3>3. QED
      BY <3>1, <3>2, RetreatsKeep
  <2>3. QED
    BY <2>1, <2>2
<1>3. CASE Expire(c)
  BY <1>3 DEF Expire
<1>4. CASE HandshakeDeadline(c)
  BY <1>4, <1>f DEF HandshakeDeadline
<1>5. CASE TakeStartup(c)
  BY <1>5 DEF TakeStartup
<1>6. CASE StartupDeadline(c)
  BY <1>6, <1>f DEF StartupDeadline
<1>7. CASE TryOwner(c)
  BY <1>7 DEF TryOwner
<1>8. CASE Spawn(c)
  BY <1>8 DEF Spawn
<1>9. CASE SpawnFails(c)
  BY <1>9, <1>f DEF SpawnFails
<1>10. CASE Retry(c)
  BY <1>10 DEF Retry
<1>11. CASE OwnerDeadline(c)
  BY <1>11, <1>f DEF OwnerDeadline
<1>12. CASE CloseLocks(c)
  BY <1>12 DEF CloseLocks
<1>13. CASE Leave(c)
  BY <1>13 DEF Leave
<1>14. CASE KillClient(c)
  BY <1>14 DEF KillClient
<1>15. QED
  BY <1>1, <1>2, <1>3, <1>4, <1>5, <1>6, <1>7, <1>8, <1>9, <1>10, <1>11,
     <1>12, <1>13, <1>14 DEF ClientStep

LEMMA OwnerElection ==
  ASSUME IInv, ElectionInv, NEW i \in Instances, OwnerStep(i) \/ KillOwner(i)
  PROVE  ElectionInv'
<1> USE RuntimeOwnerAssumption
    DEF IInv, TypeOK, LockHeld, ElectionInv, StartupHeld, StartedAwaited,
        NoRival, SpawnedOwnerWins, NoLeakedOwner, Holding, Running, Electing,
        clientVars, ownerVars
<1>s. ASSUME StopServing(i), op[i] = "serving" PROVE ElectionInv'
  <2>1. Hangup(i) /\ op' = [op EXCEPT ![i] = "draining"]
        /\ UNCHANGED <<expected, startupLock, crashed>>
    BY <1>s DEF StopServing
  <2>2. \A j \in Instances : op'[j] = op[j] \/ (op[j] = "serving" /\ op'[j] = "draining")
    BY <1>s, <2>1
  <2>3. QED
    BY <2>1, <2>2, HangupRetreats, RetreatsKeep
<1>1. CASE OwnerStartFails(i)
  BY <1>1 DEF OwnerStartFails
<1>2. CASE OwnerLock(i)
  BY <1>2 DEF OwnerLock
<1>3. CASE Bind(i)
  BY <1>3 DEF Bind
<1>4. CASE BindFails(i)
  BY <1>4 DEF BindFails
<1>5. CASE WorkDone(i)
  BY <1>5 DEF WorkDone
<1>6. CASE IdleExit(i)
  BY <1>6, <1>s DEF IdleExit
<1>7. CASE Quarantine(i)
  BY <1>7, <1>s DEF Quarantine
<1>8. CASE DropExecutor(i)
  BY <1>8 DEF DropExecutor
<1>9. CASE DropLock(i)
  BY <1>9 DEF DropLock
<1>10. CASE Reap(i)
  <2>1. Hangup(i) /\ op[i] = "dying" /\ op' = [op EXCEPT ![i] = "exited"]
        /\ UNCHANGED <<expected, startupLock, crashed>>
    BY <1>10 DEF Reap
  <2>2. \A j \in Instances : op'[j] = op[j] \/ (op[j] = "dying" /\ op'[j] = "exited")
    BY <2>1
  <2>3. QED
    BY <2>1, <2>2, HangupRetreats, RetreatsKeep
<1>11. CASE KillOwner(i)
  BY <1>11 DEF KillOwner
<1>12. QED
  BY <1>1, <1>2, <1>3, <1>4, <1>5, <1>6, <1>7, <1>8, <1>9, <1>10, <1>11
  DEF OwnerStep

LEMMA ServeElection ==
  ASSUME IInv, ElectionInv, NEW i \in Instances, NEW c \in Clients, ServeStep(i, c)
  PROVE  ElectionInv'
<1> USE RuntimeOwnerAssumption
    DEF IInv, TypeOK, LockHeld, ElectionInv, StartupHeld, StartedAwaited,
        NoRival, SpawnedOwnerWins, NoLeakedOwner, Holding, Running, Electing,
        clientVars, ownerVars
<1>1. CASE Accept(i, c)
  BY <1>1 DEF Accept
<1>2. CASE TurnAway(i, c)
  <2>1. /\ pc[c] \in {"probe", "reprobe"}
        /\ pc' = [pc EXCEPT ![c] = AfterUnavailable(c)]
        /\ dial' = [dial EXCEPT ![c] = Nobody]
        /\ UNCHANGED <<expected, startupLock, crashed, op>>
    BY <1>2 DEF TurnAway
  <2>2. Retreats(c)
    BY <2>1, UnavailableRetreats
  <2>3. QED
    BY <2>1, <2>2, RetreatsKeep
<1>3. CASE Welcomed(i, c)
  BY <1>3 DEF Welcomed
<1>4. CASE Refused(i, c)
  BY <1>4 DEF Refused, Fail, KilledChild
<1>5. CASE ServeFails(i, c)
  <2>1. /\ pc[c] \in {"probe", "reprobe"}
        /\ pc' = [pc EXCEPT ![c] = AfterUnavailable(c)]
        /\ dial' = [dial EXCEPT ![c] = Nobody]
        /\ UNCHANGED <<expected, startupLock, crashed, op>>
    BY <1>5 DEF ServeFails
  <2>2. Retreats(c)
    BY <2>1, UnavailableRetreats
  <2>3. QED
    BY <2>1, <2>2, RetreatsKeep
<1>6. CASE ServeEnds(i, c)
  BY <1>6 DEF ServeEnds
<1>7. CASE Submit(i, c)
  BY <1>7 DEF Submit
<1>8. QED
  BY <1>1, <1>2, <1>3, <1>4, <1>5, <1>6, <1>7 DEF ServeStep

LEMMA ElectionInvariant == Spec => []ElectionInv
<1>1. IInv /\ ElectionInv /\ [Next]_vars => ElectionInv'
  <2> SUFFICES ASSUME IInv, ElectionInv, [Next]_vars PROVE ElectionInv'
    OBVIOUS
  <2>1. CASE UNCHANGED vars
    BY <2>1 DEF vars, ElectionInv, StartupHeld, StartedAwaited, NoRival,
                SpawnedOwnerWins, NoLeakedOwner
  <2>2. CASE Next
    BY <2>2, ClientElection, OwnerElection, ServeElection DEF Next
  <2>3. QED
    BY <2>1, <2>2
<1>2. QED
  BY LockDiscipline, InitElection, <1>1, PTL DEF Spec

\* A client that spawned an owner reaches no other one: under startup.lock
\* there is no rival that could win owner.lock between the unlock and the
\* child's own attempt.
THEOREM SpawnedOwnerIsReached == Spec => []SpawnedOwnerWins
BY ElectionInvariant, PTL DEF ElectionInv

\* A connect call that fails leaves no owner process behind.
THEOREM OwnersAreAnsweredFor == Spec => []NoLeakedOwner
BY ElectionInvariant, PTL DEF ElectionInv

-----------------------------------------------------------------------------
\* Git children.

\* The calls that hold a permit.
Holders == {c \in Callers : git[c].pc \in {"spawn", "run", "clean", "drain"}}

\* The permits taken are those of the calls that hold one.
PermitsCounted == IsFiniteSet(Holders) /\ permits = Cardinality(Holders)

\* Only a call that supervises or cleans up has a child or a group to kill.
Supervised == \A c \in Callers : Alive(c) => git[c].pc \in {"run", "clean"}

\* While the handle is armed the leader is there; without it, the group is gone:
\* nobody joins a group after its signal.
Armed ==
  \A c \in Callers :
    /\ tree[c] = "armed" => child[c] # "none"
    /\ tree[c] # "none" => git[c].pc \in {"run", "clean"}
    /\ git[c].pc = "run" => tree[c] = "armed"
    /\ tree[c] # "armed" => child[c] # "live" /\ "group" \notin kin[c]

GitInv == GitTypeOK /\ PermitsCounted /\ Supervised /\ Armed

-----------------------------------------------------------------------------
\* A holder's permit is one of those counted.
LEMMA HolderCounted ==
  ASSUME GitInv, NEW c \in Holders
  PROVE  permits \in 1..Permits
<1>1. Cardinality(Holders) # 0
  BY FS_EmptySet DEF GitInv, PermitsCounted
<1>2. QED
  BY <1>1, PermitsAssumption DEF GitInv, PermitsCounted, GitTypeOK

\* The three things a step can do to the permits.
LEMMA SamePermits ==
  ASSUME GitInv, permits' = permits, Holders' = Holders
  PROVE  PermitsCounted'
BY DEF GitInv, PermitsCounted

LEMMA PermitTaken ==
  ASSUME GitInv, NEW c \in Callers, c \notin Holders,
         permits' = permits + 1, Holders' = Holders \cup {c}
  PROVE  PermitsCounted'
<1>1. /\ IsFiniteSet(Holders \cup {c})
      /\ Cardinality(Holders \cup {c}) = Cardinality(Holders) + 1
  BY FS_AddElement DEF GitInv, PermitsCounted
<1>2. QED
  BY <1>1 DEF GitInv, PermitsCounted

LEMMA PermitReturned ==
  ASSUME GitInv, NEW c \in Holders,
         permits' = permits - 1, Holders' = Holders \ {c}
  PROVE  PermitsCounted' /\ permits' \in 0..Permits
<1>1. /\ IsFiniteSet(Holders \ {c})
      /\ Cardinality(Holders \ {c}) = Cardinality(Holders) - 1
  BY FS_RemoveElement DEF GitInv, PermitsCounted
<1>2. permits \in 1..Permits
  BY HolderCounted
<1>3. QED
  BY <1>1, <1>2, PermitsAssumption DEF GitInv, PermitsCounted

-----------------------------------------------------------------------------
LEMMA GitInitInv == GitInit => GitInv
<1> SUFFICES ASSUME GitInit PROVE GitInv
  OBVIOUS
<1>1. GitTypeOK
  BY PermitsAssumption DEF GitInit, GitTypeOK, Outcomes, Descendants
<1>2. Holders = {}
  BY DEF GitInit, Holders
<1>3. PermitsCounted
  BY <1>2, FS_EmptySet DEF GitInit, PermitsCounted
<1>4. Supervised /\ Armed
  BY DEF GitInit, Supervised, Armed, Alive
<1>5. QED
  BY <1>1, <1>3, <1>4 DEF GitInv

-----------------------------------------------------------------------------
\* One call moves on, with a flag and an outcome of its own.
Places == {"rest", "admit", "spawn", "run", "clean", "drain"}
Called == [pc : Places, expired : BOOLEAN, out : Outcomes]

LEMMA CallIs ==
  ASSUME NEW f \in [Callers -> Called], NEW c \in Callers, NEW moved \in Called
  PROVE  [f EXCEPT ![c] = moved] \in [Callers -> Called]
OBVIOUS

LEMMA CallChanges ==
  ASSUME NEW f \in [Callers -> Called], NEW c \in Callers, NEW g,
         NEW to \in Places, NEW spent \in BOOLEAN, NEW out \in Outcomes,
         g = [f EXCEPT ![c].pc = to, ![c].expired = spent, ![c].out = out]
  PROVE  g \in [Callers -> Called]
<1>1. PICK place \in Called : place = f[c]
  OBVIOUS
<1>2. PICK moved : moved = [place EXCEPT !.pc = to, !.expired = spent, !.out = out]
  OBVIOUS
<1>3. moved \in Called
  BY <1>2 DEF Called
<1>4. g = [f EXCEPT ![c] = moved]
  BY <1>1, <1>2 DEF Called
<1>5. QED
  BY <1>3, <1>4, CallIs, Zenon

LEMMA CallBegins ==
  ASSUME NEW f \in [Callers -> Called], NEW c \in Callers, NEW g, NEW spent \in BOOLEAN,
         g = [f EXCEPT ![c].pc = "admit", ![c].expired = spent]
  PROVE  g \in [Callers -> Called]
<1>1. PICK place \in Called : place = f[c]
  OBVIOUS
<1>2. PICK moved : moved = [place EXCEPT !.pc = "admit", !.expired = spent]
  OBVIOUS
<1>3. moved \in Called
  BY <1>2 DEF Called, Places
<1>4. g = [f EXCEPT ![c] = moved]
  BY <1>1, <1>2 DEF Called
<1>5. QED
  BY <1>3, <1>4, CallIs, Zenon

LEMMA CallsTyped ==
  ASSUME GitInv
  PROVE  git \in [Callers -> Called] /\ permits \in 0..Permits
BY DEF GitInv, GitTypeOK, Called, Places

\* A call begins, runs out of time, or is refused: no permit, no process.
LEMMA WaitingKeeps ==
  ASSUME GitInv, NEW c \in Callers, BeginGit(c) \/ TimeUp(c) \/ Refuse(c)
  PROVE  GitInv'
<1>1. git' \in [Callers -> Called]
  <2>1. CASE BeginGit(c)
    <3>1. PICK used \in BOOLEAN :
             git' = [git EXCEPT ![c].pc = "admit", ![c].expired = used]
      BY <2>1 DEF BeginGit
    <3>2. QED
      BY <3>1, CallsTyped, CallBegins
  <2>2. CASE TimeUp(c)
    BY <2>2, CallsTyped DEF TimeUp, Called, Places
  <2>3. CASE Refuse(c)
    <3>1. Refusal(c) \in Outcomes
      BY <2>3 DEF Refuse, Refusal, Outcomes
    <3>2. git' = [git EXCEPT ![c].pc = "rest", ![c].expired = FALSE, ![c].out = Refusal(c)]
      BY <2>3 DEF Refuse, Return
    <3>3. git \in [Callers -> Called] /\ "rest" \in Places /\ FALSE \in BOOLEAN
      BY CallsTyped DEF Places
    <3>4. QED
      BY <3>1, <3>2, <3>3, CallChanges, Zenon
  <2>4. QED
    BY <2>1, <2>2, <2>3
<1>2. UNCHANGED <<permits, healthy, child, tree, kin>>
  BY DEF BeginGit, TimeUp, Refuse
<1>3. \A d \in Callers : /\ d \in Holders' <=> d \in Holders
                         /\ Alive(d) => git'[d].pc = git[d].pc
  BY DEF GitInv, GitTypeOK, Holders, Supervised, BeginGit, TimeUp, Refuse, Return
<1>4. GitTypeOK' /\ Holders' = Holders
  BY <1>1, <1>2, <1>3 DEF GitInv, GitTypeOK, Holders, Called, Places
<1>5. Supervised'
  BY <1>2, <1>3 DEF GitInv, Supervised, Alive
<1>6. Armed'
  BY <1>2 DEF GitInv, GitTypeOK, Armed, BeginGit, TimeUp, Refuse, Return
<1>7. QED
  BY <1>2, <1>4, <1>5, <1>6, SamePermits DEF GitInv

\* A permit is taken before there is a process.
LEMMA AdmitKeeps ==
  ASSUME GitInv, NEW c \in Callers, Admit(c)
  PROVE  GitInv'
<1>1. GitTypeOK'
  BY PermitsAssumption DEF GitInv, GitTypeOK, Admit, Proceed
<1>2. c \notin Holders /\ Holders' = Holders \cup {c}
  BY DEF GitInv, GitTypeOK, Holders, Admit, Proceed
<1>3. PermitsCounted'
  BY <1>2, PermitTaken DEF Admit
<1>4. Supervised' /\ Armed'
  BY DEF GitInv, GitTypeOK, Supervised, Armed, Alive, Admit, Proceed
<1>5. QED
  BY <1>1, <1>3, <1>4 DEF GitInv

\* The permit goes back with the answer, when there is no process any more.
LEMMA ReturnKeeps ==
  ASSUME GitInv, NEW c \in Holders, NEW out \in Outcomes,
         Return(c, out), ReturnPermit, UNCHANGED <<healthy, kin>>, tree[c] # "armed",
         child' = [child EXCEPT ![c] = "none"], tree' = [tree EXCEPT ![c] = "none"]
  PROVE  GitInv'
<1>1. c \in Callers
  BY DEF Holders
<1>2. Holders' = Holders \ {c}
  BY <1>1 DEF GitInv, GitTypeOK, Holders, Return
<1>3. PermitsCounted' /\ permits' \in 0..Permits
  BY <1>2, PermitReturned DEF ReturnPermit
<1>4. GitTypeOK'
  <2>1. git' = [git EXCEPT ![c].pc = "rest", ![c].expired = FALSE, ![c].out = out]
    BY DEF Return
  <2>2. git \in [Callers -> Called] /\ "rest" \in Places /\ FALSE \in BOOLEAN
    BY CallsTyped DEF Places
  <2>3. git' \in [Callers -> Called]
    BY <1>1, <2>1, <2>2, CallChanges, Zenon
  <2>4. child' \in [Callers -> {"none", "live", "exited"}]
    BY DEF GitInv, GitTypeOK
  <2>5. /\ tree' \in [Callers -> {"none", "armed", "killed"}]
        /\ healthy' \in BOOLEAN
        /\ kin' \in [Callers -> SUBSET Descendants]
    BY DEF GitInv, GitTypeOK
  <2>6. QED
    BY <1>3, <2>3, <2>4, <2>5 DEF GitTypeOK, Called, Places
<1>5. Supervised' /\ Armed'
  BY <1>1 DEF GitInv, GitTypeOK, Supervised, Armed, Alive, Return
<1>6. QED
  BY <1>3, <1>4, <1>5 DEF GitInv

\* A call that is not supervising a process has none.
LEMMA NoProcess ==
  ASSUME GitInv, NEW c \in Callers, git[c].pc \in {"spawn", "drain"}
  PROVE  /\ c \in Holders
         /\ tree[c] # "armed"
         /\ child = [child EXCEPT ![c] = "none"]
         /\ tree = [tree EXCEPT ![c] = "none"]
<1>1. c \in Holders /\ ~Alive(c)
  BY DEF GitInv, Supervised, Holders
<1>2. child[c] = "none" /\ tree[c] = "none"
  BY <1>1 DEF GitInv, GitTypeOK, Armed, Alive
<1>3. QED
  BY <1>1, <1>2 DEF GitInv, GitTypeOK

\* A child that cannot be started and pipes that are read to the end.
LEMMA AnswerKeeps ==
  ASSUME GitInv, NEW c \in Callers, NoSpawn(c) \/ Drain(c)
  PROVE  GitInv'
<1>1. PICK out \in Outcomes : Return(c, out)
  BY DEF NoSpawn, Drain, Outcomes
<1>2. git[c].pc \in {"spawn", "drain"}
  BY DEF NoSpawn, Drain
<1>3. ReturnPermit /\ UNCHANGED <<healthy, child, tree, kin>>
  BY DEF NoSpawn, Drain
<1>4. QED
  BY <1>1, <1>2, <1>3, NoProcess, ReturnKeeps

\* The child is started and observed, its group lives and is killed meanwhile.
LEMMA RunningKeeps ==
  ASSUME GitInv, NEW c \in Callers,
         \/ SpawnGit(c) \/ Observe(c) \/ Fork(c) \/ Escape(c) \/ Exit(c)
         \/ DescendantsEnd(c) \/ KillGroup(c) \/ CleanUpFails(c)
  PROVE  GitInv'
<1>1. GitTypeOK'
  <2>1. CASE SpawnGit(c)
    BY <2>1 DEF GitInv, GitTypeOK, SpawnGit, Attach, Proceed
  <2>2. CASE KillGroup(c)
    BY <2>2 DEF GitInv, GitTypeOK, KillGroup, Descendants
  <2>3. CASE Observe(c)
    BY <2>3 DEF GitInv, GitTypeOK, Observe, EndOfRun, Clean, Outcomes
  <2>4. CASE Fork(c)
    BY <2>4 DEF GitInv, GitTypeOK, Descendants, Fork
  <2>5. CASE Escape(c)
    BY <2>5 DEF GitInv, GitTypeOK, Descendants, Escape
  <2>6. CASE DescendantsEnd(c)
    BY <2>6 DEF GitInv, GitTypeOK, Descendants, DescendantsEnd
  <2>7. CASE Exit(c) \/ CleanUpFails(c)
    BY <2>7 DEF GitInv, GitTypeOK, Exit, CleanUpFails
  <2>8. QED
    BY <2>1, <2>2, <2>3, <2>4, <2>5, <2>6, <2>7
<1>2. permits' = permits
  BY DEF SpawnGit, Observe, EndOfRun, Fork, Escape, Exit, DescendantsEnd, KillGroup, CleanUpFails
<1>3. Holders' = Holders
  BY DEF GitInv, GitTypeOK, Holders, SpawnGit, Observe, EndOfRun, Fork, Escape, Exit,
         DescendantsEnd, KillGroup, CleanUpFails, Proceed, Clean
<1>4. Supervised' /\ Armed'
  <2>1. CASE SpawnGit(c)
    <3>1. Supervised'
      BY <2>1 DEF GitInv, GitTypeOK, Supervised, Alive, SpawnGit, Proceed
    <3>2. child' = [child EXCEPT ![c] = "live"] /\ tree' = [tree EXCEPT ![c] = "armed"] /\ kin' = kin
      BY <2>1 DEF SpawnGit, Attach
    <3>3. git'[c].pc = "run" /\ \A d \in Callers \ {c} : git'[d] = git[d]
      BY <2>1 DEF GitInv, GitTypeOK, SpawnGit, Proceed
    <3>4. /\ child'[c] = "live" /\ \A d \in Callers \ {c} : child'[d] = child[d]
          /\ tree'[c] = "armed" /\ \A d \in Callers \ {c} : tree'[d] = tree[d]
      BY <3>2 DEF GitInv, GitTypeOK
    <3>5. Armed'
      BY <3>2, <3>3, <3>4 DEF GitInv, Armed
    <3>6. QED
      BY <3>1, <3>5
  <2>2. CASE Fork(c) \/ Escape(c) \/ DescendantsEnd(c)
    BY <2>2 DEF GitInv, GitTypeOK, Supervised, Armed, Alive, Fork, Escape, DescendantsEnd
  <2>3. CASE KillGroup(c)
    BY <2>3 DEF GitInv, GitTypeOK, Supervised, Armed, Alive, KillGroup
  <2>4. CASE Exit(c) \/ CleanUpFails(c)
    BY <2>4 DEF GitInv, GitTypeOK, Supervised, Armed, Alive, Exit, CleanUpFails
  <2>5. CASE Observe(c)
    <3>1. PICK out : git' = [git EXCEPT ![c].pc = "clean", ![c].out = out]
      BY <2>5 DEF Observe, EndOfRun, Clean
    <3>2. git[c].pc = "run" /\ UNCHANGED <<child, tree, kin>>
      BY <2>5 DEF Observe, EndOfRun
    <3>3. QED
      BY <3>1, <3>2 DEF GitInv, GitTypeOK, Supervised, Armed, Alive
  <2>6. QED
    BY <2>1, <2>2, <2>3, <2>4, <2>5
<1>5. QED
  BY <1>1, <1>2, <1>3, <1>4, SamePermits DEF GitInv

\* The group is killed and the child reaped; the call answers, or reads on.
LEMMA CleanUpKeeps ==
  ASSUME GitInv, NEW c \in Callers, CleanUp(c)
  PROVE  GitInv'
<1>1. c \in Holders
  BY DEF CleanUp, Holders
<1>2. /\ tree[c] # "armed" /\ UNCHANGED <<healthy, kin>>
      /\ child' = [child EXCEPT ![c] = "none"] /\ tree' = [tree EXCEPT ![c] = "none"]
  BY DEF CleanUp
<1>3. CASE healthy /\ git[c].out = "ok"
  <2>1. Proceed(c, "drain") /\ permits' = permits
    BY <1>3 DEF CleanUp
  <2>2. GitTypeOK' /\ Holders' = Holders
    BY <1>1, <1>2, <2>1 DEF GitInv, GitTypeOK, Holders, Proceed
  <2>3. Supervised' /\ Armed'
    BY <1>1, <1>2, <2>1 DEF GitInv, GitTypeOK, Holders, Supervised, Armed, Alive, Proceed
  <2>4. QED
    BY <2>1, <2>2, <2>3, SamePermits DEF GitInv
<1>4. CASE ~(healthy /\ git[c].out = "ok")
  <2>1. PICK out \in Outcomes : Return(c, out) /\ ReturnPermit
    BY <1>4 DEF CleanUp, GitInv, GitTypeOK, Outcomes
  <2>2. QED
    BY <1>1, <1>2, <2>1, ReturnKeeps
<1>5. QED
  BY <1>3, <1>4

LEMMA GitStep == GitInv /\ [GitNext]_gitVars => GitInv'
<1> SUFFICES ASSUME GitInv, [GitNext]_gitVars PROVE GitInv'
  OBVIOUS
<1>1. CASE UNCHANGED gitVars
  <2>1. Holders' = Holders /\ GitTypeOK' /\ Supervised' /\ Armed'
    BY <1>1 DEF GitInv, GitTypeOK, Holders, Supervised, Armed, Alive, gitVars
  <2>2. QED
    BY <1>1, <2>1, SamePermits DEF GitInv, gitVars
<1>2. CASE GitNext
  <2>1. PICK c \in Callers :
           \/ BeginGit(c) \/ TimeUp(c) \/ Supervise(c)
           \/ Fork(c) \/ Escape(c) \/ Exit(c) \/ DescendantsEnd(c)
           \/ KillGroup(c) \/ CleanUp(c) \/ CleanUpFails(c)
    BY <1>2 DEF GitNext
  <2>2. QED
    BY <2>1, WaitingKeeps, AdmitKeeps, AnswerKeeps, RunningKeeps, CleanUpKeeps DEF Supervise
<1>3. QED
  BY <1>1, <1>2

\* The invariant says what the code promises: processes are those of holders.
LEMMA InvImpliesNoStrays == GitInv => NoStrayChildren
<1> SUFFICES ASSUME GitInv PROVE NoStrayChildren
  OBVIOUS
<1> DEFINE living == {c \in Callers : Alive(c)}
<1>1. living \subseteq Holders
  BY DEF GitInv, Supervised, Holders
<1>2. IsFiniteSet(living) /\ Cardinality(living) <= Cardinality(Holders)
  BY <1>1, FS_Subset DEF GitInv, PermitsCounted
<1>3. Cardinality(living) <= permits
  BY <1>2 DEF GitInv, PermitsCounted
<1>4. permits <= Permits
  BY PermitsAssumption DEF GitInv, GitTypeOK
<1>5. QED
  BY <1>3, <1>4 DEF GitInv, Supervised, Armed, NoStrayChildren

-----------------------------------------------------------------------------
(* Every reachable state of the supervision of Git is well typed; in        *)
(* particular there are never more than Permits permits out.                *)
THEOREM GitTypeCorrect == GitSpec => []GitTypeOK
<1>1. GitInv => GitTypeOK
  BY DEF GitInv
<1>2. QED
  BY <1>1, GitInitInv, GitStep, PTL DEF GitSpec

(* However calls end, for any number of threads and permits: an answered    *)
(* call leaves no child to reap and nothing in its group that was not sent  *)
(* SIGKILL, the signal never goes to a group whose leader is reaped, and    *)
(* there are never more groups than permits (output_with_limits, clean).    *)
(* Nothing is claimed of a descendant that left its group by setsid.        *)
THEOREM NoStrays == GitSpec => []NoStrayChildren
BY GitInitInv, GitStep, InvImpliesNoStrays, PTL DEF GitSpec
=============================================================================
