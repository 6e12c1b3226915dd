---------------------------- MODULE RuntimeOwner ----------------------------
(***************************************************************************)
(* Election of the one process that owns a repository's shared runtime.    *)
(*                                                                         *)
(* Every client runs RuntimeClient::connect_with_idle: it dials the        *)
(* endpoint, and when nobody answers it takes startup.lock, probes         *)
(* owner.lock and spawns an owner process that carries a fresh instance    *)
(* nonce.  An owner runs owner::run: it takes owner.lock for its whole     *)
(* lifetime, starts the executor thread, binds the endpoint and serves.    *)
(*                                                                         *)
(* An Instance is one spawned owner process.  Nonces are never reused.     *)
(* A Client is one call of connect: several calls of one program are       *)
(* several Clients.                                                        *)
(***************************************************************************)
EXTENDS Naturals, FiniteSets

CONSTANTS Clients,         \* calls of RuntimeClient::connect
          Instances,       \* owner processes that may ever be spawned
          Nobody,          \* neither a client nor an instance
          MaxConnections,  \* protocol::MAX_CONNECTIONS
          Builds,          \* digests of the executables in use
          BuildOf,         \* [Clients -> Builds]: the client's own executable
          MaxKills         \* bound: processes killed from outside

ASSUME RuntimeOwnerAssumption ==
  /\ Nobody \notin Clients \cup Instances
  /\ Clients \cap Instances = {}
  /\ Nobody \notin Builds
  /\ BuildOf \in [Clients -> Builds]
  /\ MaxConnections \in Nat \ {0}
  /\ MaxKills \in Nat

VARIABLES
  pc,          \* [Clients -> ClientPc]: where the connect call stands
  dial,        \* [Clients -> Instances or Nobody]: stream without a HelloReply
  expected,    \* [Clients -> Instances or Nobody]: the owner it spawned
  late,        \* [Clients -> BOOLEAN]: START_BUDGET is used up
  startupLock, \* holder of startup.lock
  ownerLock,   \* holder of owner.lock: a client's probe or an owner
  op,          \* [Instances -> OwnerPc]: life of the owner process
  worker,      \* instances whose executor thread exists
  busy,        \* instances whose executor has accepted, unfinished work
  build,       \* [Instances -> Builds or Nobody]: the executable it runs
  conns,       \* [Instances -> SUBSET Clients]: running serve tasks
  endpoint,    \* the instance whose listener the socket file names
  crashed,     \* clients killed from outside (their destructors never ran)
  kills        \* processes killed from outside so far

vars == <<pc, dial, expected, late, startupLock, ownerLock, op, worker, busy,
          build, conns, endpoint, crashed, kills>>
clientVars == <<pc, dial, expected, late, startupLock>>
ownerVars == <<op, worker, busy, build, conns, endpoint>>

ClientPc == {"out", "probe", "startup", "reprobe", "owner", "spawn", "check",
             "failing", "in", "done", "err", "dead"}
OwnerPc == {"unborn", "started", "locked", "serving", "draining", "joined",
            "dying", "exited"}

Electing == {"probe", "startup", "reprobe", "owner", "spawn", "check"}
Over == {"done", "err", "dead"}
Running == {"started", "locked", "serving", "draining", "joined"}

TypeOK ==
  /\ pc \in [Clients -> ClientPc]
  /\ dial \in [Clients -> Instances \cup {Nobody}]
  /\ expected \in [Clients -> Instances \cup {Nobody}]
  /\ late \in [Clients -> BOOLEAN]
  /\ startupLock \in Clients \cup {Nobody}
  /\ ownerLock \in Clients \cup Instances \cup {Nobody}
  /\ op \in [Instances -> OwnerPc]
  /\ worker \subseteq Instances
  /\ busy \subseteq Instances
  /\ build \in [Instances -> Builds \cup {Nobody}]
  /\ conns \in [Instances -> SUBSET Clients]
  /\ endpoint \in Instances \cup {Nobody}
  /\ crashed \subseteq Clients
  /\ kills \in 0..MaxKills

Init ==
  /\ pc = [c \in Clients |-> "out"]
  /\ dial = [c \in Clients |-> Nobody]
  /\ expected = [c \in Clients |-> Nobody]
  /\ late = [c \in Clients |-> FALSE]
  /\ startupLock = Nobody
  /\ ownerLock = Nobody
  /\ op = [i \in Instances |-> "unborn"]
  /\ worker = {}
  /\ busy = {}
  /\ build = [i \in Instances |-> Nobody]
  /\ conns = [i \in Instances |-> {}]
  /\ endpoint = Nobody
  /\ crashed = {}
  /\ kills = 0

-----------------------------------------------------------------------------
(***************************************************************************)
(* The client: RuntimeClient::connect_with_idle.                           *)
(***************************************************************************)

\* A listener accepts into its backlog from bind until block_on returns.
Listening == endpoint # Nobody /\ op[endpoint] = "serving"

\* Where a client goes when `unavailable(&e)`: the lock-free probe falls
\* through to startup.lock; inside the loop a client that has not spawned
\* tries owner.lock, one that has only looks at the deadline.
AfterUnavailable(c) ==
  IF pc[c] = "probe" THEN "startup"
  ELSE IF expected[c] = Nobody THEN "owner" ELSE "check"

\* Fault: the child is detached on the error paths too.
FaultDetachAlways(c) == op

\* Fault: a child that already serves is spared.
FaultSpareServing(c) ==
  [i \in Instances |-> IF i = expected[c] /\ op[i] \in {"started", "locked"}
                       THEN "dying" ELSE op[i]]

\* `return Err(e)`: the locals drop in reverse order of declaration, so the
\* SpawnedOwner kills its child before owner_lock and startup are closed.
KilledChild(c) ==
  [i \in Instances |-> IF i = expected[c] /\ op[i] \in Running
                       THEN "dying" ELSE op[i]]

BeginConnect(c) ==
  /\ pc[c] = "out"
  /\ pc' = [pc EXCEPT ![c] = "probe"]
  /\ UNCHANGED <<dial, expected, late, startupLock, ownerLock, ownerVars,
                 crashed, kills>>

\* START_BUDGET elapses; the deadline starts with the wait for startup.lock.
Expire(c) ==
  /\ pc[c] \in Electing \ {"probe"}
  /\ ~late[c]
  /\ late' = [late EXCEPT ![c] = TRUE]
  /\ UNCHANGED <<pc, dial, expected, startupLock, ownerLock, ownerVars,
                 crashed, kills>>

\* connect_once: platform::connect and the hello frame, or a refusal.
Dial(c) ==
  /\ pc[c] \in {"probe", "reprobe"}
  /\ dial[c] = Nobody
  /\ IF Listening
       THEN /\ dial' = [dial EXCEPT ![c] = endpoint]
            /\ UNCHANGED pc
       ELSE /\ pc' = [pc EXCEPT ![c] = AfterUnavailable(c)]
            /\ UNCHANGED dial
  /\ UNCHANGED <<expected, late, startupLock, ownerLock, ownerVars, crashed,
                 kills>>

\* The first failed stage of `return Err(e)`: the spawned child is killed.
Fail(c) ==
  /\ pc' = [pc EXCEPT ![c] = "failing"]
  /\ dial' = [dial EXCEPT ![c] = Nobody]
  /\ op' = KilledChild(c)
  /\ worker' = {i \in worker : op'[i] # "dying"}
  /\ busy' = {i \in busy : op'[i] # "dying"}
  /\ UNCHANGED <<expected, late, startupLock, build, conns, endpoint, crashed,
                 kills>>

\* The rest of `return Err(e)`: SpawnedOwner::drop waits at most a second for
\* the child, whether or not it is gone by then the lock files are closed.
CloseLocks(c) ==
  /\ pc[c] = "failing"
  /\ pc' = [pc EXCEPT ![c] = "err"]
  /\ startupLock' = IF startupLock = c THEN Nobody ELSE startupLock
  /\ UNCHANGED <<dial, expected, late, ownerLock, ownerVars, crashed, kills>>

\* connect_once gives up after two seconds: TimedOut is not `unavailable`.
HandshakeDeadline(c) ==
  /\ dial[c] # Nobody
  /\ Fail(c)
  /\ UNCHANGED ownerLock

TakeStartup(c) ==
  /\ pc[c] = "startup"
  /\ startupLock = Nobody
  /\ startupLock' = c
  /\ pc' = [pc EXCEPT ![c] = "reprobe"]
  /\ UNCHANGED <<dial, expected, late, ownerLock, ownerVars, crashed, kills>>

StartupDeadline(c) ==
  /\ pc[c] = "startup"
  /\ startupLock # Nobody
  /\ late[c]
  /\ Fail(c)
  /\ UNCHANGED ownerLock

\* owner_lock.try_lock_exclusive(): a probe, held only until unlock.
TryOwner(c) ==
  /\ pc[c] = "owner"
  /\ IF ownerLock = Nobody
       THEN /\ ownerLock' = c
            /\ pc' = [pc EXCEPT ![c] = "spawn"]
       ELSE /\ pc' = [pc EXCEPT ![c] = "check"]
            /\ UNCHANGED ownerLock
  /\ UNCHANGED <<dial, expected, late, startupLock, ownerVars, crashed, kills>>

\* FileExt::unlock, a fresh nonce, platform::spawn_owner with current_exe().
Spawn(c) ==
  /\ pc[c] = "spawn"
  /\ ownerLock' = Nobody
  /\ \E i \in Instances :
       /\ op[i] = "unborn"
       /\ op' = [op EXCEPT ![i] = "started"]
       /\ expected' = [expected EXCEPT ![c] = i]
       /\ build' = [build EXCEPT ![i] = BuildOf[c]]
  /\ pc' = [pc EXCEPT ![c] = "check"]
  /\ UNCHANGED <<dial, late, startupLock, worker, busy, conns, endpoint,
                 crashed, kills>>

\* nonce() or spawn_owner fails after the probe was unlocked.
SpawnFails(c) ==
  /\ pc[c] = "spawn"
  /\ ownerLock' = Nobody
  /\ Fail(c)

\* Fault: the loop retries without looking at its deadline.
FaultRetryForever(c) ==
  /\ pc[c] = "check"
  /\ pc' = [pc EXCEPT ![c] = "reprobe"]
  /\ UNCHANGED <<dial, expected, late, startupLock, ownerLock, ownerVars,
                 crashed, kills>>

\* The end of the loop body: deadline, or sleep and connect again.
Retry(c) ==
  /\ pc[c] = "check"
  /\ ~late[c]
  /\ pc' = [pc EXCEPT ![c] = "reprobe"]
  /\ UNCHANGED <<dial, expected, late, startupLock, ownerLock, ownerVars,
                 crashed, kills>>

OwnerDeadline(c) ==
  /\ pc[c] = "check"
  /\ late[c]
  /\ Fail(c)
  /\ UNCHANGED ownerLock

\* The connected client disconnects, or meets a broken stream and drops it.
Leave(c) ==
  /\ pc[c] = "in"
  /\ pc' = [pc EXCEPT ![c] = "done"]
  /\ UNCHANGED <<dial, expected, late, startupLock, ownerLock, ownerVars,
                 crashed, kills>>

\* The client process is killed: the kernel closes its locks and streams,
\* SpawnedOwner::drop does not run and the child lives on.
KillClient(c) ==
  /\ kills < MaxKills
  /\ pc[c] \in Electing \cup {"failing"}
  /\ kills' = kills + 1
  /\ crashed' = crashed \cup {c}
  /\ pc' = [pc EXCEPT ![c] = "dead"]
  /\ dial' = [dial EXCEPT ![c] = Nobody]
  /\ startupLock' = IF startupLock = c THEN Nobody ELSE startupLock
  /\ ownerLock' = IF ownerLock = c THEN Nobody ELSE ownerLock
  /\ UNCHANGED <<expected, late, ownerVars>>

-----------------------------------------------------------------------------
(***************************************************************************)
(* The owner: owner::run, finish_owner and the handshake of serve.         *)
(***************************************************************************)

\* Streams to i that never got a reply are closed: those clients read
\* UnexpectedEof or ConnectionReset, which are both `unavailable`.
Hangup(i) ==
  /\ pc' = [c \in Clients |-> IF dial[c] = i THEN AfterUnavailable(c) ELSE pc[c]]
  /\ dial' = [c \in Clients |-> IF dial[c] = i THEN Nobody ELSE dial[c]]

\* identity, location or lock_file fails before any lock is taken (or
\* Executor::start after it, which closes the lock again at once).
OwnerStartFails(i) ==
  /\ op[i] = "started"
  /\ op' = [op EXCEPT ![i] = "exited"]
  /\ UNCHANGED <<clientVars, ownerLock, worker, busy, build, conns, endpoint,
                 crashed, kills>>

\* Fault: the outcome of the owner's own try_lock is ignored.
FaultLockIgnored(i) ==
  /\ op[i] = "started"
  /\ ownerLock' = i
  /\ worker' = worker \cup {i}
  /\ op' = [op EXCEPT ![i] = "locked"]
  /\ UNCHANGED <<clientVars, busy, build, conns, endpoint, crashed, kills>>

\* lock.try_lock_exclusive()?; Executor::start()
OwnerLock(i) ==
  /\ op[i] = "started"
  /\ IF ownerLock = Nobody
       THEN /\ ownerLock' = i
            /\ worker' = worker \cup {i}
            /\ op' = [op EXCEPT ![i] = "locked"]
       ELSE /\ op' = [op EXCEPT ![i] = "exited"]
            /\ UNCHANGED <<ownerLock, worker>>
  /\ UNCHANGED <<clientVars, busy, build, conns, endpoint, crashed, kills>>

\* Listener::bind unlinks the stale socket file and binds its own.
Bind(i) ==
  /\ op[i] = "locked"
  /\ endpoint' = i
  /\ op' = [op EXCEPT ![i] = "serving"]
  /\ UNCHANGED <<clientVars, ownerLock, worker, busy, build, conns, crashed,
                 kills>>

\* build() or Listener::bind fails: finish_owner without having served.
BindFails(i) ==
  /\ op[i] = "locked"
  /\ op' = [op EXCEPT ![i] = "draining"]
  /\ UNCHANGED <<clientVars, ownerLock, worker, busy, build, conns, endpoint,
                 crashed, kills>>

\* listener.accept with a free connection permit spawns a serve task ...
Accept(i, c) ==
  /\ op[i] = "serving"
  /\ dial[c] = i
  /\ c \notin conns[i]
  /\ Cardinality(conns[i]) < MaxConnections
  /\ conns' = [conns EXCEPT ![i] = @ \cup {c}]
  /\ UNCHANGED <<clientVars, ownerLock, op, worker, busy, build, endpoint,
                 crashed, kills>>

\* ... and without one the stream is dropped.
TurnAway(i, c) ==
  /\ op[i] = "serving"
  /\ dial[c] = i
  /\ c \notin conns[i]
  /\ Cardinality(conns[i]) = MaxConnections
  /\ pc' = [pc EXCEPT ![c] = AfterUnavailable(c)]
  /\ dial' = [dial EXCEPT ![c] = Nobody]
  /\ UNCHANGED <<expected, late, startupLock, ownerLock, ownerVars, crashed,
                 kills>>

\* serve writes HelloReply::Accepted and connect_once checks the welcome.
\* The child is detached and the locals, startup.lock with them, are dropped.
Welcomed(i, c) ==
  /\ op[i] = "serving"
  /\ dial[c] = i /\ c \in conns[i]
  /\ BuildOf[c] = build[i]
  /\ expected[c] \in {Nobody, i}
  /\ pc' = [pc EXCEPT ![c] = "in"]
  /\ dial' = [dial EXCEPT ![c] = Nobody]
  /\ startupLock' = IF startupLock = c THEN Nobody ELSE startupLock
  /\ UNCHANGED <<expected, late, ownerLock, ownerVars, crashed, kills>>

\* HelloReply::Rejected, or a welcome from an owner the client did not spawn.
Refused(i, c) ==
  /\ op[i] = "serving"
  /\ dial[c] = i /\ c \in conns[i]
  /\ BuildOf[c] # build[i] \/ expected[c] \notin {Nobody, i}
  /\ Fail(c)
  /\ UNCHANGED ownerLock

\* serve returns an error before it replied (unhealthy Git, identity).
ServeFails(i, c) ==
  /\ op[i] = "serving"
  /\ dial[c] = i /\ c \in conns[i]
  /\ conns' = [conns EXCEPT ![i] = @ \ {c}]
  /\ pc' = [pc EXCEPT ![c] = AfterUnavailable(c)]
  /\ dial' = [dial EXCEPT ![c] = Nobody]
  /\ UNCHANGED <<expected, late, startupLock, ownerLock, op, worker, busy,
                 build, endpoint, crashed, kills>>

\* Fault: only an orderly disconnect ends a serve task.
FaultServeLingers(i, c) ==
  /\ op[i] = "serving"
  /\ c \in conns[i]
  /\ pc[c] = "done"
  /\ conns' = [conns EXCEPT ![i] = @ \ {c}]
  /\ UNCHANGED <<clientVars, ownerLock, op, worker, busy, build, endpoint,
                 crashed, kills>>

\* serve ends after its handshake and returns the connection permit: end of
\* stream, a broken exchange, or five seconds without a request.
ServeEnds(i, c) ==
  /\ op[i] = "serving"
  /\ c \in conns[i]
  /\ dial[c] # i
  /\ conns' = [conns EXCEPT ![i] = @ \ {c}]
  /\ UNCHANGED <<clientVars, ownerLock, op, worker, busy, build, endpoint,
                 crashed, kills>>

\* An exchange hands a job to the executor; nothing cancels it any more.
Submit(i, c) ==
  /\ op[i] = "serving"
  /\ c \in conns[i] /\ pc[c] = "in"
  /\ busy' = busy \cup {i}
  /\ UNCHANGED <<clientVars, ownerLock, op, worker, build, conns, endpoint,
                 crashed, kills>>

WorkDone(i) ==
  /\ i \in busy
  /\ busy' = busy \ {i}
  /\ UNCHANGED <<clientVars, ownerLock, op, worker, build, conns, endpoint,
                 crashed, kills>>

\* block_on returns: the listener is gone and drop(reactor) ends every serve
\* task.  No task runs between the two, the reactor has a single thread.
StopServing(i) ==
  /\ op' = [op EXCEPT ![i] = "draining"]
  /\ conns' = [conns EXCEPT ![i] = {}]
  /\ Hangup(i)
  /\ UNCHANGED <<expected, late, startupLock, ownerLock, worker, busy, build,
                 endpoint, crashed, kills>>

IdleExit(i) ==
  /\ op[i] = "serving"
  /\ conns[i] = {}
  /\ StopServing(i)

\* Identity or Git cleanup failed, or the listener reported an error.
Quarantine(i) ==
  /\ op[i] = "serving"
  /\ StopServing(i)

\* finish_owner: drop(executor) joins the thread, accepted work included ...
DropExecutor(i) ==
  /\ op[i] = "draining"
  /\ i \notin busy
  /\ worker' = worker \ {i}
  /\ op' = [op EXCEPT ![i] = "joined"]
  /\ UNCHANGED <<clientVars, ownerLock, busy, build, conns, endpoint, crashed,
                 kills>>

\* Fault: the lock is dropped before the executor is joined.
FaultDropLockFirst(i) ==
  /\ op[i] = "draining" /\ ownerLock = i
  /\ ownerLock' = Nobody
  /\ UNCHANGED <<clientVars, op, worker, busy, build, conns, endpoint, crashed,
                 kills>>

\* ... and drop(lock) comes last.
DropLock(i) ==
  /\ op[i] = "joined"
  /\ ownerLock' = Nobody
  /\ op' = [op EXCEPT ![i] = "exited"]
  /\ UNCHANGED <<clientVars, worker, busy, build, conns, endpoint, crashed,
                 kills>>

\* The owner process is killed from outside.
KillOwner(i) ==
  /\ kills < MaxKills
  /\ op[i] \in Running
  /\ kills' = kills + 1
  /\ op' = [op EXCEPT ![i] = "dying"]
  /\ worker' = worker \ {i}
  /\ busy' = busy \ {i}
  /\ UNCHANGED <<clientVars, ownerLock, build, conns, endpoint, crashed>>

\* The kernel tears a killed owner down: only now is owner.lock free.
Reap(i) ==
  /\ op[i] = "dying"
  /\ op' = [op EXCEPT ![i] = "exited"]
  /\ ownerLock' = IF ownerLock = i THEN Nobody ELSE ownerLock
  /\ conns' = [conns EXCEPT ![i] = {}]
  /\ Hangup(i)
  /\ UNCHANGED <<expected, late, startupLock, worker, busy, build, endpoint,
                 crashed, kills>>

-----------------------------------------------------------------------------
ClientStep(c) ==
  \/ Dial(c) \/ Expire(c) \/ HandshakeDeadline(c)
  \/ TakeStartup(c) \/ StartupDeadline(c)
  \/ TryOwner(c) \/ Spawn(c) \/ SpawnFails(c)
  \/ Retry(c) \/ OwnerDeadline(c) \/ CloseLocks(c)

ServeStep(i, c) ==
  \/ Accept(i, c) \/ TurnAway(i, c) \/ Welcomed(i, c) \/ Refused(i, c)
  \/ ServeFails(i, c) \/ ServeEnds(i, c) \/ Submit(i, c)

OwnerStep(i) ==
  \/ OwnerStartFails(i) \/ OwnerLock(i) \/ Bind(i) \/ BindFails(i)
  \/ WorkDone(i) \/ IdleExit(i) \/ Quarantine(i)
  \/ DropExecutor(i) \/ DropLock(i) \/ Reap(i)

Next ==
  \/ \E c \in Clients : BeginConnect(c) \/ ClientStep(c) \/ Leave(c) \/ KillClient(c)
  \/ \E i \in Instances : OwnerStep(i) \/ KillOwner(i)
  \/ \E i \in Instances, c \in Clients : ServeStep(i, c)

Spec == Init /\ [][Next]_vars

-----------------------------------------------------------------------------
(***************************************************************************)
(* Properties.                                                             *)
(***************************************************************************)

\* Two application threads never exist for one repository, whatever is killed
\* and however long a disconnected client's accepted work runs on: the lock
\* outlives the executor in finish_owner (runtime/owner.rs).
OneWriter == Cardinality(worker) <= 1

\* Work the executor has accepted runs to its end under the repository's lock:
\* no exit path of owner::run gives the lock up while an application call that
\* nobody waits for any more might still commit.
WorkUnderLock == \A i \in busy : ownerLock = i

\* The socket file of a serving owner is never unlinked or rebound by another
\* one: Listener::bind runs only under the lifetime lock (runtime/unix.rs).
EndpointKept == \A i \in Instances : op[i] = "serving" => endpoint = i

\* Unless a client was killed, a client that spawned an owner reaches no other
\* one: nobody else's owner can win the race between unlock and the child's
\* own lock, so the handshake mismatch of connect_once never refuses it.
SpawnedOwnerWins ==
  crashed = {} => \A c \in Clients :
    expected[c] # Nobody /\ dial[c] # Nobody => dial[c] = expected[c]

\* Unless a client was killed, no owner process outlives a connect call that
\* failed: every running owner belongs to a call in progress or to one that
\* was welcomed (SpawnedOwner::detach and ::drop).
NoLeakedOwner ==
  crashed = {} => \A i \in Instances : op[i] \in Running =>
    \E c \in Clients : expected[c] = i /\ pc[c] \in Electing \cup {"in", "done"}

\* runtime/mod.rs: "a disconnected client may connect again without affecting
\* peers", and runtime/executor.rs: "Disconnect never cancels accepted work":
\* no owner dies with the accepted work of welcomed clients in its hands.
PeersUnaffected == [][\A i \in busy : op'[i] # "dying"]_vars

\* Every connect call ends, connected or with an error, even when an owner
\* holds the lock forever because its application is stalled.
ConnectTerminates ==
  \A c \in Clients : pc[c] = "probe" ~> pc[c] \in Over \cup {"in"}

\* An owner whose clients are all gone gives the repository up.
OwnerRetires ==
  \A i \in Instances :
    (op[i] = "serving" /\ \A c \in Clients : pc[c] \in Over) ~> op[i] = "exited"
=============================================================================
