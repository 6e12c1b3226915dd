----------------------- MODULE MCRuntimeOwnerLiveness -----------------------
(* RuntimeOwner where one side may never be scheduled again: the clients'    *)
(* deadlines must not depend on a live owner, nor an owner's retirement on   *)
(* live clients.  Beside it, sharing nothing, GitProcess: two callers run Git  *)
(* under one permit while both sides are stalled.                            *)
EXTENDS MCRuntimeOwner, GitProcess

CONSTANTS g1, g2
TwoCallers == {g1, g2}

VARIABLE stalled    \* the side without fairness: "clients", "owners" or "both"

StalledInit == Init /\ GitInit /\ stalled \in {"clients", "owners", "both"}

StalledNext ==
    \/ stalled # "both" /\ Next /\ UNCHANGED <<stalled, gitVars>>
    \/ stalled = "both" /\ GitNext /\ UNCHANGED <<stalled, vars>>

\* A client is a running thread with timers: it takes its next step, and its
\* deadlines expire.  An owner's reactor polls its tasks and timers, finish_owner
\* runs to its end, the kernel reaps, and the application finishes what it
\* accepted.  A serve task must end only when its client is gone: one that keeps
\* sending requests keeps its task.
StalledSpec ==
    /\ StalledInit /\ [][StalledNext]_<<vars, stalled, gitVars>>
    /\ GitFairness
    /\ \A c \in Clients :
          /\ WF_vars(stalled = "owners" /\ ClientStep(c))
          /\ WF_vars(stalled = "owners" /\ Expire(c))
    /\ \A i \in Instances :
          /\ WF_vars(stalled = "clients" /\ IdleExit(i))
          /\ WF_vars(stalled = "clients" /\ WorkDone(i))
          /\ WF_vars(stalled = "clients" /\ DropExecutor(i))
          /\ WF_vars(stalled = "clients" /\ DropLock(i))
          /\ WF_vars(stalled = "clients" /\ Reap(i))
          /\ \A c \in Clients : WF_vars(stalled = "clients" /\ pc[c] # "in" /\ ServeEnds(i, c))

\* Every connect call ends, connected or with an error, even when an owner holds
\* the lock forever because its application is stalled.
ConnectEndsUnaided == stalled = "owners" => ConnectTerminates

\* An owner whose clients are all gone gives the repository up, without any
\* further step of theirs.
OwnerRetiresUnaided == stalled = "clients" => OwnerRetires
=============================================================================
