----------------------------- MODULE GitProcess -----------------------------
(* Running Git children on Unix: src/src/git_process.rs and its unix.rs.     *)
(*                                                                           *)
(* Every call of Git runs under the time budget of its thread, takes one of  *)
(* a few process-wide permits, spawns a child as the leader of a process     *)
(* group and reads the two pipes.  Whatever ends the call, an exit, too much *)
(* output, the deadline or an I/O error, the group is sent SIGKILL and then  *)
(* the child reaped before the call answers.  Nobody waits for the           *)
(* descendants: those in the group die soon, those that called setsid are    *)
(* out of reach.  A clean-up that cannot be confirmed keeps its permit and   *)
(* its handles, tries again without end and takes the whole process out of   *)
(* service.                                                                  *)
EXTENDS Integers, FiniteSets

CONSTANTS Callers,   \* threads that run Git
          Permits    \* children at a time (4 in the code)

ASSUME PermitsAssumption == Permits \in Nat \ {0}

VARIABLES permits,   \* ADMISSION: permits taken
          healthy,   \* HEALTHY: no clean-up has failed in this process
          git,       \* per caller: where its call is, is its time up, its result
          child,     \* per caller: its direct child
          tree,      \* per caller: the handle of the group, "armed" until its signal
          kin        \* per caller: the descendants of its children that run

gitVars == <<permits, healthy, git, child, tree, kin>>

\* A descendant is in the group of a child, has been sent SIGKILL with that
\* group, or has left it for a session of its own.
Descendants == {"group", "dying", "escaped"}

\* What a call ends with: Output or a GitProcessError.
Outcomes == {"ok", "io", "limit", "deadline", "cleanup"}

GitInit ==
    /\ permits = 0
    /\ healthy = TRUE
    /\ git = [c \in Callers |-> [pc |-> "rest", expired |-> FALSE, out |-> "ok"]]
    /\ child = [c \in Callers |-> "none"]
    /\ tree = [c \in Callers |-> "none"]
    /\ kin = [c \in Callers |-> {}]

Proceed(c, pc) == git' = [git EXCEPT ![c].pc = pc]
Clean(c, out) == git' = [git EXCEPT ![c].pc = "clean", ![c].out = out]

\* Without a child the call answers at once; the permit goes back on every path.
Return(c, out) ==
    git' = [git EXCEPT ![c].pc = "rest", ![c].expired = FALSE, ![c].out = out]
ReturnPermit == permits' = permits - 1

\* A call starts under the budget of its thread: its own, or the rest of an
\* outer one, which may already be used up.
BeginGit(c) ==
    /\ git[c].pc = "rest"
    /\ \E used \in BOOLEAN : git' = [git EXCEPT ![c].pc = "admit", ![c].expired = used]
    /\ UNCHANGED <<permits, healthy, child, tree, kin>>

\* Time passes: the budget, or the command's own limit, runs out.
TimeUp(c) ==
    /\ git[c].pc \in {"admit", "spawn", "run", "drain"}
    /\ ~git[c].expired
    /\ git' = [git EXCEPT ![c].expired = TRUE]
    /\ UNCHANGED <<permits, healthy, child, tree, kin>>

\* FAULT: the loop that waits for a permit looks at neither.
FaultRefusal(c) ==
    IF permits >= Permits THEN "none"
    ELSE IF ~healthy THEN "cleanup" ELSE IF git[c].expired THEN "deadline" ELSE "none"

\* The admission loop: health first, then the deadline, then a permit.
Refusal(c) == IF ~healthy THEN "cleanup" ELSE IF git[c].expired THEN "deadline" ELSE "none"

Refuse(c) ==
    /\ git[c].pc = "admit"
    /\ Refusal(c) # "none"
    /\ Return(c, Refusal(c))
    /\ UNCHANGED <<permits, healthy, child, tree, kin>>

Admit(c) ==
    /\ git[c].pc = "admit"
    /\ Refusal(c) = "none"
    /\ permits < Permits
    /\ permits' = permits + 1
    /\ Proceed(c, "spawn")
    /\ UNCHANGED <<healthy, child, tree, kin>>

\* The handle of the child's group.  It fails without a process id, which a
\* child nobody has waited for always has.
Attach(c) == tree' = [tree EXCEPT ![c] = "armed"]

\* supervise: too late, the child cannot be started, or it runs; health is not
\* looked at again between the admission and the spawn.
NoSpawn(c) ==
    /\ git[c].pc = "spawn"
    /\ \E out \in {"io", "deadline"} :
        /\ (out = "deadline") <=> git[c].expired
        /\ Return(c, out)
    /\ ReturnPermit
    /\ UNCHANGED <<healthy, child, tree, kin>>

SpawnGit(c) ==
    /\ git[c].pc = "spawn"
    /\ ~git[c].expired
    /\ child' = [child EXCEPT ![c] = "live"]
    /\ Attach(c)
    /\ Proceed(c, "run")
    /\ UNCHANGED <<permits, healthy, kin>>

\* The child or one of its group starts a process, which may outlive it.
Fork(c) ==
    /\ child[c] = "live" \/ "group" \in kin[c]
    /\ kin' = [kin EXCEPT ![c] = @ \cup {"group"}]
    /\ UNCHANGED <<permits, healthy, git, child, tree>>

\* A descendant, never the leader of the group, calls setsid.
Escape(c) ==
    /\ "group" \in kin[c]
    /\ kin' = [kin EXCEPT ![c] = @ \cup {"escaped"}]
    /\ UNCHANGED <<permits, healthy, git, child, tree>>

\* The child exits, and waits to be reaped; descendants end.
Exit(c) ==
    /\ child[c] = "live"
    /\ child' = [child EXCEPT ![c] = "exited"]
    /\ UNCHANGED <<permits, healthy, git, tree, kin>>

DescendantsEnd(c) ==
    /\ \E gone \in kin[c] : kin' = [kin EXCEPT ![c] = @ \ {gone}]
    /\ UNCHANGED <<permits, healthy, git, child, tree>>

\* FAULT: a call whose time is up answers without cleaning up.
FaultEndOfRun(c, out) ==
    /\ git[c].pc = "run"
    /\ out = "ok" => child[c] = "exited"
    /\ out = "deadline" => git[c].expired
    /\ IF out = "deadline" THEN Return(c, out) /\ ReturnPermit
                           ELSE Clean(c, out) /\ UNCHANGED permits
    /\ UNCHANGED <<healthy, child, tree, kin>>

\* The supervised read ends: the exit is seen without reaping the child, a
\* pipe is over its limit or broken, or the deadline passes.
EndOfRun(c, out) ==
    /\ git[c].pc = "run"
    /\ out = "ok" => child[c] = "exited"
    /\ out = "deadline" => git[c].expired
    /\ Clean(c, out)
    /\ UNCHANGED <<permits, healthy, child, tree, kin>>

Observe(c) == \E out \in {"ok", "io", "limit", "deadline"} : EndOfRun(c, out)

\* clean: SIGKILL goes to the whole group, once and for all, while its leader
\* still holds the group's number; what was in it dies, awaited by nobody.
KillGroup(c) ==
    /\ git[c].pc = "clean" /\ tree[c] = "armed"
    /\ tree' = [tree EXCEPT ![c] = "killed"]
    /\ child' = [child EXCEPT ![c] = "exited"]
    /\ kin' = [kin EXCEPT ![c] = IF "group" \in @ THEN (@ \ {"group"}) \cup {"dying"} ELSE @]
    /\ UNCHANGED <<permits, healthy, git>>

\* The child is then reaped; the health is asked again, and an exit goes on to
\* read what the pipes hold.
CleanUp(c) ==
    /\ git[c].pc = "clean" /\ tree[c] = "killed"
    /\ child' = [child EXCEPT ![c] = "none"]
    /\ tree' = [tree EXCEPT ![c] = "none"]
    /\ UNCHANGED kin
    /\ IF healthy /\ git[c].out = "ok"
       THEN Proceed(c, "drain") /\ UNCHANGED permits
       ELSE Return(c, IF healthy THEN git[c].out ELSE "cleanup") /\ ReturnPermit
    /\ UNCHANGED healthy

\* An attempt whose signal is refused or whose child is not reaped in time: out
\* of service, and tried again from where it stopped.
CleanUpFails(c) ==
    /\ git[c].pc = "clean"
    /\ healthy' = FALSE
    /\ UNCHANGED <<permits, git, child, tree, kin>>

\* What descendants left in the pipes, under the same deadline: one that is out
\* of reach may hold a pipe open until then.
Drain(c) ==
    /\ git[c].pc = "drain"
    /\ \E out \in {"ok", "io", "limit", "deadline"} :
        /\ out = "deadline" => git[c].expired
        /\ Return(c, out)
    /\ ReturnPermit
    /\ UNCHANGED <<healthy, child, tree, kin>>

Supervise(c) ==
    \/ Refuse(c) \/ Admit(c) \/ NoSpawn(c) \/ SpawnGit(c) \/ Observe(c) \/ Drain(c)

GitNext ==
    \E c \in Callers :
        \/ BeginGit(c) \/ TimeUp(c) \/ Supervise(c)
        \/ Fork(c) \/ Escape(c) \/ Exit(c) \/ DescendantsEnd(c)
        \/ KillGroup(c) \/ CleanUp(c) \/ CleanUpFails(c)

GitSpec == GitInit /\ [][GitNext]_gitVars

\* The threads go on and time passes; a clean-up need never succeed, a child
\* need never exit, its pipes need never end: only the deadline is certain.
Due(c) == Supervise(c) /\ (git[c].pc \in {"run", "drain"} => git[c].expired)

GitFairness ==
    \A c \in Callers : WF_gitVars(Due(c)) /\ WF_gitVars(TimeUp(c))

---------------------------------------------------------------------------
GitTypeOK ==
    /\ permits \in 0..Permits
    /\ healthy \in BOOLEAN
    /\ git \in [Callers -> [pc : {"rest", "admit", "spawn", "run", "clean", "drain"},
                             expired : BOOLEAN, out : Outcomes]]
    /\ child \in [Callers -> {"none", "live", "exited"}]
    /\ tree \in [Callers -> {"none", "armed", "killed"}]
    /\ kin \in [Callers -> SUBSET Descendants]

\* A child not yet reaped, or a descendant in its group that nobody has killed.
Alive(c) == child[c] # "none" \/ "group" \in kin[c]

(* However calls end, by an exit, a deadline, too much output or a failed     *)
(* clean-up, an answered call leaves no child to reap and no process in its   *)
(* group that was not sent SIGKILL; the signal never goes to a group whose    *)
(* leader is reaped, whose number may be another's; and there are never more  *)
(* such groups than permits: output_with_limits, clean, terminate_and_wait.   *)
(* A descendant may outlive the answer if it escaped by setsid, which unix.rs *)
(* says of itself, or while it dies.                                          *)
NoStrayChildren ==
    /\ \A c \in Callers : Alive(c) => git[c].pc \in {"run", "clean"}
    /\ \A c \in Callers : tree[c] = "armed" => child[c] # "none"
    /\ Cardinality({c \in Callers : Alive(c)}) <= permits
    /\ permits <= Permits

(* A clean-up that never succeeds keeps a permit for good; every other call, *)
(* waiting for a permit or supervising, still ends: admit's deadline and      *)
(* health check.                                                              *)
GitCallsEnd ==
    \A c \in Callers : git[c].pc # "rest" ~> git[c].pc \in {"rest", "clean"}
=============================================================================
