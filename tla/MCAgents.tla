------------------------------ MODULE MCAgents ------------------------------
(* Small instances of AdapterConfig, Presence, AgentSync and Relationships,  *)
(* which share no state: a behaviour of this run is one of the parts.        *)
(*                                                                           *)
(* "installer": one process, two writes of the user, one crash.              *)
(* "installers": two processes, one write, no crash.                         *)
(* "document": no behaviour, but every document of MCHooks.                  *)
(* "presence": three calls; one may repeat another's, take its name, or have   *)
(* a route, and the session may have an identifier, that is not projected.    *)
(* "sync": a task that moves between two desktop clients, two threads.       *)
(* "moving": two worktrees at one head, two changes of the repository.       *)
(* "failing": the same with a dev branch, one change, one failed command.    *)
EXTENDS AdapterConfig, Presence, AgentSync, Relationships

CONSTANTS p1, p2, a1, a2, a3, k, t1, o1, o2, s1, s2, w1, w2, k1, k2, k3

MCInstallers == {p1, p2}
Handler(id, kind) == [id |-> id, kind |-> kind]
Group(meta, hooks) == [meta |-> meta, hooks |-> hooks]
UserHandler == Handler("user", "exact")
Mixed == Group(TRUE, <<UserHandler, Handler("SessionStart", "edited")>>)
MCDocuments == [h \in {"native", "generic"} |->
    IF h = "generic" THEN {"descriptor", "other"}
    ELSE {[e \in {"SessionStart"} |-> <<Group(FALSE, <<UserHandler>>)>>],
          [e \in Events |-> IF e = "SessionStart" THEN <<Mixed>> ELSE <<ExpectedGroup(e)>>]}]

\* Groups of up to two handlers for one event, up to two small ones for the other.
MCHandlers == {UserHandler, Handler("SessionStart", "exact"), Handler("SessionStart", "edited"),
             Handler("SessionEnd", "exact"), Handler("SessionEnd", "old")}
Single == {Group(m, <<h>>) : m \in BOOLEAN, h \in MCHandlers}
Double == {Group(m, <<g, h>>) : m \in BOOLEAN, g \in MCHandlers, h \in MCHandlers}
MCHooks == {[e \in Events |-> IF e = "SessionStart" THEN start ELSE end] :
                start \in {<<>>} \cup {<<g>> : g \in Single \cup Double},
                end \in {<<>>} \cup {<<g>> : g \in Single} \cup {<<g, h>> : g \in Single, h \in Single}}

MCCalls == {a1, a2, a3}
Input(event, source, writes) == [event |-> event, source |-> source, writes |-> writes, route |-> "plain"]
Decision(route) == [Input("decision", Unset, FALSE) EXCEPT !.route = route]
MCInputs == [p \in MCCalls |->
    CASE p = a1 -> {Input("PostToolUse", k, TRUE)}
      [] p = a2 -> {Input("PostToolUse", k, TRUE), Input("PostToolUse", k, FALSE)} \cup {Decision(r) : r \in {"plain", "odd"}}
      [] p = a3 -> {Input("SessionEnd", Unset, FALSE), Input("PreToolUse", k, TRUE)}]

MCTasks == {t1}
MCOwners == {o1, o2}
MCActivities == {"active", "idle"}
MCSyncs == {s1, s2}

MCTrees == {w1, w2}
MCCommits == {k1, k2, k3}
MCParents == [c \in MCCommits |-> IF c = k1 THEN {} ELSE {k1}]
MCBranches == {"origin/main", "topic", "dev"}
MCListed == [t \in MCTrees |-> [branch |-> IF t = w1 THEN "topic" ELSE Absent, head |-> k2]]

MCFound == [MCDocuments EXCEPT !["native"] = @ \cup MCHooks]

VARIABLE part

Start ==
    /\ part \in {"installer", "installers", "document", "presence", "sync", "moving", "failing"}
    /\ RelationInit
    /\ part \in {"moving", "failing"} => repo.refs["origin/main"] \in {k1, k3}
    /\ repo.refs["dev"] # k3
    /\ repo.config # Absent => repo.config = "dev" /\ repo.refs["dev"] # Absent
    /\ part = "moving" => repo.refs["dev"] = Absent
    /\ part \notin {"moving", "failing"} =>
          repo.config = Absent /\ repo.refs["origin/main"] = Absent /\ repo.refs["dev"] = Absent
    /\ SyncInit
    /\ part # "sync" => catalog = {} /\ owner = [t \in MCTasks |-> o1]
    /\ PresenceInit
    /\ part # "presence" => backend = "sql" /\ world.session = "plain"
    /\ AdapterInit
    /\ IF part = "document" THEN host = "native" ELSE latest \in MCDocuments[host] \cup {Nothing}
    /\ part \notin {"installer", "installers", "document"} => host = "generic" /\ latest = Nothing
    /\ part = "installers" => host = "native" /\ latest = Nothing

OneInstaller == AdapterNext /\ inst'[p2].pc = "rest"
TwoInstallers == AdapterNext /\ bound'.crashes = 0 /\ bound'.edits < 2
Moving == RelationNext /\ failures' = 0
Failing == RelationNext /\ changes' < 2

Step ==
    \/ /\ \/ part = "installer" /\ OneInstaller
          \/ part = "installers" /\ TwoInstallers
       /\ UNCHANGED <<presenceVars, syncVars, relationVars>>
    \/ part = "presence" /\ PresenceNext /\ UNCHANGED <<adapterVars, syncVars, relationVars>>
    \/ part = "sync" /\ SyncNext /\ UNCHANGED <<adapterVars, presenceVars, relationVars>>
    \/ /\ \/ part = "moving" /\ Moving
          \/ part = "failing" /\ Failing
       /\ UNCHANGED <<adapterVars, presenceVars, syncVars>>

Spec == Start /\ [][Step /\ UNCHANGED part]_<<part, adapterVars, presenceVars, syncVars, relationVars>>
=============================================================================
