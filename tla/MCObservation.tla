--------------------------- MODULE MCObservation ---------------------------
(* Small instances of QueryRead, OriginEvidence, ClientView, Dock and        *)
(* GitTopology, which share no state: a behaviour of this run is one part.   *)
(*                                                                           *)
(* "query": two clients' worktrees, which are interchangeable and no part of *)
(* anything else, and MaxEdits changes of the world.                         *)
(* "evidence": three worktrees whose files come in four chunks, two threads, *)
(* budgets that just suffice, just do not, or fail early.                    *)
(* "view": four inventories at three times, two of them partial and two at   *)
(* the same time with other tasks; two heads, one an ancestor of the other;  *)
(* a cache of two entries.                                                   *)
(* "moving": one chat that reports and moves, two worktrees, three ticks, of *)
(* which one is fresh.                                                       *)
(* "rosters": two chats, one deed, two ticks, every list and every cut.      *)
(* "topology": four commits, two of them merged, at most three shown; four   *)
(* references, at most two shown and three read, so that the last can move   *)
(* unseen; one commit may be shallow.                                        *)
EXTENDS QueryRead, OriginEvidence, ClientView, Dock, GitTopology, TLC

CONSTANTS c1, c2, i, j, h1, h2, t1, t2, w1, w2, k1, k2, k3, k4

MCClients == {c1, c2}
MCSymmetry == Permutations(MCClients)

MCChunks == <<<<2>>, <<1, 1>>, <<2>>>>
MCBudgets == {3, 5, 6}

T(u, w) == [upd |-> u, wd |-> w]
MCInventories == {
    [at |-> 1, tasks |-> [x \in {i, j} |-> T(1, IF x = i THEN 1 ELSE 0)], complete |-> TRUE],
    [at |-> 2, tasks |-> [x \in {i} |-> T(2, 0)], complete |-> FALSE],
    [at |-> 2, tasks |-> [x \in {j} |-> T(0, 2)], complete |-> FALSE],
    [at |-> 3, tasks |-> [x \in {i} |-> T(1, 1)], complete |-> TRUE]}
MCHeads == {h1, h2}
MCAncestors == [h \in MCHeads |-> IF h = h1 THEN {h1} ELSE MCHeads]

MCChats == {t1, t2}
MCWorktrees == {w1, w2}
MCHome == [t \in MCChats |-> w1]
\* A store that cannot be read, and a long and an unresolved history.
MCBackgrounds == {
    [hooked |-> [t \in MCChats |-> w1], git |-> [w \in MCWorktrees |-> "included"],
     stored |-> Nowhere],
    [hooked |-> [t \in MCChats |-> IF t = t1 THEN w2 ELSE Nowhere],
     git |-> [w \in MCWorktrees |-> "dirty"],
     stored |-> [w \in MCWorktrees |-> [records |-> IF w = w1 THEN 2 ELSE 1, known |-> w = w1]]]}

MCCommits == {k1, k2, k3, k4}
MCParents == [c \in MCCommits |-> CASE c = k4 -> {k2, k3} [] c = k2 -> {k1} [] OTHER -> {}]
MCOrder == <<k4, k3, k2, k1>>
MCRefs == <<"main", "work", "origin/main", "v1">>
MCKind == [n \in {"main", "work", "origin/main", "v1"} |->
    CASE n = "v1" -> "tag" [] n = "origin/main" -> "remote" [] OTHER -> "branch"]

VARIABLE part

Init ==
    /\ part \in {"query", "evidence", "view", "moving", "rosters", "topology"}
    /\ TopologyInit
    /\ part = "topology" => repo.refs["v1"] \in {k1, Gone} /\ repo.refs["work"] = k2 /\ repo.refs["main"] \in {k4, Blob, Gone}
    /\ part # "topology" => repo.head = Unborn /\ shallow = {} /\ \A n \in Names : repo.refs[n] = Gone
    /\ QueryInit /\ EvidenceInit /\ ViewInit /\ DockInit
    /\ part # "query" => world.store = "active"
    /\ part # "evidence" => budget = 3
    /\ part # "view" => head = h1 /\ embedded
    /\ part = "moving" => host[t2].life = "archived"
    /\ host[t1].life = "present"
    /\ part \notin {"moving", "rosters"} => background.stored = Nowhere /\ host[t2].life = "present"

\* Nothing reads the map: it is looked at once, when it is made.
Moving ==
    /\ map = Nowhere /\ DockNext /\ host'[t2] = host[t2]
    /\ \A l \in lists' : t2 \notin DOMAIN l.rows /\ \A t \in DOMAIN l.rows : l.rows[t].life # "unknown"
Rosters == map = Nowhere /\ DockNext /\ deeds' < 2 /\ clock' < 3

Next ==
    \/ part = "query" /\ QueryNext /\ UNCHANGED <<evidenceVars, viewVars, dockVars, topologyVars>>
    \/ part = "evidence" /\ EvidenceNext /\ UNCHANGED <<queryVars, viewVars, dockVars, topologyVars>>
    \/ part = "view" /\ ViewNext /\ UNCHANGED <<queryVars, evidenceVars, dockVars, topologyVars>>
    \/ part = "moving" /\ Moving /\ UNCHANGED <<queryVars, evidenceVars, viewVars, topologyVars>>
    \/ part = "rosters" /\ Rosters /\ UNCHANGED <<queryVars, evidenceVars, viewVars, topologyVars>>
    \/ part = "topology" /\ TopologyNext /\ UNCHANGED <<queryVars, evidenceVars, viewVars, dockVars>>

Spec == Init /\ [][Next /\ UNCHANGED part]_<<part, queryVars, evidenceVars, viewVars, dockVars,
                                             topologyVars>>
=============================================================================
