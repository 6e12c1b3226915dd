---------------------------- MODULE GitTopology ----------------------------
(* The commit graph of the map: git_topology.rs, the collection of Git facts *)
(* (DockProjectionContext.collect), what the map says of the references that *)
(* reach a worktree's head, and the budget of its output, in dock.rs.        *)
(*                                                                           *)
(* One worktree and the references of its repository; another process        *)
(* changes either during a collection, once in each attempt: two changes     *)
(* that undo each other between the two keys go unseen, as in the code.      *)
EXTENDS Naturals, Sequences, FiniteSetsExt, Functions

CONSTANTS Commits, Parents,   \* Parents[c]: set of commits
          TopoOrder,          \* the commits, children before parents
          RefOrder, Kind,     \* reference names as sorted; branch, remote or tag
          MaxRefs, MaxCommits,  \* 256 and 2048 in the code
          Gone,               \* no such reference
          Blob,               \* a reference to something that is no commit
          Unborn              \* the head of a worktree without a commit

ASSUME TopologyAssumption ==
    /\ Parents \in [Commits -> SUBSET Commits]
    /\ TopoOrder \in Seq(Commits) /\ Range(TopoOrder) = Commits
    /\ \A i, j \in DOMAIN TopoOrder : TopoOrder[j] \in Parents[TopoOrder[i]] => i < j
    /\ RefOrder \in Seq(Range(RefOrder)) /\ MaxRefs \in Nat /\ MaxCommits \in Nat
    /\ \A i, j \in DOMAIN RefOrder : RefOrder[i] = RefOrder[j] => i = j
    /\ {Gone, Blob, Unborn} \cap Commits = {}

VARIABLES repo,    \* [refs, head]
          shallow, \* commits whose parents were not cloned
          scan,    \* the collection under way
          chart,   \* the graph of the map, or Gone before there is one
          disturbed \* the repository changed during this attempt

topologyVars == <<repo, shallow, scan, chart, disturbed>>

Names == Range(RefOrder)
RefTargets == Commits \cup {Gone, Blob}
HeadOids == Commits \cup {Unborn}

\* What Git shows: the parents of a shallow commit are cut off.
GitParents == [c \in Commits |-> IF c \in shallow THEN {} ELSE Parents[c]]

TopologyInit ==
    /\ repo \in [refs : [Names -> RefTargets], head : HeadOids]
    /\ shallow \in {{}} \cup {{c} : c \in {x \in Commits : Parents[x] # {}}}
    /\ scan = [pc |-> "rest", retry |-> FALSE]
    /\ chart = Gone
    /\ disturbed = FALSE

---------------------------------------------------------------------------
(* GitTopologyCollector.scan, of references read at one instant.             *)

\* What is reached from c through the parents in P, c included.
Reached(P, c) ==
    LET reach[x \in Commits] == {x} \cup UNION {reach[p] : p \in P[x]}
    IN reach[c]

\* The first n members of a set, in an order.
Before(order, x, y) == \E i, j \in DOMAIN order : i < j /\ order[i] = x /\ order[j] = y
First(S, order, n) == {y \in S : Cardinality({x \in S \ {y} : Before(order, x, y)}) < n}

\* git for-each-ref --count: by name, one more than is shown.  What comes after
\* these is read neither for the graph nor for the key.
Counted(refs) == First({n \in Names : refs[n] # Gone}, RefOrder, MaxRefs + 1)

\* read_refs: references to commits, as many as are shown, and the others.
Listed(refs) == {n \in Counted(refs) : refs[n] \in Commits}
Displayed(refs) == First(Listed(refs), RefOrder, MaxRefs)
Omitted(refs) == Listed(refs) \ Displayed(refs)
Unsupported(refs) == {n \in Counted(refs) : refs[n] = Blob}

Tips(refs, head) == {refs[n] : n \in Displayed(refs)} \cup ({head} \cap Commits)

\* git rev-list --topo-order of the tips, one row more than is kept.
RevList(refs, head) == UNION {Reached(GitParents, c) : c \in Tips(refs, head)}

Bound(reason, oids) == {[reason |-> reason, oid |-> o] : o \in oids}

\* mark_unrelated_components: the roots, when the graph is in several pieces.
Unrelated(kept, edges) ==
    IF \E piece \in (SUBSET kept) \ {{}, kept} :
            \A e \in edges : e.from \in piece <=> e.to \in piece
    THEN {c \in kept : Parents[c] \cap kept = {}} ELSE {}

Collected(refs, head) ==
    LET rows == RevList(refs, head)
        cut == Cardinality(rows) > MaxCommits
        kept == First(rows, TopoOrder, MaxCommits)
        edges == {e \in [from : Commits, to : kept] : e.from \in GitParents[e.to]}
        outside == {e.from : e \in edges} \ kept
        limits == Bound("history_limit", {refs[n] : n \in Omitted(refs)})
                  \cup Bound("missing", {refs[n] : n \in Unsupported(refs)})
                  \cup Bound("history_limit", IF cut THEN Tips(refs, head) \ kept ELSE {})
                  \cup Bound("shallow", shallow \cap kept)
                  \cup Bound(IF cut THEN "history_limit" ELSE "missing", outside)
        complete == /\ ~cut /\ Omitted(refs) = {}
                    /\ Tips(refs, head) # {} => shallow = {}
                    /\ ~\E b \in limits : b.reason = "missing"
    IN [commits |-> kept, edges |-> edges, complete |-> complete,
        shown |-> [n \in Displayed(refs) |-> refs[n]],
        boundaries |-> limits \cup
            (IF complete THEN Bound("unrelated", Unrelated(kept, edges)) ELSE {})]

---------------------------------------------------------------------------
(* What the map says of a head: workspace_facts, ref_reaches_head.           *)

\* The walk goes through the commits of the graph and may end one beyond them.
Reaches(g, oid, head) ==
    head \in Reached([c \in Commits |-> IF c \in g.commits THEN GitParents[c] ELSE {}], oid)

HeadCoverage(g, head) ==
    IF head = Unborn THEN "unknown"
    ELSE IF \E n \in DOMAIN g.shown : Reaches(g, g.shown[n], head) THEN "protected"
    ELSE IF g.complete THEN "unprotected" ELSE "unknown"

Upstream(g, head) ==
    IF head # Unborn /\ \E n \in DOMAIN g.shown : Kind[n] = "remote" /\ Reaches(g, g.shown[n], head)
    THEN "published" ELSE "unknown"

---------------------------------------------------------------------------
(* The budget of the output: retain_topology_within_budget.                  *)

\* FAULT: only the references are given a boundary again.
FaultAttached(g, head, kept) == Range(g.shown) \ kept

\* An edge stays while its child does.
EdgesOf(g, kept) == {e \in g.edges : e.to \in kept}

\* What must stay visible: the ends of edges, references and heads.
Attached(g, head, kept) ==
    ({e.from : e \in EdgesOf(g, kept)} \cup Range(g.shown) \cup ({head} \cap Commits)) \ kept

\* How much of a history is left after n rounds: an eighth of the commits goes
\* in each, at least one.
Left(size, n) ==
    LET left[k \in 0 .. n] ==
            IF k = 0 THEN size ELSE left[k - 1] - Max({1, left[k - 1] \div 8})
    IN left[n]

\* After n rounds of it; a boundary that was there stays (rebuild_budget_boundaries).
Within(g, head, n) ==
    LET kept(k) == First(g.commits, TopoOrder, Left(Cardinality(g.commits), k))
    IN IF n = 0 THEN g
       ELSE [g EXCEPT !.commits = kept(n), !.complete = FALSE, !.edges = EdgesOf(g, kept(n)),
                      !.boundaries = @ \cup UNION {Bound("history_limit", Attached(g, head, kept(k))) : k \in 1 .. n}]

---------------------------------------------------------------------------
(* DockProjectionContext.collect.                                            *)

\* topology_cache_key; there is none for a shallow repository.
Keyed(refs) == Restrict(refs, Counted(refs))
Key(head) == IF shallow = {} THEN [refs |-> Keyed(repo.refs), head |-> head] ELSE Gone

ScanWorktrees ==
    /\ scan.pc = "rest"
    /\ scan' = [pc |-> "key", retry |-> scan.retry, head |-> repo.head]
    /\ disturbed' = FALSE
    /\ UNCHANGED <<repo, shallow, chart>>

OpeningKey ==
    /\ scan.pc = "key"
    /\ scan' = [pc |-> "read", retry |-> scan.retry, head |-> scan.head, key |-> Key(scan.head),
                graph |-> Gone, related |-> Gone]
    /\ UNCHANGED <<repo, shallow, chart, disturbed>>

\* The graph and the relationships are read side by side, in either order.
ReadTopology ==
    /\ scan.pc = "read" /\ scan.graph = Gone
    /\ scan' = [scan EXCEPT !.graph = [asOf |-> repo, body |-> Collected(repo.refs, scan.head)]]
    /\ UNCHANGED <<repo, shallow, chart, disturbed>>

ReadRelationships ==
    /\ scan.pc = "read" /\ scan.related = Gone
    /\ scan' = [scan EXCEPT !.related = repo.refs]
    /\ UNCHANGED <<repo, shallow, chart, disturbed>>

Read == scan.pc = "read" /\ Gone \notin {scan.graph, scan.related}

\* The worktrees once more, and the key of what they are now.
UnchangedSince == repo.head = scan.head /\ Key(repo.head) = scan.key

\* The map: what it says of the head comes from the graph before the budget.
Publish ==
    /\ Read /\ UnchangedSince
    /\ LET g == scan.graph.body
       IN \E n \in 0 .. Cardinality(g.commits) :
            /\ n > 0 => Left(Cardinality(g.commits), n - 1) > 0
            /\ chart' = [asOf |-> scan.graph.asOf, head |-> scan.head, related |-> scan.related,
                         coverage |-> HeadCoverage(g, scan.head), upstream |-> Upstream(g, scan.head),
                         graph |-> Within(g, scan.head, n)]
    /\ scan' = [pc |-> "done"]
    /\ UNCHANGED <<repo, shallow, disturbed>>

\* The application collects once more, then the query fails.
Changed ==
    /\ Read /\ ~UnchangedSince
    /\ scan' = IF scan.retry THEN [pc |-> "done"] ELSE [pc |-> "rest", retry |-> TRUE]
    /\ UNCHANGED <<repo, shallow, chart, disturbed>>

\* Another process: a commit, a checkout, a fetch, a deletion.
MoveRepository(now) ==
    /\ scan.pc \in {"key", "read"} /\ ~disturbed
    /\ now # repo /\ repo' = now
    /\ disturbed' = TRUE
    /\ UNCHANGED <<shallow, scan, chart>>

TopologyNext ==
    \/ ScanWorktrees \/ OpeningKey \/ ReadTopology \/ ReadRelationships \/ Publish \/ Changed
    \/ \E n \in Names, t \in RefTargets : MoveRepository([repo EXCEPT !.refs[n] = t])
    \/ \E h \in HeadOids : MoveRepository([repo EXCEPT !.head = h])

TopologySpec == TopologyInit /\ [][TopologyNext]_topologyVars

---------------------------------------------------------------------------
Protects(n, r) == r.refs[n] \in Commits /\ r.head \in Reached(Parents, r.refs[n])

\* What is said of the head is true of the repository at the instant it was
\* read, of the references that are not shown too.
CoverageTrue ==
    /\ chart.head = chart.asOf.head
    /\ chart.coverage = "protected" => \E n \in Names : Protects(n, chart.asOf)
    /\ chart.coverage = "unprotected" => ~\E n \in Names : Protects(n, chart.asOf)
    /\ chart.upstream = "published" =>
          \E n \in Names : Kind[n] = "remote" /\ Protects(n, chart.asOf)

\* Nothing hangs in the air, however little of the history is left.
NothingLoose ==
    LET g == chart.graph
        ends == g.commits \cup {b.oid : b \in g.boundaries}
    IN /\ \A e \in g.edges : e.from \in ends /\ e.to \in g.commits
       /\ Range(g.shown) \cup ({chart.head} \cap Commits) \subseteq ends

\* A graph that is called complete holds the whole history.
CompleteIsWhole ==
    chart.graph.complete =>
        chart.graph.commits = UNION {Reached(Parents, c) : c \in
            ({chart.head} \cup Range(chart.asOf.refs)) \cap Commits}

(* The map shows the history as it was at one instant, however the           *)
(* repository moved during the collection and however much of it the budget  *)
(* cuts off: what it says of the head is true, every reference and head is   *)
(* attached to a commit or a boundary, and complete means complete.  Graph    *)
(* and relationships agree on the references the keys hold, and on all when  *)
(* the graph is complete; of two instants they may be on the references past *)
(* the first MaxRefs + 1 names, which no key sees, and on every one in a     *)
(* shallow repository, which has no key.                                     *)
(* GitTopologyCollector.scan, DockProjectionContext.collect, bound_model.    *)
TopologyHonest ==
    chart # Gone =>
        /\ CoverageTrue /\ NothingLoose /\ CompleteIsWhole
        /\ shallow = {} =>
              /\ Keyed(chart.related) = Keyed(chart.asOf.refs)
              /\ chart.graph.complete => chart.related = chart.asOf.refs
=============================================================================
