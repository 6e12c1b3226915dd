---------------------------- MODULE MCRoutePlans ----------------------------
(* Small instances of RoutePlans for TLC. *)
EXTENDS RoutePlans, TLC

CONSTANTS c1, c2, r1, r2, r3, w1, w2, x1, x2, x3, x4, h1, h2

TwoCallers == {c1, c2}
ThreeRoutes == {r1, r2, r3}
TwoWorktrees == {w1, w2}
FourIds == {x1, x2, x3, x4}
TwoCommits == {h1, h2}

Request(i, r, e, w) == [id |-> i, route |-> r, expected |-> e, worktree |-> w]

\* Three routes are asked for where two fit; two edits expect the same
\* revision; the last two share a request id.
Mixed == {Request(x1, NoRoute, 0, w1), Request(x2, NoRoute, 0, w1),
          Request(x3, r1, 1, w2), Request(x4, r1, 1, w1), Request(x4, NoRoute, 0, w2)}

\* The first worktree's branch moves on or the worktree goes; the second has no
\* commit yet.
MovingHeads == (w1 :> {h1, h2, Missing}) @@ (w2 :> {NoCommit})

Symmetry == Permutations(TwoCallers) \cup Permutations({r2, r3})
=============================================================================
