------------------------- MODULE MCRuntimeExchange -------------------------
(* Small instances of RuntimeExchange for TLC. *)
EXTENDS RuntimeExchange, TLC

CONSTANTS c1, c2, a1, a2, b1, m1, m2, q1

OneClient == {c1}
TwoClients == {c1, c2}
TwoMutations == {m1, m2}
OneMutation == {m1}
OneQuery == {q1}

\* c1 may reconnect once, c2 has a single connection.
Reconnecting == {a1, a2}
OneEach == {a1, b1}
Owners == [l \in Links |-> IF l = b1 THEN c2 ELSE c1]

Symmetry == Permutations({a1, a2}) \cup Permutations(TwoMutations)

\* Two clients with a connection each are interchangeable.
SwapClients == (c1 :> c2) @@ (c2 :> c1) @@ (a1 :> b1) @@ (b1 :> a1)
ClientSymmetry == {SwapClients}
=============================================================================
