--------------------------- MODULE MCRuntimeOwner ---------------------------
(* Small instances of RuntimeOwner for TLC. *)
EXTENDS RuntimeOwner, TLC

CONSTANTS c1, c2, c3, i1, i2, i3

TwoClients == {c1, c2}
ThreeClients == {c1, c2, c3}
TwoInstances == {i1, i2}
ThreeInstances == {i1, i2, i3}
TwoBuilds == {"old", "new"}
SameBuild == [c \in TwoClients |-> "old"]
Upgrade == [c \in ThreeClients |-> IF c = c1 THEN "new" ELSE "old"]

\* c2 and c3 are interchangeable under Upgrade, and so are the instances.
Symmetry == Permutations({c2, c3}) \cup Permutations(ThreeInstances)
=============================================================================
