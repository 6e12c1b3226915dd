------------------------- MODULE MCBackendMigration -------------------------
(* Small instances of BackendMigration: two processes, two items in the main *)
(* and a linked worktree, two backup directories.                            *)
EXTENDS BackendMigration, TLC

CONSTANTS p1, p2, i1, i2, o1, o2, b1, b2

MCProcs == {p1, p2}
MCItems == {i1, i2}
MCOrigins == {o1, o2}
MCOriginOf == (i1 :> o1) @@ (i2 :> o2)
MCBackups == {b1, b2}
Symmetry == Permutations(MCProcs) \cup Permutations(MCBackups)
=============================================================================
