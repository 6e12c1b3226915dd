----------------------------- MODULE MCExecutor -----------------------------
(* Small instances of Executor for TLC. *)
EXTENDS Executor, TLC

CONSTANTS l1, l2, l3, m1, m2, q1, q2

ThreeLinks == {l1, l2, l3}
TwoMutations == {m1, m2}
OneMutation == {m1}
TwoQueries == {q1, q2}
OneQuery == {q1}

Symmetry == Permutations(ThreeLinks) \cup Permutations(TwoMutations)
            \cup Permutations(TwoQueries)
=============================================================================
