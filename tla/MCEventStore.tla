---------------------------- MODULE MCEventStore ----------------------------
(* Small instances of Journal and TaskBindings, which share no state: a      *)
(* behaviour of this run is one of the journal or one of the bindings.       *)
(*                                                                           *)
(* Journal: two processes and five batches: a pair, its second half, a pair  *)
(* that overlaps it, the same identifier with another content, a batch of    *)
(* its own.  Bindings: two tasks and two worktrees; observations of one or   *)
(* both tasks at three times, two of which disagree at the same time.        *)
EXTENDS Journal, TaskBindings

CONSTANTS e1, e2, e3, e4, w1, w2, k1, k2, v1, v2

E(i, v) == [id |-> i, body |-> v]
MCWriters == {w1, w2}
MCBatches == {<<E(e1, 1), E(e2, 1)>>, <<E(e2, 1)>>, <<E(e2, 1), E(e3, 1)>>, <<E(e1, 2)>>, <<E(e4, 1)>>}

A(k, v) == [task |-> k, wt |-> v]
O(t, l) == [at |-> t, list |-> l]
MCTasks == {k1, k2}
MCWorktrees == {v1, v2}
MCObservations == {
    O(1, <<A(k1, v1)>>), O(2, <<A(k1, v2), A(k2, v1)>>), O(2, <<A(k1, v1)>>),
    O(3, <<A(k2, v2), A(k1, v1)>>), O(3, <<A(k2, v1)>>)}

BothBackends == {"file", "sql"}

VARIABLE part

Init ==
    /\ part \in {"journal", "bindings"}
    /\ JournalInit /\ BindingsInit
    /\ part = "journal" => store = "sql"
    /\ part = "bindings" => backend = "sql"

Next ==
    \/ part = "journal" /\ JournalNext /\ UNCHANGED <<part, bindingVars>>
    \/ part = "bindings" /\ BindingsNext /\ UNCHANGED <<part, journalVars>>

Spec == Init /\ [][Next]_<<part, journalVars, bindingVars>>
=============================================================================
