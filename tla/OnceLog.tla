------------------------------- MODULE OnceLog -------------------------------
(***************************************************************************)
(* What a session's event journal promises its callers: a batch of events  *)
(* enters the log whole, behind everything that is there, and only while   *)
(* none of its event identifiers is in the log; a batch is acknowledged    *)
(* only when each of its events is in the log with the content the caller  *)
(* sent.  Nothing ever leaves the log.                                     *)
(***************************************************************************)
EXTENDS Naturals, Sequences

CONSTANTS
    Batches     \* what callers append: sequences of events [id, body]

VARIABLES
    log,        \* the accepted events, oldest first
    accepted    \* the batches that were acknowledged

vars == <<log, accepted>>

Elements(s) == {s[i] : i \in 1..Len(s)}
Ids(s) == {s[i].id : i \in 1..Len(s)}

Init == log = <<>> /\ accepted = {}

Append1(b) ==
    /\ Ids(b) \cap Ids(log) = {}
    /\ log' = log \o b
    /\ UNCHANGED accepted

Acknowledge(b) ==
    /\ Elements(b) \subseteq Elements(log)
    /\ accepted' = accepted \cup {b}
    /\ UNCHANGED log

\* A transaction that commits and answers shows both at once.
Next == \E b \in Batches : Append1(b) \/ Acknowledge(b)

Spec == Init /\ [][Next]_vars
=============================================================================
