--------------------------- MODULE OriginEvidence ---------------------------
(* The evidence of the registered worktrees, captured by several threads:    *)
(* store/origin_observation/origin_cache_parallel.rs and                     *)
(* origin_cache_admission.rs.                                                *)
(*                                                                           *)
(* A discovery lists the worktrees; up to four threads take them one by one, *)
(* and every byte they keep is first reserved in a budget they share.  The   *)
(* fragments are joined, checked for completeness and merged.  Where no      *)
(* thread could be started, or two fragments saw a shared directory          *)
(* differently, the serial capture is used instead.                          *)
EXTENDS Integers, Sequences

CONSTANTS Slots,     \* threads at most (4 in the code): 1..Slots
          Chunks,    \* per worktree, the sizes of the chunks its files are read in
          Budgets    \* values of MAX_BYTES to try

ASSUME EvidenceAssumption == Slots \in Nat \ {0} /\ Chunks \in Seq(Seq(Nat)) /\ Budgets \subseteq Nat

VARIABLES budget,    \* MAX_BYTES of this capture
          shared,    \* identity of a directory all worktrees share
          seen,      \* that identity as the discovery saw it
          next,      \* the next worktree to take
          thread,    \* per slot: what its thread does
          admission, \* the shared account: bytes, reserved, cancelled
          fragment,  \* per worktree: -1 (nothing yet), 0 (an error), or the identity it saw
          result     \* "none" yet, or what candidate returns

evidenceVars == <<budget, shared, seen, next, thread, admission, fragment, result>>

Tasks == 1..Len(Chunks)
Threads == 1..Slots

\* The sum of the first n numbers of f.
Sum(f, n) == LET sum[k \in 0..n] == IF k = 0 THEN 0 ELSE sum[k - 1] + f[k] IN sum[n]
SizeOf(w) == Sum(Chunks[w], Len(Chunks[w]))
Total == Sum([w \in Tasks |-> SizeOf(w)], Len(Chunks))

\* discover has run: the worktrees are known, the shared directory seen.
EvidenceInit ==
    /\ budget \in Budgets
    /\ shared = 1 /\ seen = 1 /\ next = 1
    /\ thread = [t \in Threads |-> [pc |-> "new", task |-> 0, chunk |-> 0, saw |-> 0]]
    /\ admission = [bytes |-> 0, reserved |-> 0, cancelled |-> FALSE]
    /\ fragment = [w \in Tasks |-> -1]
    /\ result = "none"

Move(t, pc) == thread' = [thread EXCEPT ![t].pc = pc]
Size(t) == Chunks[thread[t].task][thread[t].chunk]

\* Threads are started in the order of their slots until one is refused.
Start(t) ==
    /\ thread[t].pc = "new"
    /\ \A s \in 1..(t - 1) : thread[s].pc \notin {"new", "refused"}
    /\ \E pc \in {"free", "refused"} : Move(t, pc)
    /\ UNCHANGED <<budget, shared, seen, next, admission, fragment, result>>

TakeTask(t) ==
    /\ thread[t].pc = "free"
    /\ next' = next + 1
    /\ thread' = [thread EXCEPT ![t] =
            IF next > Len(Chunks) THEN [@ EXCEPT !.pc = "ended"]
            ELSE [pc |-> "reading", task |-> next, chunk |-> 1, saw |-> shared]]
    /\ UNCHANGED <<budget, shared, seen, admission, fragment, result>>

\* FAULT: what other threads have reserved is not counted.
FaultAdmissible(t) == ~admission.cancelled /\ admission.bytes + Size(t) <= budget

\* append_checked: reserve, make room, commit, append.
Admissible(t) ==
    ~admission.cancelled /\ admission.bytes + admission.reserved + Size(t) <= budget

Reserve(t) ==
    /\ thread[t].pc = "reading" /\ thread[t].chunk <= Len(Chunks[thread[t].task])
    /\ IF Admissible(t)
       THEN /\ admission' = [admission EXCEPT !.reserved = @ + Size(t)]
            /\ Move(t, "holding")
            /\ UNCHANGED fragment
       ELSE /\ fragment' = [fragment EXCEPT ![thread[t].task] = 0]
            /\ Move(t, "free")
            /\ UNCHANGED admission
    /\ UNCHANGED <<budget, shared, seen, next, result>>

\* A reservation that is not committed is handed back when it is dropped.
Commit(t) ==
    /\ thread[t].pc = "holding"
    /\ IF admission.cancelled
       THEN /\ admission' = [admission EXCEPT !.reserved = @ - Size(t)]
            /\ fragment' = [fragment EXCEPT ![thread[t].task] = 0]
            /\ Move(t, "free")
       ELSE /\ admission' = [admission EXCEPT !.reserved = @ - Size(t), !.bytes = @ + Size(t)]
            /\ thread' = [thread EXCEPT ![t].pc = "reading", ![t].chunk = @ + 1]
            /\ UNCHANGED fragment
    /\ UNCHANGED <<budget, shared, seen, next, result>>

Complete(t) ==
    /\ thread[t].pc = "reading" /\ thread[t].chunk > Len(Chunks[thread[t].task])
    /\ fragment' = [fragment EXCEPT ![thread[t].task] = thread[t].saw]
    /\ Move(t, "free")
    /\ UNCHANGED <<budget, shared, seen, next, admission, result>>

\* A thread that panics takes its fragments along and drops its reservation.
Panic(t) ==
    /\ thread[t].pc \in {"reading", "holding"}
    /\ admission' = IF thread[t].pc = "holding"
                    THEN [admission EXCEPT !.reserved = @ - Size(t)] ELSE admission
    /\ Move(t, "panicked")
    /\ UNCHANGED <<budget, shared, seen, next, fragment, result>>

\* Threads are joined in order; the first one found panicked cancels the rest.
Ended(t) == thread[t].pc \in {"ended", "panicked"}
CancelRest ==
    /\ ~admission.cancelled
    /\ \E t \in Threads : thread[t].pc = "panicked" /\ \A s \in 1..t : Ended(s)
    /\ admission' = [admission EXCEPT !.cancelled = TRUE]
    /\ UNCHANGED <<budget, shared, seen, next, thread, fragment, result>>

\* The shared directory is replaced meanwhile.
Replace ==
    /\ shared = 1 /\ result = "none"
    /\ shared' = 2
    /\ UNCHANGED <<budget, seen, next, thread, admission, fragment, result>>

Panicked == \E t \in Threads : thread[t].pc = "panicked"
RefusedSlot == \E t \in Threads : thread[t].pc = "refused"
Serial == IF Total > budget THEN "error" ELSE "serial"

\* All threads are joined: a panic or a failed fragment ends the capture; a
\* refused thread or a conflict falls back to the serial one.
Joined ==
    \A t \in Threads :
        Ended(t) \/ thread[t].pc = "refused" \/ \E s \in 1..t : thread[s].pc = "refused"
Missing == {w \in Tasks : fragment[w] = -1}

Merge ==
    /\ result = "none" /\ Joined
    /\ result' = IF \/ Panicked
                    \/ \E w \in Tasks : fragment[w] = 0
                    \/ Missing # {} /\ ~(RefusedSlot /\ next = 1)
                    \/ admission.cancelled \/ admission.reserved # 0
                 THEN "error"
                 ELSE IF RefusedSlot \/ \E w \in Tasks : fragment[w] # seen THEN Serial
                 ELSE "evidence"
    /\ UNCHANGED <<budget, shared, seen, next, thread, admission, fragment>>

EvidenceNext ==
    \/ \E t \in Threads : \/ Start(t) \/ TakeTask(t) \/ Reserve(t) \/ Commit(t)
                          \/ Complete(t) \/ Panic(t)
    \/ CancelRest \/ Replace \/ Merge

EvidenceSpec == EvidenceInit /\ [][EvidenceNext]_evidenceVars

---------------------------------------------------------------------------
(* Whatever the threads' order, the capture keeps within its budget, refuses  *)
(* exactly the repositories the serial capture refuses, and returns merged    *)
(* fragments only if every worktree is among them, all bytes are accounted    *)
(* for and all saw the same shared directories; a panic is never a success.   *)
(* collect, Admission, Evidence::capture.                                     *)
CapturesAgree ==
    /\ admission.bytes + admission.reserved <= budget
    /\ result # "none" =>
        /\ Panicked => result = "error"
        /\ ~Panicked => (result = "error" <=> Total > budget)
        /\ result = "evidence" =>
            /\ admission.bytes = Total
            /\ \A w \in Tasks : fragment[w] = seen
=============================================================================
