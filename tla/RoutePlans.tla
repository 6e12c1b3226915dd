----------------------------- MODULE RoutePlans -----------------------------
(***************************************************************************)
(* RoutePlanStore::set (route_plan.rs): revision-checked plans with a      *)
(* receipt per request, in the file journal and in SQL.                    *)
(*                                                                         *)
(* A Caller is one process that calls set, directly or as the runtime      *)
(* owner.  It may call again with an input it or another caller has used:  *)
(* that is how a lost answer is retried.                                   *)
(*                                                                         *)
(* origin_write takes the transition guard, SQLite's IMMEDIATE transaction *)
(* and the file lock one after the other before anything is read; `holder` *)
(* stands for the chain.  The journal is the sequence of its records; a    *)
(* file can end in an incomplete line (`damage`), a transaction cannot.       *)
(***************************************************************************)
EXTENDS Naturals, Sequences, FiniteSets

CONSTANTS Callers,
          Nobody,      \* not a caller
          RequestIds,
          Routes,      \* route ids; getrandom never draws one twice
          NoRoute,     \* route_id: None
          Worktrees,
          Commits,
          NoCommit,    \* HEAD of a worktree without a commit
          Missing,     \* HEAD of a worktree that is bare, prunable or gone
          Heads,       \* [Worktrees -> set of the HEADs it may have]
          NoPlan, NoInput,
          Inputs,      \* the PlanInputs callers use
          MaxPlans,    \* MAX_PLANS
          MaxRecords   \* MAX_JOURNAL_BYTES, counted in records

PlanInput == [id : RequestIds, route : Routes \cup {NoRoute}, expected : Nat,
              worktree : Worktrees]
Plan == [route : Routes, revision : Nat, worktree : Worktrees, start : Commits]
Record == [input : PlanInput, plan : Plan]

ASSUME RoutePlansAssumption ==
  /\ Nobody \notin Callers
  /\ NoRoute \notin Routes
  /\ NoCommit \notin Commits /\ Missing \notin Commits /\ NoCommit # Missing
  /\ Heads \in [Worktrees -> SUBSET (Commits \cup {NoCommit, Missing})]
  /\ NoPlan \notin Plan /\ NoInput \notin Inputs
  /\ Inputs \subseteq PlanInput
  /\ MaxPlans \in Nat /\ MaxRecords \in Nat

VARIABLES
  backend,  \* "legacy": route-plans.jsonl, "sql": route_records
  records,  \* the journal
  damage,   \* "tail": the file does not end with a newline, "line": a line
            \* within it is incomplete
  holder,   \* who holds the locks
  phase,    \* [Callers -> "idle", "wait" or "write"]
  input,    \* [Callers -> PlanInput of the call, or NoInput]
  draft,    \* [Callers -> set of at most one Record]: built, not written
  reply,    \* what the call that returned last answered
  answers,  \* history: the [input, plan] of successful calls
  head      \* [Worktrees -> Commits, NoCommit or Missing]: source Git

planVars == <<backend, records, damage, holder, phase, input, draft, reply,
              answers, head>>

\* What build answers a new request it does not accept.
Refusals == {"missing", "conflict", "limit", "worktree", "unborn"}

\* "failed" is an error that does not depend on the request: a lock that stays
\* taken, a full or unreadable journal, an unverified origin, Git or I/O.
Replies == {"none", "ok", "reused", "failed"} \cup Refusals

PlansTypeOK ==
  /\ backend \in {"legacy", "sql"}
  /\ records \in Seq(Record)
  /\ damage \in {"none", "tail", "line"}
  /\ holder \in Callers \cup {Nobody}
  /\ phase \in [Callers -> {"idle", "wait", "write"}]
  /\ input \in [Callers -> Inputs \cup {NoInput}]
  /\ draft \in [Callers -> SUBSET Record]
  /\ reply \in Replies
  /\ answers \subseteq Record
  /\ head \in [Worktrees -> Commits \cup {NoCommit, Missing}]
  /\ \A w \in Worktrees : head[w] \in Heads[w]

PlansInit ==
  /\ backend \in {"legacy", "sql"}
  /\ records = <<>>
  /\ damage = "none"
  /\ holder = Nobody
  /\ phase = [c \in Callers |-> "idle"]
  /\ input = [c \in Callers |-> NoInput]
  /\ draft = [c \in Callers |-> {}]
  /\ reply = "none"
  /\ answers = {}
  /\ head \in [Worktrees -> Commits \cup {NoCommit, Missing}]
  /\ \A w \in Worktrees : head[w] \in Heads[w]

-----------------------------------------------------------------------------
(***************************************************************************)
(* The journal as its readers see it.                                      *)
(***************************************************************************)

\* Positions of a route's records.
Places(s, r) == {k \in 1..Len(s) : s[k].plan.route = r}

\* records.iter().rev().find, and the map list_with_starts returns.
Latest(s, r) ==
  IF Places(s, r) = {} THEN NoPlan
  ELSE s[CHOOSE k \in Places(s, r) : \A j \in Places(s, r) : j <= k].plan

\* Known routes, of which there may be MAX_PLANS.
KnownRoutes(s) == {r \in Routes : Places(s, r) # {}}

\* The record agrees with its own input.
Consistent(rec) ==
  /\ rec.plan.worktree = rec.input.worktree
  /\ rec.plan.revision = rec.input.expected + 1
  /\ rec.input.route = (IF rec.plan.revision = 1 THEN NoRoute ELSE rec.plan.route)

\* parse_records: revisions of a route count up from one, its start commit
\* stays, no request id occurs twice.
Readable(s) ==
  /\ \A k \in 1..Len(s) :
       /\ Consistent(s[k])
       /\ s[k].plan.revision = Cardinality({j \in Places(s, s[k].plan.route) : j <= k})
       /\ \A j \in Places(s, s[k].plan.route) : s[j].plan.start = s[k].plan.start
  /\ \A j, k \in 1..Len(s) : s[j].input.id = s[k].input.id => j = k
  /\ Cardinality(KnownRoutes(s)) <= MaxPlans

-----------------------------------------------------------------------------
(***************************************************************************)
(* RoutePlanStore::set.                                                    *)
(***************************************************************************)

Call(c, x) ==
  /\ phase[c] = "idle"
  /\ phase' = [phase EXCEPT ![c] = "wait"]
  /\ input' = [input EXCEPT ![c] = x]
  /\ UNCHANGED <<backend, records, damage, holder, draft, reply, answers, head>>

\* set returns.
Return(c, result) ==
  /\ phase' = [phase EXCEPT ![c] = "idle"]
  /\ input' = [input EXCEPT ![c] = NoInput]
  /\ draft' = [draft EXCEPT ![c] = {}]
  /\ reply' = result
  /\ UNCHANGED <<backend, head>>

ReturnPlan(c, p) ==
  /\ Return(c, "ok")
  /\ answers' = answers \cup {[input |-> input[c], plan |-> p]}

ReturnError(c, error) == Return(c, error) /\ UNCHANGED answers

\* The guard, the database or the file stays locked for two seconds.
LockTimeout(c) ==
  /\ phase[c] = "wait" /\ holder # Nobody
  /\ ReturnError(c, "failed")
  /\ UNCHANGED <<records, damage, holder>>

\* Fault: a last line without its newline is skipped.
FaultSkipTorn(c) == phase[c] = "wait" /\ holder = Nobody /\ damage # "line" /\ Readable(records)

\* Locked, and the journal is read without an error.
Reading(c) ==
  /\ phase[c] = "wait" /\ holder = Nobody
  /\ damage = "none" /\ Readable(records)

\* The journal, the origins of the repository or Git cannot be read.
ReadFails(c) ==
  /\ phase[c] = "wait" /\ holder = Nobody
  /\ ReturnError(c, "failed")
  /\ UNCHANGED <<records, damage, holder>>

\* Fault: only a request for the current revision is looked up.
FaultReceiptOfLatest(x) ==
  {k \in 1..Len(records) :
     records[k].input.id = x.id /\ records[k].plan = Latest(records, records[k].plan.route)}

\* Records of the request that a reader finds; build looks at them first.
Receipts(x) == {k \in 1..Len(records) : records[k].input.id = x.id}

Replay(c) ==
  /\ Reading(c)
  /\ \E k \in Receipts(input[c]) :
       IF records[k].input = input[c] THEN ReturnPlan(c, records[k].plan)
       ELSE ReturnError(c, "reused")
  /\ UNCHANGED <<records, damage, holder>>

\* The first obstacle build meets once the request turned out to be new.
Refusal(x) ==
  LET previous == IF x.route = NoRoute THEN NoPlan ELSE Latest(records, x.route)
      revision == IF previous = NoPlan THEN 0 ELSE previous.revision
  IN
  IF x.route # NoRoute /\ previous = NoPlan THEN "missing"
  ELSE IF revision # x.expected THEN "conflict"
  ELSE IF previous = NoPlan /\ Cardinality(KnownRoutes(records)) >= MaxPlans THEN "limit"
  ELSE IF head[x.worktree] = Missing
          /\ (IF previous = NoPlan THEN TRUE ELSE previous.worktree # x.worktree) THEN "worktree"
  ELSE IF previous = NoPlan /\ head[x.worktree] = NoCommit THEN "unborn" ELSE "none"

Refuse(c) ==
  /\ Reading(c)
  /\ Receipts(input[c]) = {}
  /\ Refusal(input[c]) # "none"
  /\ ReturnError(c, Refusal(input[c]))
  /\ UNCHANGED <<records, damage, holder>>

\* Fault: an edit starts its route anew.
FaultBuilt(x) ==
  {[route |-> r, revision |-> x.expected + 1, worktree |-> x.worktree,
    start |-> head[x.worktree]] :
     r \in IF x.route = NoRoute THEN Routes \ KnownRoutes(records) ELSE {x.route}}

\* The plans build may return: a new route draws an unused id and starts at
\* the worktree's HEAD, an edit keeps the route's start.
Built(x) ==
  IF x.route = NoRoute
  THEN {[route |-> r, revision |-> 1, worktree |-> x.worktree, start |-> head[x.worktree]] :
          r \in Routes \ KnownRoutes(records)}
  ELSE {[Latest(records, x.route) EXCEPT !.revision = @ + 1, !.worktree = x.worktree]}

Build(c) ==
  /\ Reading(c)
  /\ Receipts(input[c]) = {}
  /\ Refusal(input[c]) = "none"
  /\ \E p \in Built(input[c]) :
       draft' = [draft EXCEPT ![c] = {[input |-> input[c], plan |-> p]}]
  /\ holder' = c
  /\ phase' = [phase EXCEPT ![c] = "write"]
  /\ UNCHANGED <<backend, records, damage, input, reply, answers, head>>

\* Fault: the answer does not wait for the record.
FaultAnswerFirst(c) ==
  /\ phase[c] = "write"
  /\ \E rec \in draft[c] : ReturnPlan(c, rec.plan)
  /\ holder' = Nobody
  /\ UNCHANGED <<records, damage>>

\* Bytes written behind an incomplete line become part of it.
Damaged == IF damage = "tail" THEN "line" ELSE damage

\* The record is written and synced, or the transaction commits.
Commit(c) ==
  /\ phase[c] = "write"
  /\ Len(records) < MaxRecords
  /\ \E rec \in draft[c] :
       /\ records' = Append(records, rec)
       /\ ReturnPlan(c, rec.plan)
  /\ damage' = Damaged
  /\ holder' = Nobody

\* MAX_JOURNAL_BYTES; SQL also rolls back when the target is no verified
\* origin, or origins changed meanwhile.
GiveUp(c) ==
  /\ phase[c] = "write"
  /\ \/ Len(records) >= MaxRecords /\ ReturnError(c, "failed")
     \/ backend = "sql" /\ ReturnError(c, "failed")
  /\ holder' = Nobody
  /\ UNCHANGED <<records, damage>>

\* What a write leaves behind that did not return: nothing, the whole record,
\* or, in the file, a part of it.
Interrupted(c) ==
  /\ Len(records) < MaxRecords
  /\ \/ UNCHANGED <<records, damage>>
     \/ (\E rec \in draft[c] : records' = Append(records, rec)) /\ damage' = Damaged
     \/ backend = "legacy" /\ damage' = "tail" /\ UNCHANGED records

\* write_all, sync_all or the commit reports an error.
WriteFails(c) ==
  /\ phase[c] = "write"
  /\ Interrupted(c)
  /\ holder' = Nobody
  /\ ReturnError(c, "failed")

\* The caller's process dies; its locks are released.
Die(c) ==
  /\ phase[c] # "idle"
  /\ IF phase[c] = "write" THEN Interrupted(c) ELSE UNCHANGED <<records, damage>>
  /\ holder' = IF holder = c THEN Nobody ELSE holder
  /\ phase' = [phase EXCEPT ![c] = "idle"]
  /\ draft' = [draft EXCEPT ![c] = {}]
  /\ input' = [input EXCEPT ![c] = NoInput]
  /\ reply' = "none"
  /\ UNCHANGED <<backend, answers, head>>

\* Somebody commits in, adds or removes a worktree.
GitMoves(w) ==
  /\ \E h \in Heads[w] : head' = [head EXCEPT ![w] = h]
  /\ UNCHANGED <<backend, records, damage, holder, phase, input, draft, reply, answers>>

-----------------------------------------------------------------------------
SetStep(c) ==
  \/ \E x \in Inputs : Call(c, x)
  \/ LockTimeout(c) \/ ReadFails(c)
  \/ Replay(c) \/ Refuse(c) \/ Build(c)
  \/ Commit(c) \/ GiveUp(c) \/ WriteFails(c) \/ Die(c)

PlansNext == (\E c \in Callers : SetStep(c)) \/ \E w \in Worktrees : GitMoves(w)

PlansSpec == PlansInit /\ [][PlansNext]_planVars

-----------------------------------------------------------------------------
(***************************************************************************)
(* Properties.                                                             *)
(***************************************************************************)

\* No sequence of calls, retries, failed writes and crashes makes the journal
\* one that parse_records refuses: set never writes what list cannot read.
\* At worst a crash leaves the last line incomplete: then every plan is refused
\* until it is reconciled by hand, and nothing is ever written behind it.
StaysReadable == Readable(records) /\ damage # "line"

\* A successful call is durable: the answer a caller got stands in the journal
\* with the input it was given for, whatever crashes follow.
AnswersKept == answers \subseteq {records[k] : k \in 1..Len(records)}

\* A request is answered with success in one way only, however often, by
\* whom and after how many later edits it is retried.
SameAnswer == \A a, b \in answers : a.input.id = b.input.id => a = b

\* Two successful calls never produce the same revision of a route: of two
\* callers that expect the same revision one learns of the conflict.
NoLostUpdate ==
  \A a, b \in answers :
    a.plan.route = b.plan.route /\ a.plan.revision = b.plan.revision => a = b

\* A retry of a request that took effect is never refused: not for a revision
\* that has moved on, a full route table or a worktree that is gone.
RetryNeverRefused ==
  [][\A c \in Callers :
       phase[c] = "wait" /\ phase'[c] = "idle" /\ reply' \in Refusals
       => \A k \in 1..Len(records) : records[k].input # input[c]]_planVars

\* The journal implements revision-checked registers with receipts.
Register ==
  INSTANCE PlanRegister WITH
    plan <- [r \in Routes |-> Latest(records, r)],
    receipts <- {records[k] : k \in 1..Len(records)}

ImplementsRegister == Register!RegisterSpec
=============================================================================
