---------------------------- MODULE PlanRegister ----------------------------
(***************************************************************************)
(* What RoutePlanStore promises: every route is a register that is changed *)
(* by compare-and-set on its revision, and every request that changed one  *)
(* leaves a receipt.  A request changes at most one register, once.        *)
(***************************************************************************)
EXTENDS Naturals, FiniteSets

CONSTANTS Inputs,    \* PlanInput: [id, route, expected, worktree]
          Routes, Commits, NoRoute, NoPlan, MaxPlans

VARIABLES
  plan,     \* [Routes -> Plan or NoPlan]: what list returns
  receipts  \* [input, plan] of every request that took effect

registerVars == <<plan, receipts>>

Used == {r \in Routes : plan[r] # NoPlan}
Unused(x) == \A t \in receipts : t.input.id # x.id

RegisterInit ==
  /\ plan = [r \in Routes |-> NoPlan]
  /\ receipts = {}

Put(x, p) ==
  /\ plan' = [plan EXCEPT ![p.route] = p]
  /\ receipts' = receipts \cup {[input |-> x, plan |-> p]}

\* A request without a route opens a register at revision one.
Open(x, r, commit) ==
  /\ x.route = NoRoute /\ x.expected = 0
  /\ r \notin Used
  /\ Cardinality(Used) < MaxPlans
  /\ Put(x, [route |-> r, revision |-> 1, worktree |-> x.worktree, start |-> commit])

\* A request with a route replaces the revision it expects; where the route
\* started never changes.
Replace(x, r) ==
  /\ x.route = r
  /\ r \in Used
  /\ plan[r].revision = x.expected
  /\ Put(x, [route |-> r, revision |-> x.expected + 1, worktree |-> x.worktree,
             start |-> plan[r].start])

RegisterNext ==
  \E x \in Inputs :
    /\ Unused(x)
    /\ \E r \in Routes :
         Replace(x, r) \/ \E commit \in Commits : Open(x, r, commit)

RegisterSpec == RegisterInit /\ [][RegisterNext]_registerVars
=============================================================================
