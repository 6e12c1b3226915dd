----------------------------- MODULE ClientView -----------------------------
(* What a client shows: application.rs (ClientView, accept_inventory),       *)
(* proxy.rs and the history of dock.rs.                                      *)
(*                                                                           *)
(* A client keeps its view through restarts of the repository owner: the     *)
(* newest inventory of tasks it accepted and the map it last showed.  The    *)
(* owner keeps none of it; every call carries the view.  Inventories are     *)
(* observed by several hosts, wait for the client's lock and arrive in any   *)
(* order; an answer may be lost, and the call is then made once more.        *)
(* Clients meet only in the owner's cache of ancestry.                       *)
EXTENDS Integers, FiniteSets

CONSTANTS Heads, Ancestors,   \* Ancestors[h]: what h descends from, h included
          Inventories,  \* [at, tasks, complete]; tasks: id -> [upd, wd]
          MaxKnown,     \* entries of the ancestry cache (1024 in the code)
          Away          \* no head: the worktree is not there

ASSUME ViewAssumption ==
    \A inv \in Inventories :
        /\ inv.at \in Nat
        /\ \A i \in DOMAIN inv.tasks : inv.tasks[i].upd \in Int /\ inv.tasks[i].wd \in Int

VARIABLES embedded, \* the client hands its view to the application itself, or
                    \* goes through QueryProxy
          accepted, \* the inventory its view holds
          shown,    \* the map it shows: head and warning of a worktree, and the
                    \* last other head shown before (history, not in the code)
          call,     \* the call it makes, under its lock
          head,     \* that worktree's head in Git, or Away while it is away
          known     \* the owner's cache of ancestry: set of <<old, new, warning>>

viewVars == <<embedded, accepted, shown, call, head, known>>

NoTasks == [i \in {} |-> Away]
Rest == [pc |-> "rest"]

ViewInit ==
    /\ embedded \in BOOLEAN
    /\ accepted = [at |-> 0, tasks |-> NoTasks, complete |-> FALSE]
    /\ shown = [head |-> Away, warned |-> "no", from |-> Away]
    /\ call = Rest
    /\ head \in Heads
    /\ known = {}

---------------------------------------------------------------------------
(* Accepting an inventory: RepositoryApplication.accept_inventory_inner.     *)

\* An older row keeps the newer one known, a report the newer report.
Newest(new, old) ==
    [upd |-> IF new.upd < old.upd THEN old.upd ELSE new.upd,
     wd |-> IF new.wd < old.wd THEN old.wd ELSE new.wd]

Merged(prior, inv) ==
    LET kept == IF inv.complete THEN {} ELSE DOMAIN prior.tasks
    IN [i \in DOMAIN inv.tasks \cup kept |->
            CASE i \notin DOMAIN inv.tasks -> prior.tasks[i]
              [] i \in DOMAIN prior.tasks \cap DOMAIN inv.tasks ->
                    Newest(inv.tasks[i], prior.tasks[i])
              [] OTHER -> inv.tasks[i]]

\* An inventory older than the watermark changes nothing.
AcceptedBy(prior, inv) ==
    IF inv.at < prior.at THEN prior
    ELSE [at |-> inv.at, tasks |-> Merged(prior, inv), complete |-> inv.complete]

\* FAULT: the subset is emptied for a late inventory too.
FaultPrior(inv) == IF embedded THEN accepted ELSE [accepted EXCEPT !.tasks = NoTasks]

\* QueryProxy hands in an empty subset to be replaced, but the whole view when
\* its inventory is late; an embedded client always the whole view.
Prior(inv) ==
    IF embedded \/ inv.at < accepted.at THEN accepted
    ELSE [accepted EXCEPT !.tasks = NoTasks]

AcceptInventory(inv) ==
    /\ call = Rest
    /\ call' = [pc |-> "accept", inv |-> inv, prior |-> Prior(inv), retry |-> FALSE]
    /\ UNCHANGED <<embedded, accepted, shown, head, known>>

\* ClientView.apply_inventory: never an older inventory than the view's.
Applied(inv) == IF accepted.at > inv.at THEN accepted ELSE inv

AnswerAccept ==
    /\ call.pc = "accept"
    /\ accepted' = Applied(AcceptedBy(call.prior, call.inv))
    /\ call' = [pc |-> "project", retry |-> FALSE]
    /\ UNCHANGED <<embedded, shown, head, known>>

\* A call whose answer is lost is made once more, with the same input, to the
\* same owner or a new one; an error of the domain, or the second loss, ends it.
LoseAnswer ==
    /\ call # Rest /\ ~call.retry /\ ~embedded
    /\ call' = [call EXCEPT !.retry = TRUE]
    /\ known' \in {known, {}}
    /\ UNCHANGED <<embedded, accepted, shown, head>>

FailCall ==
    /\ call # Rest
    /\ call' = Rest
    /\ UNCHANGED <<embedded, accepted, shown, head, known>>

---------------------------------------------------------------------------
(* Refreshing the map; the query carries the head last shown.                *)

Refresh ==
    /\ call = Rest
    /\ call' = [pc |-> "project", retry |-> FALSE]
    /\ UNCHANGED <<embedded, accepted, shown, head, known>>

\* git merge-base --is-ancestor; the objects may be gone.
Ancestry(old, new) ==
    IF old \in Ancestors[new] THEN {"no", "unverified"} ELSE {"changed", "unverified"}

Lookup(old, new) ==
    LET cached == {k \in known : k[1] = old /\ k[2] = new}
    IN IF cached # {} THEN {k[3] : k \in cached} ELSE Ancestry(old, new)

\* A full cache is emptied for the next entry.
Remember(old, new, w) ==
    IF <<old, new, w>> \in known THEN known
    ELSE {k \in known : Cardinality(known) < MaxKnown} \cup {<<old, new, w>>}

\* FAULT: a head that has not moved since the last refresh carries no warning.
FaultWarnings(old, warned, new) ==
    IF old = new \/ Away \in {old, new} THEN {"no"} ELSE Lookup(old, new)

\* apply_history: a warning stays while the head stays, and is looked up when
\* the head has moved; without both heads there is nothing to compare.
Warnings(old, warned, new) ==
    IF old = new THEN {warned}
    ELSE IF Away \in {old, new} THEN {"no"} ELSE Lookup(old, new)

\* apply_projection shows the answer: one map after the other.
Show ==
    /\ call.pc = "project"
    /\ LET old == shown.head
           compared == old # head /\ Away \notin {old, head}
       IN \E w \in Warnings(old, shown.warned, head) :
            /\ shown' = [head |-> head, warned |-> w,
                         from |-> IF compared THEN old
                                  ELSE IF old = head THEN shown.from ELSE Away]
            /\ known' = IF compared THEN Remember(old, head, w) ELSE known
    /\ call' = Rest
    /\ UNCHANGED <<embedded, accepted, head>>

---------------------------------------------------------------------------
(* The surroundings: Git, other clients of the owner, and a new collection   *)
(* or a new owner, which start with no ancestry.                             *)

MoveHead(h) == head # h /\ head' = h /\ UNCHANGED <<embedded, accepted, shown, call, known>>

OtherClient(old, new) ==
    /\ old # new
    /\ \E w \in Lookup(old, new) : known' = Remember(old, new, w)
    /\ UNCHANGED <<embedded, accepted, shown, call, head>>

ForgetAncestry == known # {} /\ known' = {} /\ UNCHANGED <<embedded, accepted, shown, call, head>>

ViewNext ==
    \/ \E inv \in Inventories : AcceptInventory(inv)
    \/ AnswerAccept \/ LoseAnswer \/ FailCall \/ Refresh \/ Show
    \/ \E h \in Heads \cup {Away} : MoveHead(h)
    \/ \E old, new \in Heads : OtherClient(old, new)
    \/ ForgetAncestry

ViewSpec == ViewInit /\ [][ViewNext]_viewVars

---------------------------------------------------------------------------
(* Whatever order inventories of several hosts arrive in, and however often   *)
(* a call is repeated: a view never goes back to an older inventory, a late   *)
(* one does not change it at all, and an embedded client's rows and reports   *)
(* only ever get newer, while only a complete inventory drops one.            *)
(* ClientView.apply_inventory, QueryProxy.accept_inventory.                   *)
StepForward ==
    LET old == accepted.tasks  new == accepted'.tasks
    IN /\ accepted'.at >= accepted.at
       /\ accepted' # accepted => call.inv.at >= accepted.at
       /\ embedded =>
            /\ \A i \in DOMAIN old \cap DOMAIN new :
                    new[i].upd >= old[i].upd /\ new[i].wd >= old[i].wd
            /\ ~accepted'.complete => DOMAIN old \subseteq DOMAIN new

ViewNeverStepsBack == [][StepForward]_viewVars

(* A head that does not descend from the one shown before it is shown with a  *)
(* warning for as long as it is shown, through repeated refreshes, lost       *)
(* answers, other clients and new owners: apply_history, previous_heads.      *)
RewritesShown ==
    shown.from # Away /\ shown.warned = "no" => shown.from \in Ancestors[shown.head]
=============================================================================
