-------------------------------- MODULE Dock --------------------------------
(* The map: what dock.rs makes of the inventory of chats a client holds, the *)
(* sessions hooks have recorded, the stored bindings and the facts of Git,   *)
(* within the budget of its output.  One client and its host of chats; how a *)
(* view takes the inventories of several hosts is in ClientView, the graph   *)
(* of the map in GitTopology.                                                *)
(*                                                                           *)
(* A chat is a passenger of the worktree it is registered in or, once an     *)
(* agent has reported a working directory, of the one it works in.  A report *)
(* is stamped with the instant it was made; the agent may move on without    *)
(* another, and may work on in a chat that was archived.  The host lists its  *)
(* chats at one instant and the list reaches the client later.                *)
EXTENDS Integers, FiniteSets, FiniteSetsExt

CONSTANTS Chats, Worktrees,
          Home,         \* Home[t]: the worktree chat t is registered in
          Outside,      \* a directory that is no worktree
          Backgrounds,      \* what else a map may show: [hooked, git, stored]
          Fresh,        \* how long an inventory is fresh: 120 s in the code
          MaxBindings,  \* bindings shown of a worktree: 32 in the code
          MaxClock, MaxDeeds, MaxLists,
          Nowhere       \* no report, no inventory, no map, nothing stored

ASSUME DockAssumption ==
    /\ IsFiniteSet(Chats) /\ Fresh \in Nat /\ MaxBindings \in Nat /\ Home \in [Chats -> Worktrees]
    /\ Outside \notin Worktrees /\ Nowhere \notin [dir : Worktrees \cup {Outside}, at : Nat]
    /\ \A b \in Backgrounds : b.stored = Nowhere \/
          \A w \in Worktrees : b.stored[w] \in [records : Nat, known : BOOLEAN]

VARIABLES clock,
          host,      \* what is true of each chat: life, place and last report
          lastIn,    \* history: when the agent of a chat last was in a worktree,
          lastOut,   \* when the chat last was no passenger of it,
          lastHere,  \* and when the chat last was not archived
          deeds,     \* how often something was done to a chat
          lists,     \* lists on their way to the client
          background,   \* sessions of hooks, Git facts and stored bindings
          inventory, \* what the client holds: rows, at, complete
          map        \* the map it shows

dockVars == <<clock, host, lastIn, lastOut, lastHere, deeds, lists, background, inventory, map>>

---------------------------------------------------------------------------
(* The host.                                                                 *)

\* Place is where an agent works that has reported; before, the chat is at home.
Whereabouts(t) == IF host[t].report = Nowhere THEN Home[t] ELSE host[t].place
Present(t) == host[t].life = "present"
Passenger(t, w) == Present(t) /\ w = Whereabouts(t)

LongAgo == -Fresh - 1
DockInit ==
    /\ clock = 0 /\ deeds = 0
    /\ host \in [Chats -> [life : {"present", "archived"}, place : {Nowhere}, report : {Nowhere}]]
    /\ lastIn = [t \in Chats |-> [w \in Worktrees |-> IF w = Whereabouts(t) THEN 0 ELSE LongAgo]]
    /\ lastOut = [t \in Chats |-> [w \in Worktrees |-> IF Passenger(t, w) THEN LongAgo ELSE 0]]
    /\ lastHere = [t \in Chats |-> IF Present(t) THEN 0 ELSE LongAgo]
    /\ lists = {}
    /\ background \in Backgrounds
    /\ inventory = Nowhere /\ map = Nowhere

\* Both sides of a step belong to its instant.
Watch ==
    /\ lastIn' = [t \in Chats |-> [w \in Worktrees |->
                     IF w \in {Whereabouts(t), Whereabouts(t)'} THEN clock' ELSE lastIn[t][w]]]
    /\ lastOut' = [t \in Chats |-> [w \in Worktrees |->
                     IF Passenger(t, w) /\ Passenger(t, w)' THEN lastOut[t][w] ELSE clock']]
    /\ lastHere' = [t \in Chats |-> IF Present(t) \/ Present(t)' THEN clock' ELSE lastHere[t]]

Deed(t, now) ==
    /\ deeds < MaxDeeds /\ deeds' = deeds + 1
    /\ host[t] # now /\ host' = [host EXCEPT ![t] = now]
    /\ UNCHANGED clock /\ Watch
    /\ UNCHANGED <<lists, background, inventory, map>>

Archive(t) == Deed(t, [host[t] EXCEPT !.life = "archived"])
Restore(t) == Deed(t, [host[t] EXCEPT !.life = "present"])
Report(t, w) == Deed(t, [host[t] EXCEPT !.place = w, !.report = [dir |-> w, at |-> clock]])
MoveOn(t, w) == host[t].report # Nowhere /\ Deed(t, [host[t] EXCEPT !.place = w])

Tick ==
    /\ clock < MaxClock /\ clock' = clock + 1
    /\ UNCHANGED host /\ Watch
    /\ UNCHANGED <<deeds, lists, background, inventory, map>>

\* A complete list has every chat that is not archived; the host may not tell
\* whether a chat still exists.
List(chats, complete, told) ==
    /\ Cardinality(lists) < MaxLists
    /\ complete => {t \in Chats : host[t].life = "present"} \subseteq chats
    /\ lists' = lists \cup
          {[at |-> clock, complete |-> complete,
            rows |-> [t \in chats |-> [life |-> IF told THEN host[t].life ELSE "unknown",
                                       report |-> host[t].report]]]}
    /\ UNCHANGED <<clock, host, lastIn, lastOut, lastHere, deeds, background, inventory, map>>

---------------------------------------------------------------------------
(* The projection: reduce_with_inputs, of an inventory.                      *)

Rows(inv) == IF inv = Nowhere THEN {} ELSE DOMAIN inv.rows
Reports(inv) == {inv.rows[t].report : t \in Rows(inv)} \ {Nowhere}

\* ObservedTask.association_path.
Association(inv, t) ==
    IF inv.rows[t].report = Nowhere THEN Home[t] ELSE inv.rows[t].report.dir

\* FAULT: the time of the list counts, however old a report in it is.
FaultObservedAt(inv) == inv.at

\* task_observation: a fresh list does not freshen an older report.
ObservedAt(inv) == Min({inv.at} \cup {r.at : r \in Reports(inv)})

\* The chats of a lane: the tasks associated with the worktree, and the hooks'
\* sessions there, but not those of a task that is associated elsewhere.
LaneChats(inv, w) ==
    LET tasks == {t \in Rows(inv) : Association(inv, t) = w}
        sessions == {t \in Chats : background.hooked[t] = w}
    IN tasks \cup (sessions \ Rows(inv))

\* Only a roster nothing is missing from says where nobody is: the host listed
\* every chat, not long ago, and the budget dropped none.
Certain(inv, lost) ==
    inv # Nowhere /\ inv.complete /\ lost = {} /\ clock - ObservedAt(inv) \in 0 .. Fresh

\* passenger_summary, of the tasks that are shown in the lane.
Passengers(inv, w, shown, certain) ==
    LET lives == [t \in shown \cap Rows(inv) |-> inv.rows[t].life]
        count == Cardinality({t \in DOMAIN lives : lives[t] = "present"})
        state == IF ~certain THEN "unknown"
                 ELSE IF count > 0 THEN "occupied"
                 ELSE IF \E t \in DOMAIN lives : lives[t] = "unknown" THEN "unknown"
                 ELSE "unattended"
        git == background.git[w]
    IN [count |-> count, state |-> state,
        unattended_work |-> state = "unattended" /\ git \in {"dirty", "ahead"},
        cleanup_review |-> state = "unattended" /\ git = "included"]

\* apply_storage_inputs: the newest bindings of a worktree; none if the store
\* cannot be read, or when the budget has cleared those of every worktree.
Bindings(w, short) ==
    LET stored == IF background.stored = Nowhere THEN 0 ELSE background.stored[w].records
    IN [shown |-> IF short THEN 0 ELSE Min({stored, MaxBindings}),
        complete |-> /\ background.stored # Nowhere /\ background.stored[w].known
                     /\ stored <= IF short THEN 0 ELSE MaxBindings]

\* bound_model: the bindings go first, then chats, whichever do not fit; what is
\* said of passengers is worked out again from those that are left.
Projection(inv, short, lost) ==
    [at |-> clock, chats |-> Rows(inv),
     lanes |-> [w \in Worktrees |-> LaneChats(inv, w) \ lost],
     passengers |-> [w \in Worktrees |->
         Passengers(inv, w, LaneChats(inv, w) \ lost, Certain(inv, lost))],
     bindings |-> [w \in Worktrees |-> Bindings(w, short)],
     truncated |-> \/ short
                   \/ background.stored # Nowhere /\
                        \E w \in Worktrees : background.stored[w].records > MaxBindings]

\* Any chats may be lost, as long or short as they are, once the rest is short.
Projections(inv) ==
    LET shown == UNION {LaneChats(inv, w) : w \in Worktrees}
    IN {Projection(inv, FALSE, {})} \cup {Projection(inv, TRUE, lost) : lost \in SUBSET shown}

---------------------------------------------------------------------------
(* The client: QueryProxy.accept_inventory and refresh.                      *)

\* A list with a report from outside the worktrees is refused as a whole.
Invalid(list) == \E r \in Reports(list) : r.dir = Outside

\* A list that is late changes nothing; another replaces the inventory, rows and
\* reports that it does not repeat included.  The map follows unless it fails.
Accept(list) ==
    /\ list \in lists /\ ~Invalid(list)
    /\ inventory' = IF inventory # Nowhere /\ list.at < inventory.at THEN inventory ELSE list
    /\ map' \in {map} \cup Projections(inventory')
    /\ lists' = lists \ {list}
    /\ UNCHANGED <<clock, host, lastIn, lastOut, lastHere, deeds, background>>

Refuse(list) ==
    /\ list \in lists /\ Invalid(list)
    /\ lists' = lists \ {list}
    /\ UNCHANGED <<clock, host, lastIn, lastOut, lastHere, deeds, background, inventory, map>>

RefreshMap ==
    /\ map' \in Projections(inventory)
    /\ UNCHANGED <<clock, host, lastIn, lastOut, lastHere, deeds, lists, background, inventory>>

DockNext ==
    \/ \E t \in Chats : Archive(t) \/ Restore(t)
    \/ \E t \in Chats, w \in Worktrees \cup {Outside} : Report(t, w) \/ MoveOn(t, w)
    \/ Tick
    \/ \E chats \in SUBSET Chats, complete, told \in BOOLEAN : List(chats, complete, told)
    \/ \E list \in lists : Accept(list) \/ Refuse(list)
    \/ RefreshMap

DockSpec == DockInit /\ [][DockNext]_dockVars

---------------------------------------------------------------------------
\* What the map says of a worktree was true of every chat not long before.
CertainlyTrue(w) ==
    LET said == map.passengers[w].state
    IN /\ said = "unattended" => \A t \in Chats : map.at - lastOut[t][w] <= Fresh
       /\ said = "occupied" => \E t \in Chats :
              map.at - lastIn[t][w] <= Fresh /\ map.at - lastHere[t] <= Fresh

(* Whatever chats did while the host listed them, the list was on its way    *)
(* and the client kept it, and whatever the budget cut off: a worktree is    *)
(* called unattended, and up for cleaning, only if each chat was archived or *)
(* elsewhere within the last 120 seconds, and occupied only if within them   *)
(* the agent of one was there and that chat was not archived; a chat is in   *)
(* one lane; nothing is missing from a map that is not truncated, and no     *)
(* history is called complete that is not shown.                             *)
(* task_observation, passenger_summary, bound_model of dock.rs.              *)
PassengersHonest ==
    map # Nowhere =>
        /\ \A w \in Worktrees : CertainlyTrue(w)
        /\ \A t \in Chats : Cardinality({w \in Worktrees : t \in map.lanes[w]}) <= 1
        /\ ~map.truncated => map.chats \subseteq UNION {map.lanes[w] : w \in Worktrees}
        /\ \A w \in Worktrees :
              LET b == map.bindings[w]
              IN b.complete => background.stored[w] = [records |-> b.shown, known |-> TRUE]
=============================================================================
