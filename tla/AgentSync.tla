----------------------------- MODULE AgentSync -----------------------------
(* What the desktop tells of its tasks: src/src/agent_sync.rs.               *)
(*                                                                           *)
(* One thread per repository, whoever holds the lock, reads the catalog of   *)
(* tasks from the desktop's database and follows their activity over a       *)
(* connection to the desktop: it asks who owns a task, follows the owner and *)
(* takes a snapshot and then patches from it.  What it knows is saved in a   *)
(* cache that every viewer lays over the inventory of its own client.        *)
EXTENDS Integers, Sequences

CONSTANTS Nobody, Tasks, Owners,
          Activities,                        \* activities a task may have
          Syncs,                             \* threads, one per process
          MaxRev, MaxPolls, MaxWire, MaxMoves   \* bounds

ASSUME SyncAssumption == Nobody \notin Activities \cup {"idle"}

VARIABLES catalog,   \* the desktop's database: tasks that are not archived
          past,      \* per task: its activity at each revision (desktop)
          owner,     \* per task: the desktop client that owns it, or Nobody
          following, \* per task: owners that were told to broadcast it
          moves,     \* bound: changes of an owner
          wire,      \* frames on their way to the peer
          leader,    \* agent-sync.lock
          inventory, \* per thread: what it read last, or Nobody
          polls,     \* the clock: readings of the catalog
          peer,      \* the leader's connection, or Nobody
          cache,     \* agent_inventory_cache
          query      \* a viewer's query: tasks, their time, what its client said

desktopVars == <<catalog, past, owner, following, moves>>
syncVars == <<desktopVars, wire, leader, inventory, polls, peer, cache, query>>

Unlisted == [t \in {} |-> Nobody]

SyncInit ==
    /\ catalog \in SUBSET Tasks
    /\ past = [t \in Tasks |-> <<"idle">>]
    /\ owner \in [Tasks -> Owners]
    /\ following = [t \in Tasks |-> {}] /\ moves = 0
    /\ wire = <<>> /\ leader = Nobody /\ polls = 0
    /\ inventory = [s \in Syncs |-> Nobody]
    /\ peer = Nobody /\ cache = Nobody
    /\ query \in [at : {0}, complete : {TRUE}, tasks : {[t \in Tasks |-> [status |-> "unknown", dir |-> TRUE]]}]

---------------------------------------------------------------------------
(* The desktop, as the code uses it: a task's revisions count its changes,    *)
(* whoever owns it; an owner that is told to broadcasts from a snapshot on.   *)

Send(frames) == Len(wire) + Len(frames) <= MaxWire /\ wire' = wire \o frames
Now(t) == past[t][Len(past[t])]

\* A change reaches the peer if the owner was told to, in a form the peer
\* applies, in one it cannot, or in a later version of the protocol.
Change(t, activity) ==
    /\ Len(past[t]) < MaxRev /\ owner[t] # Nobody
    /\ past' = [past EXCEPT ![t] = Append(@, activity)]
    /\ IF peer # Nobody /\ owner[t] \in following[t]
       THEN \E form \in {"whole", "partial", "later"} :
                Send(<<[kind |-> "patch", task |-> t, from |-> owner[t], base |-> Len(past[t]),
                        rev |-> Len(past[t]) + 1, form |-> form,
                        status |-> IF activity = Now(t) THEN Nobody ELSE activity]>>)
       ELSE wire' = wire
    /\ UNCHANGED <<catalog, owner, following, moves, leader, inventory, polls, peer, cache, query>>

Move(t, o) ==
    /\ owner[t] # o /\ moves < MaxMoves
    /\ owner' = [owner EXCEPT ![t] = o] /\ moves' = moves + 1
    /\ UNCHANGED <<catalog, past, following, wire, leader, inventory, polls, peer, cache, query>>

Archive(t) ==
    /\ catalog' = IF t \in catalog THEN catalog \ {t} ELSE catalog \cup {t}
    /\ UNCHANGED <<past, owner, following, moves, wire, leader, inventory, polls, peer, cache, query>>

\* An owner is discovered for an outstanding request, which may be a former one.
AnswerOwner(t, r) ==
    /\ peer # Nobody /\ r \in peer.asked[t]
    /\ Send(<<[kind |-> "owner", task |-> t, request |-> r, from |-> owner[t]]>>)
    /\ peer' = [peer EXCEPT !.asked[t] = @ \ {r}]
    /\ UNCHANGED <<desktopVars, leader, inventory, polls, cache, query>>

---------------------------------------------------------------------------
(* The thread.                                                               *)

Without(f, x) == [t \in DOMAIN f \ {x} |-> f[t]]
With(f, x, v) == [t \in DOMAIN f \cup {x} |-> IF t = x THEN v ELSE f[t]]

\* reconcile: vanished tasks are unfollowed, pending requests are given up, and
\* every task's owner is asked for again.
Reconciled(tasks, request) ==
    [peer EXCEPT !.owners = [t \in DOMAIN @ \cap tasks |-> @[t]],
                 !.states = [t \in DOMAIN @ \ (DOMAIN peer.owners \ tasks) |-> @[t]],
                 !.pending = [t \in tasks |-> request],
                 !.asked = [t \in Tasks |-> IF t \in tasks THEN @[t] \cup {request} ELSE @[t]]]

\* The catalog is read, complete or not; only a thread that reads a task takes
\* the lock, if it is free, and only the leader goes on.
Poll(s, complete) ==
    LET read == [at |-> polls + 1, complete |-> complete,
                 tasks |-> IF complete THEN catalog ELSE {}]
        leads == leader = s \/ (leader = Nobody /\ read.tasks # {})
    IN /\ polls < MaxPolls /\ polls' = polls + 1
       /\ leader' = IF leads THEN s ELSE leader
       /\ inventory' = IF leads THEN [inventory EXCEPT ![s] = read] ELSE inventory
       /\ IF leader = s /\ peer # Nobody /\ peer.ready
          THEN /\ peer' = Reconciled(read.tasks, polls + 1)
               /\ following' = [t \in Tasks |->
                    IF t \in DOMAIN peer.owners \ read.tasks
                    THEN following[t] \ {peer.owners[t]} ELSE following[t]]
          ELSE UNCHANGED <<peer, following>>
       /\ UNCHANGED <<catalog, past, owner, moves, wire, cache, query>>

\* The catalog cannot be read: what was read before is not saved again.
PollFails(s) ==
    /\ inventory[s] # Nobody
    /\ inventory' = [inventory EXCEPT ![s] = Nobody]
    /\ UNCHANGED <<desktopVars, wire, leader, polls, peer, cache, query>>

Connect(s) ==
    /\ leader = s /\ peer = Nobody
    /\ peer' = [ready |-> FALSE, pending |-> Unlisted, asked |-> [t \in Tasks |-> {}],
                states |-> Unlisted, owners |-> Unlisted, confirmed |-> {}]
    /\ wire' = <<[kind |-> "initialized"]>>
    /\ UNCHANGED <<desktopVars, leader, inventory, polls, cache, query>>

\* The connection ends: an unknown frame, a timeout, the desktop closes it.
Disconnected == peer' = Nobody /\ wire' = <<>> /\ following' = [t \in Tasks |-> {}]

Disconnect ==
    /\ peer # Nobody /\ Disconnected
    /\ UNCHANGED <<catalog, past, owner, moves, leader, inventory, polls, cache, query>>

\* The process ends and its lock with it; another thread may lead.
Stop(s) ==
    /\ leader = s /\ leader' = Nobody
    /\ inventory' = [inventory EXCEPT ![s] = Nobody]
    /\ Disconnected
    /\ UNCHANGED <<catalog, past, owner, moves, polls, cache, query>>

\* FAULT: a patch is applied to whatever the peer knows.
FaultPatched(states, f) ==
    IF f.task \notin DOMAIN states THEN states
    ELSE With(states, f.task, [rev |-> f.rev,
                status |-> IF f.form = "partial" THEN Nobody
                           ELSE IF f.status = Nobody THEN states[f.task].status ELSE f.status])

\* apply_change: a patch needs the revision it is based on; an activity that is
\* changed in part is unknown, and one whose revision is missed is dropped.
Patched(states, f) ==
    IF f.task \notin DOMAIN states THEN states
    ELSE IF states[f.task].rev # f.base THEN Without(states, f.task)
    ELSE With(states, f.task, [rev |-> f.rev,
                status |-> IF f.status = Nobody THEN states[f.task].status
                           ELSE IF f.form = "partial" THEN Nobody ELSE f.status])

\* The answer of an owner, not of a request given up: it is followed when it is
\* new or nothing is known of the task, and begins with a snapshot.
OwnerFound(f) ==
    LET t == f.task
        new == IF t \in DOMAIN peer.owners THEN peer.owners[t] # f.from ELSE TRUE
        unknown == IF t \in DOMAIN peer.states THEN peer.states[t].status = Nobody ELSE TRUE
        snapshot == [kind |-> "snapshot", task |-> t, from |-> f.from, rev |-> Len(past[t]), status |-> Now(t)]
    IN IF t \notin DOMAIN peer.pending \/ peer.pending[t] # f.request
       THEN peer' = peer /\ wire' = Tail(wire) /\ following' = following
       ELSE IF f.from = Nobody
       THEN /\ peer' = [peer EXCEPT !.pending = Without(@, t), !.states = Without(@, t), !.owners = Without(@, t)]
            /\ wire' = Tail(wire) /\ following' = following
       ELSE /\ peer' = [peer EXCEPT !.pending = Without(@, t), !.owners = With(@, t, f.from),
                                    !.confirmed = @ \cup {t}]
            /\ IF (new \/ unknown) /\ f.from = owner[t]
               THEN following' = [following EXCEPT ![t] = @ \cup {f.from}] /\ wire' = Append(Tail(wire), snapshot)
               ELSE following' = following /\ wire' = Tail(wire)

\* A broadcast counts only from the owner the peer knows.
Broadcast(f) ==
    LET t == f.task
        trusted == IF t \in DOMAIN peer.owners THEN peer.owners[t] = f.from ELSE FALSE
    IN /\ wire' = Tail(wire) /\ following' = following
       /\ peer' = IF ~trusted THEN peer
                  ELSE [peer EXCEPT !.states =
                        IF f.kind = "snapshot" THEN With(@, t, [rev |-> f.rev, status |-> f.status])
                        ELSE IF f.form = "later" THEN Without(@, t) ELSE Patched(@, f)]

Receive ==
    /\ peer # Nobody /\ wire # <<>>
    /\ LET f == Head(wire) IN
       CASE f.kind = "initialized" -> peer' = [peer EXCEPT !.ready = TRUE] /\ wire' = Tail(wire) /\ following' = following
         [] f.kind = "owner" -> OwnerFound(f)
         [] OTHER -> Broadcast(f)
    /\ UNCHANGED <<catalog, past, owner, moves, leader, inventory, polls, cache, query>>

\* A confirmation is good for fifteen seconds.
Unconfirm(t) ==
    /\ peer # Nobody /\ t \in peer.confirmed
    /\ peer' = [peer EXCEPT !.confirmed = @ \ {t}]
    /\ UNCHANGED <<desktopVars, wire, leader, inventory, polls, cache, query>>

\* Peer::apply on the inventory that was read.
Applied(t) ==
    IF peer = Nobody THEN "unknown"
    ELSE IF t \notin peer.confirmed \/ t \notin DOMAIN peer.states THEN "unknown"
    ELSE IF peer.states[t].status = Nobody THEN "unknown" ELSE peer.states[t].status

Save(s) ==
    /\ leader = s /\ inventory[s] # Nobody
    /\ LET saved == [at |-> inventory[s].at, complete |-> inventory[s].complete,
                     tasks |-> [t \in inventory[s].tasks |-> Applied(t)]]
       IN cache # saved /\ cache' = saved
    /\ UNCHANGED <<desktopVars, wire, leader, inventory, polls, peer, query>>

\* overlay and merge: nothing older; what the client said of a directory stays,
\* and so does a task that an incomplete inventory does not list.
Overlay ==
    LET kept == IF cache.complete THEN {} ELSE DOMAIN query.tasks \ DOMAIN cache.tasks
    IN /\ cache # Nobody /\ query.at <= cache.at
       /\ query' = [at |-> cache.at, complete |-> cache.complete,
                    tasks |-> [t \in DOMAIN cache.tasks \cup kept |->
                        IF t \in kept THEN query.tasks[t]
                        ELSE [status |-> cache.tasks[t],
                              dir |-> IF t \in DOMAIN query.tasks THEN query.tasks[t].dir ELSE FALSE]]]
       /\ UNCHANGED <<desktopVars, wire, leader, inventory, polls, peer, cache>>

SyncNext ==
    \/ \E t \in Tasks :
        \/ \E a \in Activities : Change(t, a)
        \/ \E o \in Owners \cup {Nobody} : Move(t, o)
        \/ Archive(t) \/ Unconfirm(t)
        \/ peer # Nobody /\ \E r \in 1..MaxPolls : AnswerOwner(t, r)
    \/ \E s \in Syncs :
        \/ \E complete \in BOOLEAN : Poll(s, complete)
        \/ PollFails(s) \/ Connect(s) \/ Stop(s) \/ Save(s)
    \/ Disconnect \/ Receive \/ Overlay

SyncSpec == SyncInit /\ [][SyncNext]_syncVars

---------------------------------------------------------------------------
(* An activity the code believes, saves or shows is the task's at the revision*)
(* it believes it for, through changes of owners, answers to requests given   *)
(* up, frames it cannot read and changes of the connection and the leader:    *)
(* what is missed makes an activity unknown, never another one.               *)
ActivityReal ==
    /\ peer # Nobody => \A t \in DOMAIN peer.states :
            peer.states[t].status \in {Nobody, past[t][peer.states[t].rev]}
    /\ \A t \in DOMAIN query.tasks : query.tasks[t].status # "unknown" =>
            \E r \in DOMAIN past[t] : past[t][r] = query.tasks[t].status
=============================================================================
