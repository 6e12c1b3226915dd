---------------------------- MODULE AgentsProofs ----------------------------
(***************************************************************************)
(* What is shown of agents and worktrees.  An activity that is shown was   *)
(* the task's, for any tasks, owners, threads and losses; what is said of a *)
(* worktree is a fact of Git, for any trees, commits and changes; the      *)
(* record of a session is what its hooks reported, for any calls; and no    *)
(* installer loses what the user wrote, for any documents and installers.  *)
(***************************************************************************)
EXTENDS AgentSync, Relationships, Presence, AdapterConfig, FiniteSetTheorems, SequenceTheorems,
        WellFoundedInduction, TLAPS

---------------------------------------------------------------------------
(* What the desktop tells.  The history of a task only grows, so whatever was *)
(* true of one of its revisions stays true: a frame on the wire, what the     *)
(* peer holds, what was saved and what is shown all speak of a revision.      *)

ShownActivity == Activities \cup {"idle"}
Partial(S) == UNION {[D -> S] : D \in SUBSET Tasks}

Frames ==
    [kind : {"initialized"}]
    \cup [kind : {"owner"}, task : Tasks, request : 1..MaxPolls, from : Owners \cup {Nobody}]
    \cup [kind : {"snapshot"}, task : Tasks, from : Owners, rev : Nat, status : ShownActivity]
    \cup [kind : {"patch"}, task : Tasks, from : Owners, base : Nat, rev : Nat,
          form : {"whole", "partial", "later"}, status : ShownActivity \cup {Nobody}]

KnownStates == [rev : Nat, status : ShownActivity \cup {Nobody}]
Peers == [ready : BOOLEAN, pending : Partial(Int), asked : [Tasks -> SUBSET Int],
          states : Partial(KnownStates), owners : Partial(Owners), confirmed : SUBSET Tasks]

SyncTypes ==
    /\ catalog \subseteq Tasks
    /\ past \in [Tasks -> Seq(ShownActivity)]
    /\ owner \in [Tasks -> Owners \cup {Nobody}]
    /\ polls \in Int
    /\ wire \in Seq(Frames)
    /\ peer # Nobody => peer \in Peers
    /\ DOMAIN inventory = Syncs
    /\ \A s \in Syncs : inventory[s] # Nobody => inventory[s].tasks \subseteq Tasks

Revisions(t) == 1..Len(past[t])
PastBegun == \A t \in Tasks : Len(past[t]) >= 1

FrameReal(f) ==
    /\ f.kind = "snapshot" => f.rev \in Revisions(f.task) /\ f.status = past[f.task][f.rev]
    /\ f.kind = "patch" =>
        /\ f.base \in Revisions(f.task) /\ f.rev \in Revisions(f.task) /\ f.rev = f.base + 1
        /\ f.status = Nobody => past[f.task][f.rev] = past[f.task][f.base]
        /\ f.status # Nobody => f.status = past[f.task][f.rev]
WireReal == \A i \in 1..Len(wire) : FrameReal(wire[i])

KnownReal(states) == \A t \in DOMAIN states :
    /\ t \in Tasks /\ states[t].rev \in Revisions(t)
    /\ states[t].status \in {Nobody, past[t][states[t].rev]}
PeerReal == peer # Nobody => KnownReal(peer.states)

Was(t, activity) == \E r \in Revisions(t) : past[t][r] = activity
CacheReal == cache # Nobody => \A t \in DOMAIN cache.tasks :
    t \in Tasks /\ (cache.tasks[t] # "unknown" => Was(t, cache.tasks[t]))
QueryReal == \A t \in DOMAIN query.tasks :
    t \in Tasks /\ (query.tasks[t].status # "unknown" => Was(t, query.tasks[t].status))

SyncInv == SyncTypes /\ PastBegun /\ WireReal /\ PeerReal /\ CacheReal /\ QueryReal

---------------------------------------------------------------------------
(* A history that has grown.                                                 *)

Grown == \A t \in Tasks : /\ Len(past[t]) <= Len(past'[t])
                          /\ \A r \in Revisions(t) : past'[t][r] = past[t][r]

LEMMA LengthsAreNumbers == ASSUME past \in [Tasks -> Seq(ShownActivity)], NEW t \in Tasks PROVE Len(past[t]) \in Nat
  OBVIOUS

LEMMA SameGrown == ASSUME past \in [Tasks -> Seq(ShownActivity)], past' = past PROVE Grown
  BY LengthsAreNumbers DEF Grown

LEMMA RevisionsGrow ==
    ASSUME past \in [Tasks -> Seq(ShownActivity)], past' \in [Tasks -> Seq(ShownActivity)], Grown, NEW t \in Tasks, NEW r \in Revisions(t)
    PROVE  r \in Revisions(t)' /\ past'[t][r] = past[t][r]
  <1>1. Len(past[t]) \in Nat /\ Len(past'[t]) \in Nat
    OBVIOUS
  <1>2. Len(past[t]) <= Len(past'[t]) /\ past'[t][r] = past[t][r]
    BY DEF Grown
  <1>3. QED
    BY <1>1, <1>2 DEF Revisions

LEMMA FrameStays ==
    ASSUME past \in [Tasks -> Seq(ShownActivity)], past' \in [Tasks -> Seq(ShownActivity)], Grown, NEW f \in Frames, FrameReal(f)
    PROVE  FrameReal(f)'
  <1>1. CASE f.kind = "snapshot"
    <2>1. f.task \in Tasks
      BY <1>1 DEF Frames
    <2>2. f.rev \in Revisions(f.task) /\ f.status = past[f.task][f.rev]
      BY <1>1 DEF FrameReal
    <2>3. f.rev \in Revisions(f.task)' /\ past'[f.task][f.rev] = past[f.task][f.rev]
      BY <2>1, <2>2, RevisionsGrow
    <2>4. QED
      BY <1>1, <2>2, <2>3 DEF FrameReal
  <1>2. CASE f.kind = "patch"
    <2>1. f.task \in Tasks
      BY <1>2 DEF Frames
    <2>2. f.base \in Revisions(f.task) /\ f.rev \in Revisions(f.task)
      BY <1>2 DEF FrameReal
    <2>3. f.rev \in Revisions(f.task)' /\ past'[f.task][f.rev] = past[f.task][f.rev]
      BY <2>1, <2>2, RevisionsGrow
    <2>4. f.base \in Revisions(f.task)' /\ past'[f.task][f.base] = past[f.task][f.base]
      BY <2>1, <2>2, RevisionsGrow
    <2>5. QED
      BY <1>2, <2>3, <2>4 DEF FrameReal
  <1>3. QED
    BY <1>1, <1>2 DEF FrameReal

LEMMA KnownStays ==
    ASSUME past \in [Tasks -> Seq(ShownActivity)], past' \in [Tasks -> Seq(ShownActivity)], Grown, NEW states, KnownReal(states)
    PROVE  \A t \in DOMAIN states :
              /\ t \in Tasks /\ states[t].rev \in Revisions(t)'
              /\ states[t].status \in {Nobody, past'[t][states[t].rev]}
  BY RevisionsGrow DEF KnownReal

LEMMA WasStays ==
    ASSUME past \in [Tasks -> Seq(ShownActivity)], past' \in [Tasks -> Seq(ShownActivity)], Grown,
           NEW t \in Tasks, NEW a, Was(t, a)
    PROVE  \E r \in Revisions(t)' : past'[t][r] = a
  <1>1. PICK r \in Revisions(t) : past[t][r] = a
    BY DEF Was
  <1>2. r \in Revisions(t)' /\ past'[t][r] = past[t][r]
    BY <1>1, RevisionsGrow
  <1>3. QED
    BY <1>1, <1>2

\* What a step leaves alone.
LEMMA WireStays ==
    ASSUME SyncInv, past' \in [Tasks -> Seq(ShownActivity)], Grown, wire' = wire
    PROVE  WireReal'
  <1>1. past \in [Tasks -> Seq(ShownActivity)] /\ wire \in Seq(Frames)
    BY DEF SyncInv, SyncTypes
  <1>2. ASSUME NEW i \in 1..Len(wire) PROVE FrameReal(wire[i])'
    <2>1. wire[i] \in Frames
      BY <1>1
    <2>2. FrameReal(wire[i])
      BY DEF SyncInv, WireReal
    <2>3. PICK f \in Frames : f = wire[i]
      BY <2>1
    <2>4. FrameReal(f)'
      BY <1>1, <2>2, <2>3, FrameStays
    <2>5. QED
      BY <2>3, <2>4
  <1>3. QED
    BY <1>2 DEF WireReal

LEMMA PeerStays ==
    ASSUME SyncInv, past' \in [Tasks -> Seq(ShownActivity)], Grown, peer' # Nobody => peer # Nobody /\ peer'.states = peer.states
    PROVE  PeerReal'
  <1>1. SUFFICES ASSUME peer' # Nobody PROVE KnownReal(peer.states)'
    BY DEF PeerReal
  <1>2. past \in [Tasks -> Seq(ShownActivity)] /\ KnownReal(peer.states)
    BY <1>1 DEF SyncInv, SyncTypes, PeerReal
  <1>3. PICK states : states = peer.states
    OBVIOUS
  <1>4. \A t \in DOMAIN states :
              /\ t \in Tasks /\ states[t].rev \in Revisions(t)'
              /\ states[t].status \in {Nobody, past'[t][states[t].rev]}
    BY <1>2, <1>3, KnownStays
  <1>5. QED
    BY <1>1, <1>3, <1>4 DEF KnownReal

LEMMA CacheStays ==
    ASSUME SyncInv, past' \in [Tasks -> Seq(ShownActivity)], Grown, cache' = cache
    PROVE  CacheReal'
  <1>1. past \in [Tasks -> Seq(ShownActivity)]
    BY DEF SyncInv, SyncTypes
  <1>2. ASSUME cache # Nobody, NEW t \in DOMAIN cache.tasks
        PROVE  t \in Tasks /\ (cache.tasks[t] # "unknown" => \E r \in Revisions(t)' : past'[t][r] = cache.tasks[t])
    <2>1. t \in Tasks /\ (cache.tasks[t] # "unknown" => Was(t, cache.tasks[t]))
      BY <1>2 DEF SyncInv, CacheReal
    <2>2. QED
      BY <1>1, <2>1, WasStays
  <1>3. QED
    BY <1>2 DEF CacheReal, Was

LEMMA QueryStays ==
    ASSUME SyncInv, past' \in [Tasks -> Seq(ShownActivity)], Grown, query' = query
    PROVE  QueryReal'
  <1>1. past \in [Tasks -> Seq(ShownActivity)]
    BY DEF SyncInv, SyncTypes
  <1>2. ASSUME NEW t \in DOMAIN query.tasks
        PROVE  t \in Tasks /\ (query.tasks[t].status # "unknown" => \E r \in Revisions(t)' : past'[t][r] = query.tasks[t].status)
    <2>1. t \in Tasks /\ (query.tasks[t].status # "unknown" => Was(t, query.tasks[t].status))
      BY DEF SyncInv, QueryReal
    <2>2. QED
      BY <1>1, <2>1, WasStays
  <1>3. QED
    BY <1>2 DEF QueryReal, Was

---------------------------------------------------------------------------
(* Frames that are sent and received.                                        *)

LEMMA FramesSent ==
    ASSUME SyncInv, past' \in [Tasks -> Seq(ShownActivity)], Grown,
           NEW f \in Frames, FrameReal(f)', wire' = wire \o <<f>>
    PROVE  wire' \in Seq(Frames) /\ WireReal'
  <1>1. past \in [Tasks -> Seq(ShownActivity)] /\ wire \in Seq(Frames)
    BY DEF SyncInv, SyncTypes
  <1>2. wire' \in Seq(Frames) /\ Len(wire') = Len(wire) + 1 /\ wire'[Len(wire) + 1] = f
        /\ \A i \in 1..Len(wire) : wire'[i] = wire[i]
    BY <1>1
  <1>3. ASSUME NEW i \in 1..Len(wire') PROVE FrameReal(wire[i])'
    <2>1. CASE i = Len(wire) + 1
      BY <1>2, <2>1
    <2>2. CASE i # Len(wire) + 1
      <3>1. i \in 1..Len(wire)
        BY <1>1, <1>2, <2>2
      <3>2. wire[i] \in Frames /\ FrameReal(wire[i])
        BY <1>1, <3>1 DEF SyncInv, WireReal
      <3>3. PICK g \in Frames : g = wire[i]
        BY <3>2
      <3>4. FrameReal(g)'
        BY <1>1, <3>2, <3>3, FrameStays
      <3>5. QED
        BY <1>2, <3>1, <3>3, <3>4
    <2>3. QED
      BY <2>1, <2>2
  <1>4. QED
    BY <1>2, <1>3 DEF WireReal

LEMMA FrameTaken ==
    ASSUME SyncInv, wire # <<>>, past' = past, wire' = Tail(wire)
    PROVE  wire' \in Seq(Frames) /\ WireReal'
  <1>1. wire \in Seq(Frames) /\ past \in [Tasks -> Seq(ShownActivity)]
    BY DEF SyncInv, SyncTypes
  <1>2. wire' \in Seq(Frames) /\ Len(wire') = Len(wire) - 1 /\ \A i \in 1..Len(wire') : wire'[i] = wire[i + 1] /\ i + 1 \in 1..Len(wire)
    BY <1>1
  <1>3. ASSUME NEW i \in 1..Len(wire') PROVE FrameReal(wire[i])'
    <2>1. FrameReal(wire[i + 1])
      BY <1>2 DEF SyncInv, WireReal
    <2>2. QED
      BY <1>2, <2>1 DEF FrameReal, Revisions
  <1>4. QED
    BY <1>2, <1>3 DEF WireReal

LEMMA FrameTakenAndSent ==
    ASSUME SyncInv, wire # <<>>, past' = past, NEW f \in Frames, FrameReal(f), wire' = Append(Tail(wire), f)
    PROVE  wire' \in Seq(Frames) /\ WireReal'
  <1>1. wire \in Seq(Frames) /\ past \in [Tasks -> Seq(ShownActivity)]
    BY DEF SyncInv, SyncTypes
  <1>2. /\ wire' \in Seq(Frames) /\ Len(wire') = Len(wire) /\ Len(wire) \in Nat /\ wire'[Len(wire)] = f
        /\ \A i \in 1..(Len(wire) - 1) : wire'[i] = wire[i + 1] /\ i + 1 \in 1..Len(wire)
    BY <1>1
  <1>3. ASSUME NEW i \in 1..Len(wire') PROVE FrameReal(wire[i])'
    <2>1. CASE i = Len(wire)
      BY <1>2, <2>1 DEF FrameReal, Revisions
    <2>2. CASE i # Len(wire)
      <3>1. i \in 1..(Len(wire) - 1)
        <4>1. PICK n \in Nat : Len(wire) = n /\ Len(wire') = n
          BY <1>2
        <4>2. i \in 1..n /\ i # n
          BY <4>1, <2>2
        <4>3. QED
          BY <4>1, <4>2
      <3>2. FrameReal(wire[i + 1]) /\ wire'[i] = wire[i + 1]
        BY <1>2, <3>1 DEF SyncInv, WireReal
      <3>3. QED
        BY <3>2 DEF FrameReal, Revisions
    <2>3. QED
      BY <2>1, <2>2
  <1>4. QED
    BY <1>2, <1>3 DEF WireReal
---------------------------------------------------------------------------
(* What the peer knows.                                                      *)

LEMMA WithKnown ==
    ASSUME NEW S, NEW f \in Partial(S), NEW t \in Tasks, NEW v \in S
    PROVE  /\ With(f, t, v) \in Partial(S)
           /\ DOMAIN With(f, t, v) = DOMAIN f \cup {t}
           /\ \A u \in DOMAIN f \cup {t} : With(f, t, v)[u] = IF u = t THEN v ELSE f[u]
  <1>1. PICK D \in SUBSET Tasks : f \in [D -> S]
    BY DEF Partial
  <1>2. D \cup {t} \in SUBSET Tasks /\ With(f, t, v) \in [D \cup {t} -> S]
    BY <1>1 DEF With
  <1>3. With(f, t, v) \in Partial(S)
    BY <1>2 DEF Partial
  <1>4. QED
    BY <1>3 DEF With

LEMMA WithoutKnown ==
    ASSUME NEW S, NEW f \in Partial(S), NEW t
    PROVE  /\ Without(f, t) \in Partial(S)
           /\ DOMAIN Without(f, t) = DOMAIN f \ {t}
           /\ \A u \in DOMAIN f \ {t} : Without(f, t)[u] = f[u]
  <1>1. PICK D \in SUBSET Tasks : f \in [D -> S]
    BY DEF Partial
  <1>2. D \ {t} \in SUBSET Tasks /\ Without(f, t) \in [D \ {t} -> S]
    BY <1>1 DEF Without
  <1>3. Without(f, t) \in Partial(S)
    BY <1>2 DEF Partial
  <1>4. QED
    BY <1>3 DEF Without

LEMMA KeptKnown ==
    ASSUME NEW S, NEW f \in Partial(S), NEW D \in SUBSET Tasks, D \subseteq DOMAIN f
    PROVE  [t \in D |-> f[t]] \in Partial(S)
  <1>1. PICK E \in SUBSET Tasks : f \in [E -> S]
    BY DEF Partial
  <1>2. [t \in D |-> f[t]] \in [D -> S]
    BY <1>1
  <1>3. QED
    BY <1>2 DEF Partial

LEMMA KnownTasks == ASSUME NEW S, NEW f \in Partial(S) PROVE DOMAIN f \subseteq Tasks
  BY DEF Partial

LEMMA FewerReal ==
    ASSUME NEW states \in Partial(KnownStates), KnownReal(states), NEW t
    PROVE  Without(states, t) \in Partial(KnownStates) /\ KnownReal(Without(states, t))
  <1>1. Without(states, t) \in Partial(KnownStates) /\ DOMAIN Without(states, t) = DOMAIN states \ {t}
        /\ \A u \in DOMAIN states \ {t} : Without(states, t)[u] = states[u]
    BY WithoutKnown
  <1>2. QED
    BY <1>1 DEF KnownReal

LEMMA AnotherReal ==
    ASSUME NEW states \in Partial(KnownStates), KnownReal(states), NEW t \in Tasks, NEW v \in KnownStates,
           v.rev \in Revisions(t), v.status \in {Nobody, past[t][v.rev]}
    PROVE  With(states, t, v) \in Partial(KnownStates) /\ KnownReal(With(states, t, v))
  <1>1. With(states, t, v) \in Partial(KnownStates) /\ DOMAIN With(states, t, v) = DOMAIN states \cup {t}
        /\ \A u \in DOMAIN states \cup {t} : With(states, t, v)[u] = IF u = t THEN v ELSE states[u]
    <2>1. PICK S : S = KnownStates
      OBVIOUS
    <2>2. states \in Partial(S) /\ v \in S
      BY <2>1
    <2>3. With(states, t, v) \in Partial(S)
      BY <2>2, WithKnown
    <2>4. DOMAIN With(states, t, v) = DOMAIN states \cup {t}
      BY DEF With
    <2>5. \A u \in DOMAIN states \cup {t} : With(states, t, v)[u] = IF u = t THEN v ELSE states[u]
      BY DEF With
    <2>6. QED
      BY <2>1, <2>3, <2>4, <2>5
  <1>2. QED
    BY <1>1 DEF KnownReal

\* A patch the peer applies is one of the revision it holds: what it holds then
\* is the activity of the patch's revision.
LEMMA PatchReal ==
    ASSUME past \in [Tasks -> Seq(ShownActivity)], NEW states \in Partial(KnownStates), KnownReal(states),
           NEW f \in Frames, f.kind = "patch", FrameReal(f), Nobody \notin ShownActivity
    PROVE  Patched(states, f) \in Partial(KnownStates) /\ KnownReal(Patched(states, f))
  <1>1. /\ f.task \in Tasks /\ f.rev \in Nat /\ f.base \in Nat /\ f.status \in ShownActivity \cup {Nobody}
    BY DEF Frames
  <1>2. /\ f.rev \in Revisions(f.task)
        /\ f.status = Nobody => past[f.task][f.rev] = past[f.task][f.base]
        /\ f.status # Nobody => f.status = past[f.task][f.rev]
    BY DEF FrameReal
  <1>3. CASE f.task \notin DOMAIN states
    BY <1>3 DEF Patched
  <1>4. CASE f.task \in DOMAIN states /\ states[f.task].rev # f.base
    <2>1. Patched(states, f) = Without(states, f.task)
      BY <1>4 DEF Patched
    <2>2. PICK t \in Tasks : t = f.task
      BY <1>1
    <2>3. Without(states, t) \in Partial(KnownStates) /\ KnownReal(Without(states, t))
      BY FewerReal
    <2>4. QED
      BY <2>1, <2>2, <2>3
  <1>5. CASE f.task \in DOMAIN states /\ states[f.task].rev = f.base
    <2> DEFINE v == [rev |-> f.rev,
                     status |-> IF f.status = Nobody THEN states[f.task].status
                                ELSE IF f.form = "partial" THEN Nobody ELSE f.status]
    <2>1. Patched(states, f) = With(states, f.task, v)
      BY <1>5 DEF Patched
    <2>2. states[f.task].status \in {Nobody, past[f.task][f.base]} /\ states[f.task].status \in ShownActivity \cup {Nobody}
      <3>1. states[f.task] \in KnownStates
        BY <1>5 DEF Partial
      <3>2. QED
        BY <1>5, <3>1 DEF KnownReal, KnownStates
    <2>3. v \in KnownStates /\ v.rev = f.rev /\ v.status \in {Nobody, past[f.task][f.rev]}
      BY <1>1, <1>2, <2>2 DEF KnownStates
    <2> HIDE DEF v
    <2>4. PICK t \in Tasks : t = f.task
      BY <1>1
    <2>5. v.rev \in Revisions(t) /\ v.status \in {Nobody, past[t][v.rev]}
      BY <1>2, <2>3, <2>4
    <2>6. With(states, t, v) \in Partial(KnownStates) /\ KnownReal(With(states, t, v))
      BY <2>3, <2>5, AnotherReal
    <2>7. QED
      BY <2>1, <2>4, <2>6
  <1>6. QED
    BY <1>3, <1>4, <1>5

LEMMA SnapshotReal ==
    ASSUME past \in [Tasks -> Seq(ShownActivity)], NEW states \in Partial(KnownStates), KnownReal(states),
           NEW f \in Frames, f.kind = "snapshot", FrameReal(f)
    PROVE  LET known == With(states, f.task, [rev |-> f.rev, status |-> f.status])
           IN  known \in Partial(KnownStates) /\ KnownReal(known)
  <1>1. f.task \in Tasks /\ f.rev \in Nat /\ f.status \in ShownActivity
    BY DEF Frames
  <1>2. f.rev \in Revisions(f.task) /\ f.status = past[f.task][f.rev]
    BY DEF FrameReal
  <1> DEFINE v == [rev |-> f.rev, status |-> f.status]
  <1>3. v \in KnownStates /\ v.rev = f.rev /\ v.status = f.status
    BY <1>1 DEF KnownStates
  <1> HIDE DEF v
  <1>4. PICK t \in Tasks : t = f.task
    BY <1>1
  <1>5. With(states, t, v) \in Partial(KnownStates) /\ KnownReal(With(states, t, v))
    <2>1. v.rev \in Revisions(t) /\ v.status \in {Nobody, past[t][v.rev]}
      BY <1>2, <1>3, <1>4
    <2>2. QED
      BY <1>3, <2>1, AnotherReal
  <1>6. QED
    BY <1>4, <1>5 DEF v

---------------------------------------------------------------------------
(* The steps.                                                                *)

LEMMA NobodyIsNoActivity == Nobody \notin ShownActivity
  BY SyncAssumption DEF ShownActivity

LEMMA EmptyKnown == ASSUME NEW S PROVE Unlisted \in Partial(S)
  <1>1. {} \in SUBSET Tasks /\ Unlisted \in [{} -> S]
    BY DEF Unlisted
  <1>2. QED
    BY <1>1 DEF Partial

LEMMA SyncInitInv == SyncInit => SyncInv
  <1> SUFFICES ASSUME SyncInit PROVE SyncInv
    OBVIOUS
  <1> USE DEF SyncInit
  <1>1. past \in [Tasks -> Seq(ShownActivity)] /\ \A t \in Tasks : Len(past[t]) = 1
    BY DEF ShownActivity
  <1>2. SyncTypes
    BY <1>1 DEF SyncTypes
  <1>3. QED
    BY <1>1, <1>2 DEF SyncInv, PastBegun, WireReal, PeerReal, CacheReal, QueryReal

LEMMA QuietPast ==
    ASSUME SyncInv, past' = past
    PROVE  past \in [Tasks -> Seq(ShownActivity)] /\ past' \in [Tasks -> Seq(ShownActivity)] /\ Grown /\ PastBegun'
  <1>1. past \in [Tasks -> Seq(ShownActivity)]
    BY DEF SyncInv, SyncTypes
  <1>2. QED
    BY <1>1, SameGrown DEF SyncInv, PastBegun

LEMMA ChangeGrows ==
    ASSUME SyncInv, NEW t \in Tasks, NEW a \in Activities, past' = [past EXCEPT ![t] = Append(@, a)]
    PROVE  /\ past' \in [Tasks -> Seq(ShownActivity)] /\ Grown /\ PastBegun'
           /\ Len(past'[t]) = Len(past[t]) + 1 /\ past'[t][Len(past[t]) + 1] = a
           /\ Len(past[t]) \in Nat /\ Len(past[t]) >= 1
  <1>1. past \in [Tasks -> Seq(ShownActivity)] /\ a \in ShownActivity
    BY DEF SyncInv, SyncTypes, ShownActivity
  <1>2. Len(past[t]) \in Nat /\ Len(past[t]) >= 1
    BY <1>1 DEF SyncInv, PastBegun
  <1>3. past'[t] = Append(past[t], a) /\ \A u \in Tasks \ {t} : past'[u] = past[u]
    BY <1>1
  <1>4. past' \in [Tasks -> Seq(ShownActivity)]
    BY <1>1
  <1>5. Len(past'[t]) = Len(past[t]) + 1 /\ past'[t][Len(past[t]) + 1] = a
        /\ \A r \in Revisions(t) : past'[t][r] = past[t][r]
    BY <1>1, <1>3 DEF Revisions
  <1>6. ASSUME NEW u \in Tasks
        PROVE  Len(past[u]) <= Len(past'[u]) /\ (\A r \in Revisions(u) : past'[u][r] = past[u][r]) /\ Len(past'[u]) >= 1
    <2>1. CASE u = t
      <3>1. Len(past[t]) <= Len(past'[t]) /\ Len(past'[t]) >= 1
        BY <1>2, <1>5
      <3>2. QED
        BY <1>5, <2>1, <3>1
    <2>2. CASE u # t
      BY <1>1, <1>3, <2>2, LengthsAreNumbers DEF SyncInv, PastBegun
    <2>3. QED
      BY <2>1, <2>2
  <1>7. QED
    BY <1>2, <1>4, <1>5, <1>6 DEF Grown, PastBegun

LEMMA ChangeKeeps ==
    ASSUME SyncInv, NEW t \in Tasks, NEW a \in Activities, Change(t, a)
    PROVE  SyncInv'
  <1>1. /\ past' = [past EXCEPT ![t] = Append(@, a)] /\ owner[t] # Nobody
        /\ UNCHANGED <<catalog, owner, leader, inventory, polls, peer, cache, query>>
    BY DEF Change
  <1>2. /\ past' \in [Tasks -> Seq(ShownActivity)] /\ Grown /\ PastBegun'
        /\ Len(past'[t]) = Len(past[t]) + 1 /\ past'[t][Len(past[t]) + 1] = a
        /\ Len(past[t]) \in Nat /\ Len(past[t]) >= 1
    BY <1>1, ChangeGrows
  <1>3. past \in [Tasks -> Seq(ShownActivity)] /\ wire \in Seq(Frames) /\ owner[t] \in Owners
    BY <1>1 DEF SyncInv, SyncTypes
  <1>4. wire' \in Seq(Frames) /\ WireReal'
    <2>1. CASE wire' = wire
      BY <1>2, <1>3, <2>1, WireStays
    <2>2. ASSUME NEW form \in {"whole", "partial", "later"},
                 Send(<<[kind |-> "patch", task |-> t, from |-> owner[t], base |-> Len(past[t]),
                         rev |-> Len(past[t]) + 1, form |-> form,
                         status |-> IF a = Now(t) THEN Nobody ELSE a]>>)
          PROVE  wire' \in Seq(Frames) /\ WireReal'
      <3> DEFINE f == [kind |-> "patch", task |-> t, from |-> owner[t], base |-> Len(past[t]),
                       rev |-> Len(past[t]) + 1, form |-> form,
                       status |-> IF a = Now(t) THEN Nobody ELSE a]
      <3>1. f \in Frames
        <4>1. (IF a = Now(t) THEN Nobody ELSE a) \in ShownActivity \cup {Nobody}
          BY DEF ShownActivity
        <4>2. QED
          BY <1>2, <1>3, <4>1 DEF Frames
      <3>2. a # Nobody
        BY NobodyIsNoActivity DEF ShownActivity
      <3>3. /\ Len(past[t]) \in Revisions(t)' /\ Len(past[t]) + 1 \in Revisions(t)'
            /\ past'[t][Len(past[t])] = Now(t)
        <4>1. Len(past[t]) \in Revisions(t)
          BY <1>2 DEF Revisions
        <4>2. Len(past[t]) \in Revisions(t)' /\ past'[t][Len(past[t])] = past[t][Len(past[t])]
          BY <1>2, <1>3, <4>1, RevisionsGrow
        <4>3. Len(past[t]) + 1 \in Revisions(t)'
          BY <1>2 DEF Revisions
        <4>4. QED
          BY <4>2, <4>3 DEF Now
      <3>4. PICK g : g = f
        OBVIOUS
      <3>5. /\ g.kind = "patch" /\ g.task = t /\ g.base = Len(past[t]) /\ g.rev = Len(past[t]) + 1
            /\ g.status = IF a = Now(t) THEN Nobody ELSE a
        BY <3>4
      <3>6. FrameReal(g)'
        BY <1>2, <3>2, <3>3, <3>5 DEF FrameReal
      <3>7. g \in Frames /\ wire' = wire \o <<g>>
        BY <2>2, <3>1, <3>4 DEF Send
      <3>8. QED
        BY <1>2, <3>6, <3>7, FramesSent
    <2>3. QED
      BY <2>1, <2>2 DEF Change
  <1>5. SyncTypes'
    BY <1>1, <1>2, <1>4 DEF SyncInv, SyncTypes
  <1>6. PeerReal' /\ CacheReal' /\ QueryReal'
    BY <1>1, <1>2, PeerStays, CacheStays, QueryStays
  <1>7. QED
    BY <1>2, <1>4, <1>5, <1>6 DEF SyncInv

LEMMA DesktopKeeps ==
    ASSUME SyncInv,
           \/ \E t \in Tasks : \E o \in Owners \cup {Nobody} : Move(t, o)
           \/ \E t \in Tasks : Archive(t)
    PROVE  SyncInv'
  <1>1. UNCHANGED <<past, wire, leader, inventory, polls, peer, cache, query>>
    BY DEF Move, Archive
  <1>2. past \in [Tasks -> Seq(ShownActivity)] /\ past' \in [Tasks -> Seq(ShownActivity)] /\ Grown /\ PastBegun'
    BY <1>1, QuietPast
  <1>3. catalog' \subseteq Tasks /\ owner' \in [Tasks -> Owners \cup {Nobody}]
    BY DEF SyncInv, SyncTypes, Move, Archive
  <1>4. SyncTypes'
    BY <1>1, <1>2, <1>3 DEF SyncInv, SyncTypes
  <1>5. WireReal' /\ PeerReal' /\ CacheReal' /\ QueryReal'
    BY <1>1, <1>2, WireStays, PeerStays, CacheStays, QueryStays
  <1>6. QED
    BY <1>2, <1>4, <1>5 DEF SyncInv

LEMMA AnswerOwnerKeeps ==
    ASSUME SyncInv, NEW t \in Tasks, NEW r \in 1..MaxPolls, peer # Nobody, AnswerOwner(t, r)
    PROVE  SyncInv'
  <1>1. /\ UNCHANGED <<catalog, past, owner, leader, inventory, polls, cache, query>>
        /\ peer' = [peer EXCEPT !.asked[t] = @ \ {r}]
        /\ wire' = wire \o <<[kind |-> "owner", task |-> t, request |-> r, from |-> owner[t]]>>
    BY DEF AnswerOwner, Send, desktopVars
  <1>2. past \in [Tasks -> Seq(ShownActivity)] /\ past' \in [Tasks -> Seq(ShownActivity)] /\ Grown /\ PastBegun'
    BY <1>1, QuietPast
  <1>3. peer \in Peers /\ owner[t] \in Owners \cup {Nobody}
    BY DEF SyncInv, SyncTypes
  <1>4. peer' \in Peers /\ peer'.states = peer.states
    BY <1>1, <1>3 DEF Peers
  <1>5. PICK f \in Frames : f = [kind |-> "owner", task |-> t, request |-> r, from |-> owner[t]]
    BY <1>3 DEF Frames
  <1>6. FrameReal(f)'
    BY <1>5 DEF FrameReal
  <1>7. wire' \in Seq(Frames) /\ WireReal'
    BY <1>1, <1>2, <1>5, <1>6, FramesSent
  <1>8. SyncTypes'
    BY <1>1, <1>2, <1>4, <1>7 DEF SyncInv, SyncTypes
  <1>9. PeerReal' /\ CacheReal' /\ QueryReal'
    BY <1>1, <1>2, <1>4, PeerStays, CacheStays, QueryStays
  <1>10. QED
    BY <1>2, <1>7, <1>8, <1>9 DEF SyncInv

LEMMA ReconciledKnows ==
    ASSUME SyncInv, peer # Nobody, NEW tasks \in SUBSET Tasks, NEW request \in Int
    PROVE  Reconciled(tasks, request) \in Peers /\ KnownReal(Reconciled(tasks, request).states)
  <1>1. peer \in Peers /\ KnownReal(peer.states)
    BY DEF SyncInv, SyncTypes, PeerReal
  <1>2. /\ peer.owners \in Partial(Owners) /\ peer.states \in Partial(KnownStates)
        /\ peer.asked \in [Tasks -> SUBSET Int] /\ peer.ready \in BOOLEAN /\ peer.confirmed \in SUBSET Tasks
        /\ peer.pending \in Partial(Int)
    BY <1>1 DEF Peers
  <1>3. DOMAIN peer.owners \subseteq Tasks /\ DOMAIN peer.states \subseteq Tasks
    BY <1>2, KnownTasks
  <1> DEFINE owners == [t \in DOMAIN peer.owners \cap tasks |-> peer.owners[t]]
             states == [t \in DOMAIN peer.states \ (DOMAIN peer.owners \ tasks) |-> peer.states[t]]
             pending == [t \in tasks |-> request]
             asked == [t \in Tasks |-> IF t \in tasks THEN peer.asked[t] \cup {request} ELSE peer.asked[t]]
  <1>4. owners \in Partial(Owners)
    <2>1. DOMAIN peer.owners \cap tasks \in SUBSET Tasks
      OBVIOUS
    <2>2. QED
      BY <1>2, <2>1, KeptKnown
  <1>5. states \in Partial(KnownStates) /\ KnownReal(states)
    <2>1. DOMAIN peer.states \ (DOMAIN peer.owners \ tasks) \in SUBSET Tasks
      BY <1>3
    <2>2. states \in Partial(KnownStates)
      BY <1>2, <2>1, KeptKnown
    <2>3. KnownReal(states)
      BY <1>1 DEF KnownReal
    <2>4. QED
      BY <2>2, <2>3
  <1>6. pending \in Partial(Int)
    <2>1. pending \in [tasks -> Int]
      OBVIOUS
    <2>2. QED
      BY <2>1 DEF Partial
  <1>7. asked \in [Tasks -> SUBSET Int]
    BY <1>2
  <1>8. Reconciled(tasks, request) =
          [peer EXCEPT !.owners = owners, !.states = states, !.pending = pending, !.asked = asked]
    BY DEF Reconciled
  <1> HIDE DEF owners, states, pending, asked
  <1>9. Reconciled(tasks, request) \in Peers /\ Reconciled(tasks, request).states = states
    BY <1>1, <1>4, <1>5, <1>6, <1>7, <1>8 DEF Peers
  <1>10. QED
    BY <1>5, <1>9

LEMMA PollKeeps ==
    ASSUME SyncInv, NEW s \in Syncs, NEW complete \in BOOLEAN, Poll(s, complete)
    PROVE  SyncInv'
  <1> DEFINE tasks == IF complete THEN catalog ELSE {}
             read == [at |-> polls + 1, complete |-> complete, tasks |-> tasks]
  <1>1. /\ UNCHANGED <<catalog, past, owner, wire, cache, query>> /\ polls' = polls + 1
        /\ inventory' = [inventory EXCEPT ![s] = read] \/ inventory' = inventory
        /\ peer' = peer \/ (peer # Nobody /\ peer' = Reconciled(tasks, polls + 1))
    BY DEF Poll
  <1>2. past \in [Tasks -> Seq(ShownActivity)] /\ past' \in [Tasks -> Seq(ShownActivity)] /\ Grown /\ PastBegun'
    BY <1>1, QuietPast
  <1>3. tasks \in SUBSET Tasks /\ polls + 1 \in Int
    BY DEF SyncInv, SyncTypes
  <1>4. (peer' # Nobody => peer' \in Peers) /\ PeerReal'
    <2>1. CASE peer' = peer
      <3>1. PeerReal'
        BY <1>2, <2>1, PeerStays
      <3>2. QED
        BY <2>1, <3>1 DEF SyncInv, SyncTypes
    <2>2. CASE peer # Nobody /\ peer' = Reconciled(tasks, polls + 1)
      <3>1. Reconciled(tasks, polls + 1) \in Peers /\ KnownReal(Reconciled(tasks, polls + 1).states)
        BY <1>3, <2>2, ReconciledKnows
      <3>2. QED
        BY <1>1, <2>2, <3>1 DEF PeerReal, KnownReal, Revisions
    <2>3. QED
      BY <1>1, <2>1, <2>2
  <1>5. \A u \in Syncs : inventory'[u] # Nobody => inventory'[u].tasks \subseteq Tasks
    <2>1. read.tasks \subseteq Tasks
      BY <1>3
    <2> HIDE DEF read
    <2>2. ASSUME NEW u \in Syncs, inventory'[u] # Nobody PROVE inventory'[u].tasks \subseteq Tasks
      <3>1. inventory'[u] = read \/ inventory'[u] = inventory[u]
        BY <1>1 DEF SyncInv, SyncTypes
      <3>2. QED
        BY <2>1, <2>2, <3>1 DEF SyncInv, SyncTypes
    <2>3. QED
      BY <2>2
  <1> HIDE DEF read, tasks
  <1>6. SyncTypes'
    <2>1. DOMAIN inventory' = Syncs
      BY <1>1 DEF SyncInv, SyncTypes
    <2>2. polls' \in Int
      BY <1>1, <1>3
    <2>3. QED
      BY <1>1, <1>2, <1>4, <1>5, <2>1, <2>2 DEF SyncInv, SyncTypes
  <1>7. WireReal' /\ CacheReal' /\ QueryReal'
    BY <1>1, <1>2, WireStays, CacheStays, QueryStays
  <1>8. QED
    BY <1>2, <1>4, <1>6, <1>7 DEF SyncInv

LEMMA ConnectKeeps ==
    ASSUME SyncInv, NEW s \in Syncs, Connect(s)
    PROVE  SyncInv'
  <1> DEFINE new == [ready |-> FALSE, pending |-> Unlisted, asked |-> [t \in Tasks |-> {}],
                     states |-> Unlisted, owners |-> Unlisted, confirmed |-> {}]
  <1>1. /\ UNCHANGED <<catalog, past, owner, leader, inventory, polls, cache, query>>
        /\ peer' = new /\ wire' = <<[kind |-> "initialized"]>>
    BY DEF Connect, desktopVars
  <1>2. past \in [Tasks -> Seq(ShownActivity)] /\ past' \in [Tasks -> Seq(ShownActivity)] /\ Grown /\ PastBegun'
    BY <1>1, QuietPast
  <1>3. new \in Peers /\ KnownReal(new.states)'
    <2>1. Unlisted \in Partial(Int) /\ Unlisted \in Partial(KnownStates) /\ Unlisted \in Partial(Owners)
      BY EmptyKnown
    <2>2. DOMAIN Unlisted = {}
      BY DEF Unlisted
    <2>3. new \in Peers
      BY <2>1 DEF Peers
    <2>4. new.states = Unlisted
      OBVIOUS
    <2> HIDE DEF new
    <2>5. QED
      BY <2>2, <2>3, <2>4 DEF KnownReal
  <1>4. peer' \in Peers /\ PeerReal'
    BY <1>1, <1>3 DEF PeerReal
  <1>5. PICK f \in Frames : f = [kind |-> "initialized"]
    BY DEF Frames
  <1>6. FrameReal(f)' /\ wire' = <<f>>
    BY <1>1, <1>5 DEF FrameReal
  <1>7. wire' \in Seq(Frames) /\ WireReal'
    BY <1>6 DEF WireReal
  <1>8. SyncTypes'
    BY <1>1, <1>2, <1>4, <1>7 DEF SyncInv, SyncTypes
  <1>9. CacheReal' /\ QueryReal'
    BY <1>1, <1>2, CacheStays, QueryStays
  <1>10. QED
    BY <1>2, <1>4, <1>7, <1>8, <1>9 DEF SyncInv

LEMMA DisconnectKeeps ==
    ASSUME SyncInv, Disconnect \/ \E s \in Syncs : Stop(s)
    PROVE  SyncInv'
  <1>1. /\ UNCHANGED <<catalog, past, owner, polls, cache, query>> /\ peer' = Nobody /\ wire' = <<>>
        /\ inventory' = inventory \/ \E s \in Syncs : inventory' = [inventory EXCEPT ![s] = Nobody]
    BY DEF Disconnect, Stop, Disconnected
  <1>2. past \in [Tasks -> Seq(ShownActivity)] /\ past' \in [Tasks -> Seq(ShownActivity)] /\ Grown /\ PastBegun'
    BY <1>1, QuietPast
  <1>3. \A u \in Syncs : inventory'[u] # Nobody => inventory'[u].tasks \subseteq Tasks
    BY <1>1 DEF SyncInv, SyncTypes
  <1>4. SyncTypes' /\ WireReal' /\ PeerReal'
    BY <1>1, <1>2, <1>3 DEF SyncInv, SyncTypes, WireReal, PeerReal
  <1>5. CacheReal' /\ QueryReal'
    BY <1>1, <1>2, CacheStays, QueryStays
  <1>6. QED
    BY <1>2, <1>4, <1>5 DEF SyncInv

LEMMA PollFailsKeeps ==
    ASSUME SyncInv, NEW s \in Syncs, PollFails(s)
    PROVE  SyncInv'
  <1>1. /\ UNCHANGED <<catalog, past, owner, wire, polls, peer, cache, query>>
        /\ inventory' = [inventory EXCEPT ![s] = Nobody]
    BY DEF PollFails, desktopVars
  <1>2. past \in [Tasks -> Seq(ShownActivity)] /\ past' \in [Tasks -> Seq(ShownActivity)] /\ Grown /\ PastBegun'
    BY <1>1, QuietPast
  <1>3. \A u \in Syncs : inventory'[u] # Nobody => inventory'[u].tasks \subseteq Tasks
    BY <1>1 DEF SyncInv, SyncTypes
  <1>4. SyncTypes'
    BY <1>1, <1>2, <1>3 DEF SyncInv, SyncTypes
  <1>5. WireReal' /\ PeerReal' /\ CacheReal' /\ QueryReal'
    BY <1>1, <1>2, WireStays, PeerStays, CacheStays, QueryStays
  <1>6. QED
    BY <1>2, <1>4, <1>5 DEF SyncInv

LEMMA UnconfirmKeeps ==
    ASSUME SyncInv, NEW t \in Tasks, Unconfirm(t)
    PROVE  SyncInv'
  <1>1. /\ UNCHANGED <<catalog, past, owner, wire, inventory, polls, cache, query>> /\ peer # Nobody
        /\ peer' = [peer EXCEPT !.confirmed = @ \ {t}]
    BY DEF Unconfirm, desktopVars
  <1>2. past \in [Tasks -> Seq(ShownActivity)] /\ past' \in [Tasks -> Seq(ShownActivity)] /\ Grown /\ PastBegun'
    BY <1>1, QuietPast
  <1>3. peer \in Peers
    BY <1>1 DEF SyncInv, SyncTypes
  <1>4. peer' \in Peers /\ peer'.states = peer.states
    BY <1>1, <1>3 DEF Peers
  <1>5. SyncTypes'
    BY <1>1, <1>2, <1>4 DEF SyncInv, SyncTypes
  <1>6. WireReal' /\ PeerReal' /\ CacheReal' /\ QueryReal'
    BY <1>1, <1>2, <1>4, WireStays, PeerStays, CacheStays, QueryStays
  <1>7. QED
    BY <1>2, <1>5, <1>6 DEF SyncInv

\* What is saved of a task is unknown or what the peer holds.
LEMMA SaveKeeps ==
    ASSUME SyncInv, NEW s \in Syncs, Save(s)
    PROVE  SyncInv'
  <1> DEFINE tasks == inventory[s].tasks
  <1>1. /\ UNCHANGED <<catalog, past, owner, wire, inventory, polls, peer, query>> /\ inventory[s] # Nobody
        /\ cache' = [at |-> inventory[s].at, complete |-> inventory[s].complete, tasks |-> [t \in tasks |-> Applied(t)]]
    BY DEF Save, desktopVars
  <1>2. past \in [Tasks -> Seq(ShownActivity)] /\ past' \in [Tasks -> Seq(ShownActivity)] /\ Grown /\ PastBegun'
    BY <1>1, QuietPast
  <1>3. tasks \subseteq Tasks
    BY <1>1 DEF SyncInv, SyncTypes
  <1>4. ASSUME NEW t \in tasks, Applied(t) # "unknown" PROVE Was(t, Applied(t))
    <2>1. peer # Nobody /\ t \in DOMAIN peer.states /\ peer.states[t].status # Nobody /\ Applied(t) = peer.states[t].status
      BY <1>4 DEF Applied
    <2>2. KnownReal(peer.states)
      BY <2>1 DEF SyncInv, PeerReal
    <2>3. QED
      BY <2>1, <2>2 DEF KnownReal, Was
  <1>5. cache'.tasks = [t \in tasks |-> Applied(t)]
    BY <1>1
  <1>6. CacheReal'
    BY <1>1, <1>3, <1>4, <1>5 DEF CacheReal, Was, Revisions
  <1>7. SyncTypes'
    BY <1>1, <1>2 DEF SyncInv, SyncTypes
  <1>8. WireReal' /\ PeerReal' /\ QueryReal'
    BY <1>1, <1>2, WireStays, PeerStays, QueryStays
  <1>9. QED
    BY <1>2, <1>6, <1>7, <1>8 DEF SyncInv

LEMMA OverlayKeeps ==
    ASSUME SyncInv, Overlay
    PROVE  SyncInv'
  <1> DEFINE kept == IF cache.complete THEN {} ELSE DOMAIN query.tasks \ DOMAIN cache.tasks
             tasks == [t \in DOMAIN cache.tasks \cup kept |->
                        IF t \in kept THEN query.tasks[t]
                        ELSE [status |-> cache.tasks[t],
                              dir |-> IF t \in DOMAIN query.tasks THEN query.tasks[t].dir ELSE FALSE]]
  <1>1. /\ UNCHANGED <<catalog, past, owner, wire, inventory, polls, peer, cache>> /\ cache # Nobody
        /\ query' = [at |-> cache.at, complete |-> cache.complete, tasks |-> tasks]
    BY DEF Overlay, desktopVars
  <1>2. past \in [Tasks -> Seq(ShownActivity)] /\ past' \in [Tasks -> Seq(ShownActivity)] /\ Grown /\ PastBegun'
    BY <1>1, QuietPast
  <1>3. ASSUME NEW t \in DOMAIN tasks
        PROVE  t \in Tasks /\ (tasks[t].status # "unknown" => Was(t, tasks[t].status))
    <2>1. CASE t \in kept
      <3>1. t \in DOMAIN query.tasks /\ tasks[t] = query.tasks[t]
        BY <2>1
      <3>2. QED
        BY <3>1 DEF SyncInv, QueryReal
    <2>2. CASE t \notin kept
      <3>1. t \in DOMAIN cache.tasks /\ tasks[t].status = cache.tasks[t]
        BY <1>3, <2>2
      <3>2. QED
        BY <1>1, <3>1 DEF SyncInv, CacheReal
    <2>3. QED
      BY <2>1, <2>2
  <1>4. query'.tasks = tasks
    BY <1>1
  <1> HIDE DEF tasks
  <1>5. QueryReal'
    BY <1>1, <1>3, <1>4 DEF QueryReal, Was, Revisions
  <1>6. SyncTypes'
    BY <1>1, <1>2 DEF SyncInv, SyncTypes
  <1>7. WireReal' /\ PeerReal' /\ CacheReal'
    BY <1>1, <1>2, WireStays, PeerStays, CacheStays
  <1>8. QED
    BY <1>2, <1>5, <1>6, <1>7 DEF SyncInv

\* A frame that is taken from the wire, and perhaps a snapshot that follows.
LEMMA ReceiveSettles ==
    ASSUME SyncInv, peer # Nobody, UNCHANGED <<catalog, past, owner, inventory, polls, cache, query>>,
           wire' \in Seq(Frames), WireReal', peer' \in Peers, KnownReal(peer'.states)
    PROVE  SyncInv'
  <1>1. past \in [Tasks -> Seq(ShownActivity)] /\ past' \in [Tasks -> Seq(ShownActivity)] /\ Grown /\ PastBegun'
    BY QuietPast
  <1>2. PeerReal'
    BY DEF PeerReal, KnownReal, Revisions
  <1>3. SyncTypes'
    BY <1>1 DEF SyncInv, SyncTypes
  <1>4. CacheReal' /\ QueryReal'
    BY <1>1, CacheStays, QueryStays
  <1>5. QED
    BY <1>1, <1>2, <1>3, <1>4 DEF SyncInv

LEMMA OwnerFoundKeeps ==
    ASSUME SyncInv, peer # Nobody, wire # <<>>, UNCHANGED <<catalog, past, owner, inventory, polls, cache, query>>,
           NEW f \in Frames, f.kind = "owner", OwnerFound(f)
    PROVE  SyncInv'
  <1>1. f.task \in Tasks /\ f.from \in Owners \cup {Nobody}
    BY DEF Frames
  <1>2. PICK t \in Tasks : t = f.task
    BY <1>1
  <1>3. peer \in Peers /\ KnownReal(peer.states) /\ past \in [Tasks -> Seq(ShownActivity)]
    BY DEF SyncInv, SyncTypes, PeerReal
  <1>4. /\ peer.owners \in Partial(Owners) /\ peer.states \in Partial(KnownStates)
        /\ peer.pending \in Partial(Int) /\ peer.confirmed \in SUBSET Tasks
    BY <1>3 DEF Peers
  <1> DEFINE pending == Without(peer.pending, t)
  <1>5. pending \in Partial(Int)
    BY <1>4, WithoutKnown
  <1>6. wire' = Tail(wire) => wire' \in Seq(Frames) /\ WireReal'
    BY FrameTaken
  <1> HIDE DEF pending
  <1>7. CASE peer' = peer /\ wire' = Tail(wire)
    BY <1>3, <1>6, <1>7, ReceiveSettles
  <1>8. CASE /\ peer' = [peer EXCEPT !.pending = Without(@, f.task), !.states = Without(@, f.task), !.owners = Without(@, f.task)]
             /\ wire' = Tail(wire)
    <2> DEFINE states == Without(peer.states, t)
               owners == Without(peer.owners, t)
    <2>1. states \in Partial(KnownStates) /\ KnownReal(states)
      BY <1>3, <1>4, FewerReal
    <2>2. owners \in Partial(Owners)
      BY <1>4, WithoutKnown
    <2>3. peer' = [peer EXCEPT !.pending = pending, !.states = states, !.owners = owners]
      BY <1>2, <1>8 DEF pending
    <2> HIDE DEF states, owners
    <2>4. peer' \in Peers /\ peer'.states = states
      BY <1>3, <1>5, <2>1, <2>2, <2>3 DEF Peers
    <2>5. QED
      BY <1>6, <1>8, <2>1, <2>4, ReceiveSettles
  <1>9. CASE /\ f.from # Nobody
             /\ peer' = [peer EXCEPT !.pending = Without(@, f.task), !.owners = With(@, f.task, f.from),
                                     !.confirmed = @ \cup {f.task}]
             /\ \/ wire' = Tail(wire)
                \/ wire' = Append(Tail(wire), [kind |-> "snapshot", task |-> f.task, from |-> f.from,
                                               rev |-> Len(past[f.task]), status |-> Now(f.task)])
    <2>1. PICK o \in Owners : o = f.from
      BY <1>1, <1>9
    <2> DEFINE owners == With(peer.owners, t, o)
               confirmed == peer.confirmed \cup {t}
    <2>2. owners \in Partial(Owners)
      BY <1>4, WithKnown
    <2>3. peer' = [peer EXCEPT !.pending = pending, !.owners = owners, !.confirmed = confirmed]
      BY <1>2, <1>9, <2>1 DEF pending
    <2>4. confirmed \in SUBSET Tasks
      BY <1>4
    <2> HIDE DEF owners, confirmed
    <2>5. peer' \in Peers /\ peer'.states = peer.states
      BY <1>3, <1>5, <2>2, <2>3, <2>4 DEF Peers
    <2>6. wire' \in Seq(Frames) /\ WireReal'
      <3>1. CASE wire' = Tail(wire)
        BY <1>6, <3>1
      <3>2. CASE wire' = Append(Tail(wire), [kind |-> "snapshot", task |-> f.task, from |-> f.from,
                                             rev |-> Len(past[f.task]), status |-> Now(f.task)])
        <4>1. Len(past[t]) \in Nat /\ Len(past[t]) >= 1
          BY <1>3 DEF SyncInv, PastBegun
        <4>2. Len(past[t]) \in Revisions(t) /\ past[t][Len(past[t])] \in ShownActivity
          BY <1>3, <4>1 DEF Revisions
        <4>3. PICK g : g = [kind |-> "snapshot", task |-> t, from |-> o, rev |-> Len(past[t]), status |-> Now(t)]
          OBVIOUS
        <4>4. g \in Frames /\ g.kind = "snapshot" /\ g.task = t /\ g.rev = Len(past[t]) /\ g.status = Now(t)
          BY <4>1, <4>2, <4>3 DEF Frames, Now
        <4>5. FrameReal(g)
          BY <4>2, <4>4 DEF FrameReal, Now
        <4>6. wire' = Append(Tail(wire), g)
          BY <1>2, <2>1, <3>2, <4>3
        <4>7. QED
          BY <4>4, <4>5, <4>6, FrameTakenAndSent
      <3>3. QED
        BY <1>9, <3>1, <3>2
    <2>7. QED
      BY <1>3, <2>5, <2>6, ReceiveSettles
  <1>10. QED
    BY <1>7, <1>8, <1>9 DEF OwnerFound

LEMMA BroadcastKeeps ==
    ASSUME SyncInv, peer # Nobody, wire # <<>>, UNCHANGED <<catalog, past, owner, inventory, polls, cache, query>>,
           NEW f \in Frames, FrameReal(f), f.kind \notin {"initialized", "owner"}, Broadcast(f)
    PROVE  SyncInv'
  <1>1. f.kind \in {"snapshot", "patch"} /\ f.task \in Tasks
    BY DEF Frames
  <1>2. peer \in Peers /\ KnownReal(peer.states) /\ past \in [Tasks -> Seq(ShownActivity)]
    BY DEF SyncInv, SyncTypes, PeerReal
  <1>3. peer.states \in Partial(KnownStates)
    BY <1>2 DEF Peers
  <1>4. wire' \in Seq(Frames) /\ WireReal'
    BY FrameTaken DEF Broadcast
  <1> DEFINE states == IF f.kind = "snapshot" THEN With(peer.states, f.task, [rev |-> f.rev, status |-> f.status])
                       ELSE IF f.form = "later" THEN Without(peer.states, f.task) ELSE Patched(peer.states, f)
  <1>5. states \in Partial(KnownStates) /\ KnownReal(states)
    <2>1. CASE f.kind = "snapshot"
      <3>1. With(peer.states, f.task, [rev |-> f.rev, status |-> f.status]) \in Partial(KnownStates)
            /\ KnownReal(With(peer.states, f.task, [rev |-> f.rev, status |-> f.status]))
        BY <1>2, <1>3, <2>1, SnapshotReal
      <3>2. QED
        BY <2>1, <3>1
    <2>2. CASE f.kind = "patch" /\ f.form = "later"
      <3>1. PICK t : t = f.task
        OBVIOUS
      <3>2. Without(peer.states, t) \in Partial(KnownStates) /\ KnownReal(Without(peer.states, t))
        BY <1>2, <1>3, FewerReal
      <3>3. QED
        BY <2>2, <3>1, <3>2
    <2>3. CASE f.kind = "patch" /\ f.form # "later"
      <3>1. Patched(peer.states, f) \in Partial(KnownStates) /\ KnownReal(Patched(peer.states, f))
        BY <1>2, <1>3, <2>3, NobodyIsNoActivity, PatchReal
      <3>2. QED
        BY <2>3, <3>1
    <2>4. QED
      BY <1>1, <2>1, <2>2, <2>3
  <1>6. peer' = peer \/ peer' = [peer EXCEPT !.states = states]
    BY DEF Broadcast
  <1> HIDE DEF states
  <1>7. peer' \in Peers /\ KnownReal(peer'.states)
    <2>1. CASE peer' = peer
      BY <1>2, <2>1
    <2>2. CASE peer' = [peer EXCEPT !.states = states]
      <3>1. peer' \in Peers /\ peer'.states = states
        BY <1>2, <1>5, <2>2 DEF Peers
      <3>2. QED
        BY <1>5, <3>1
    <2>3. QED
      BY <1>6, <2>1, <2>2
  <1>8. QED
    BY <1>4, <1>7, ReceiveSettles

LEMMA ReceiveKeeps ==
    ASSUME SyncInv, Receive
    PROVE  SyncInv'
  <1>1. peer # Nobody /\ wire # <<>> /\ UNCHANGED <<catalog, past, owner, inventory, polls, cache, query>>
    BY DEF Receive
  <1>2. wire \in Seq(Frames) /\ peer \in Peers /\ KnownReal(peer.states)
    BY <1>1 DEF SyncInv, SyncTypes, PeerReal
  <1>3. Len(wire) \in Nat /\ Len(wire) >= 1 /\ Head(wire) = wire[1]
    BY <1>1, <1>2
  <1>4. 1 \in 1..Len(wire) /\ wire[1] \in Frames
    BY <1>2, <1>3
  <1>5. PICK f \in Frames : f = Head(wire) /\ FrameReal(f)
    BY <1>3, <1>4 DEF SyncInv, WireReal
  <1>6. CASE f.kind = "initialized"
    <2>1. peer' = [peer EXCEPT !.ready = TRUE] /\ wire' = Tail(wire)
      BY <1>5, <1>6 DEF Receive
    <2>2. peer' \in Peers /\ peer'.states = peer.states
      BY <1>2, <2>1 DEF Peers
    <2>3. QED
      BY <1>1, <1>2, <2>1, <2>2, FrameTaken, ReceiveSettles
  <1>7. CASE f.kind = "owner"
    <2>1. OwnerFound(f)
      BY <1>5, <1>7 DEF Receive
    <2>2. QED
      BY <1>1, <1>7, <2>1, OwnerFoundKeeps
  <1>8. CASE f.kind \notin {"initialized", "owner"}
    <2>1. Broadcast(f)
      BY <1>5, <1>8 DEF Receive
    <2>2. QED
      BY <1>1, <1>5, <1>8, <2>1, BroadcastKeeps
  <1>9. QED
    BY <1>6, <1>7, <1>8

LEMMA SyncStutter == ASSUME SyncInv, UNCHANGED syncVars PROVE SyncInv'
  <1>1. UNCHANGED <<catalog, past, owner, wire, inventory, polls, peer, cache, query>>
    BY DEF syncVars, desktopVars
  <1>2. past \in [Tasks -> Seq(ShownActivity)] /\ past' \in [Tasks -> Seq(ShownActivity)] /\ Grown /\ PastBegun'
    BY <1>1, QuietPast
  <1>3. SyncTypes'
    BY <1>1, <1>2 DEF SyncInv, SyncTypes
  <1>4. WireReal' /\ PeerReal' /\ CacheReal' /\ QueryReal'
    BY <1>1, <1>2, WireStays, PeerStays, CacheStays, QueryStays
  <1>5. QED
    BY <1>2, <1>3, <1>4 DEF SyncInv

LEMMA SyncInductive == SyncInv /\ [SyncNext]_syncVars => SyncInv'
  <1> SUFFICES ASSUME SyncInv, [SyncNext]_syncVars PROVE SyncInv'
    OBVIOUS
  <1>1. ASSUME NEW t \in Tasks, NEW a \in Activities, Change(t, a) PROVE SyncInv'
    BY <1>1, ChangeKeeps
  <1>2. ASSUME NEW t \in Tasks, (\E o \in Owners \cup {Nobody} : Move(t, o)) \/ Archive(t) PROVE SyncInv'
    BY <1>2, DesktopKeeps
  <1>3. ASSUME NEW t \in Tasks, Unconfirm(t) PROVE SyncInv'
    BY <1>3, UnconfirmKeeps
  <1>4. ASSUME NEW t \in Tasks, peer # Nobody, NEW r \in 1..MaxPolls, AnswerOwner(t, r) PROVE SyncInv'
    BY <1>4, AnswerOwnerKeeps
  <1>5. ASSUME NEW s \in Syncs, NEW complete \in BOOLEAN, Poll(s, complete) PROVE SyncInv'
    BY <1>5, PollKeeps
  <1>6. ASSUME NEW s \in Syncs, PollFails(s) \/ Connect(s) \/ Stop(s) \/ Save(s) PROVE SyncInv'
    BY <1>6, PollFailsKeeps, ConnectKeeps, DisconnectKeeps, SaveKeeps
  <1>7. ASSUME Disconnect \/ Receive \/ Overlay PROVE SyncInv'
    BY <1>7, DisconnectKeeps, ReceiveKeeps, OverlayKeeps
  <1>8. CASE UNCHANGED syncVars
    BY <1>8, SyncStutter
  <1>9. QED
    BY <1>1, <1>2, <1>3, <1>4, <1>5, <1>6, <1>7, <1>8 DEF SyncNext

LEMMA SyncInvReal == SyncInv => ActivityReal
  <1> SUFFICES ASSUME SyncInv PROVE ActivityReal
    OBVIOUS
  <1>1. ASSUME NEW t \in DOMAIN query.tasks, query.tasks[t].status # "unknown"
        PROVE  \E r \in DOMAIN past[t] : past[t][r] = query.tasks[t].status
    <2>1. t \in Tasks /\ Was(t, query.tasks[t].status)
      BY <1>1 DEF SyncInv, QueryReal
    <2>2. past[t] \in Seq(ShownActivity)
      BY <2>1 DEF SyncInv, SyncTypes
    <2>3. DOMAIN past[t] = Revisions(t)
      BY <2>2 DEF Revisions
    <2>4. QED
      BY <2>1, <2>3 DEF Was
  <1>2. QED
    BY <1>1 DEF ActivityReal, SyncInv, PeerReal, KnownReal

\* An activity the peer believes, a thread saved or a viewer shows is one the
\* task had, whatever owners, answers and connections came and went in between
\* (apply_change, message, apply and the overlay of agent_sync.rs).
THEOREM ActivityIsReal == SyncSpec => []ActivityReal
  <1>1. SyncInit => SyncInv
    BY SyncInitInv
  <1>2. SyncInv /\ [SyncNext]_syncVars => SyncInv'
    BY SyncInductive
  <1>3. SyncInv => ActivityReal
    BY SyncInvReal
  <1>4. QED
    BY <1>1, <1>2, <1>3, PTL DEF SyncSpec

---------------------------------------------------------------------------
(* A command that its supervisor ended leaves a mark that nothing removes: in *)
(* a probe, in the row of a worktree, or the resolution has failed.          *)

ProbesAnswered == DOMAIN probe = Probes
RowFields == {"at", "base", "tags", "ahead", "behind", "distance"}
RowShape == DOMAIN row = Trees /\ \A t \in Trees : DOMAIN row[t] = RowFields

ProbeMarks(p) == probe[p] = "stopped"
RowMarks(t) == row[t].at = "stopped"

Surfaced ==
    stopped => \/ step = "error"
               \/ step = "probes" /\ \E p \in Probes : ProbeMarks(p)
               \/ step = "integration" /\ \E p \in UnusedProbes \cup Trees : ProbeMarks(p)
               \/ /\ step \in {"opening", "groups", "witness", "closing", "rows"}
                  /\ \E t \in Trees : ProbeMarks(t) \/ RowMarks(t)

SupervisionInv == ProbesAnswered /\ RowShape /\ Surfaced

LEMMA SupervisionInit == RelationInit => SupervisionInv
  BY DEF RelationInit, SupervisionInv, ProbesAnswered, RowShape, RowFields, Unread, Surfaced

\* A command of the first ones answers, or leaves its probe as it was.
ProbeMove(p, how) ==
    /\ DOMAIN probe' = Probes /\ probe[p] # "stopped"
    /\ how = "stopped" => probe'[p] = "stopped"
    /\ \A q \in Probes \ {p} : probe'[q] = probe[q]

LEMMA ProbesSurface ==
    ASSUME SupervisionInv, NEW how \in Answers,
           \/ ReadConfiguration(how) \/ ReadRemoteHead(how) \/ ProbeRoot(how)
           \/ \E b \in {"dev", "develop"} : ProbeBranch(b, how)
           \/ \E t \in Trees : ReadStatus(t, how)
    PROVE  SupervisionInv'
  <1>1. step = "probes" /\ step' = step /\ row' = row /\ (stopped' => stopped \/ how = "stopped")
    BY DEF ReadConfiguration, ReadRemoteHead, ProbeRoot, ProbeBranch, ReadStatus, Ask
  <1>2. \E p \in Probes : ProbeMove(p, how)
    <2>1. CASE ReadConfiguration(how)
      <3>1. "config" \in Probes
        BY DEF Probes
      <3>2. ProbeMove("config", how)
        BY <2>1, <3>1 DEF ReadConfiguration, Optional, Answered, ProbeMove, SupervisionInv, ProbesAnswered
      <3>3. QED
        BY <3>1, <3>2
    <2>2. CASE ReadRemoteHead(how) \/ ProbeRoot(how)
      <3>1. "root" \in Probes
        BY DEF Probes
      <3>2. ProbeMove("root", how)
        BY <2>2, <3>1 DEF ReadRemoteHead, ProbeRoot, Answered, ProbeMove, SupervisionInv, ProbesAnswered
      <3>3. QED
        BY <3>1, <3>2
    <2>3. ASSUME NEW b \in {"dev", "develop"}, ProbeBranch(b, how) PROVE \E p \in Probes : ProbeMove(p, how)
      <3>1. b \in Probes
        BY DEF Probes
      <3>2. ProbeMove(b, how)
        BY <2>3, <3>1 DEF ProbeBranch, Answered, ProbeMove, SupervisionInv, ProbesAnswered
      <3>3. QED
        BY <3>1, <3>2
    <2>4. ASSUME NEW t \in Trees, ReadStatus(t, how) PROVE \E p \in Probes : ProbeMove(p, how)
      <3>1. t \in Probes
        BY DEF Probes
      <3>2. ProbeMove(t, how)
        BY <2>4, <3>1 DEF ReadStatus, Answered, ProbeMove, SupervisionInv, ProbesAnswered
      <3>3. QED
        BY <3>1, <3>2
    <2>5. QED
      BY <2>1, <2>2, <2>3, <2>4
  <1>3. PICK p \in Probes : ProbeMove(p, how)
    BY <1>2
  <1>4. ProbesAnswered' /\ RowShape'
    BY <1>1, <1>3 DEF SupervisionInv, ProbesAnswered, RowShape, ProbeMove
  <1>5. Surfaced'
    <2>1. CASE how = "stopped"
      <3>1. probe'[p] = "stopped"
        BY <1>3, <2>1 DEF ProbeMove
      <3>2. QED
        BY <1>1, <3>1 DEF Surfaced, ProbeMarks
    <2>2. CASE how # "stopped" /\ stopped
      <3>1. PICK q \in Probes : probe[q] = "stopped"
        BY <1>1, <2>2 DEF SupervisionInv, Surfaced, ProbeMarks
      <3>2. probe'[q] = "stopped"
        BY <1>3, <3>1 DEF ProbeMove
      <3>3. QED
        BY <1>1, <3>2 DEF Surfaced, ProbeMarks
    <2>3. QED
      BY <1>1, <2>1, <2>2 DEF Surfaced
  <1>6. QED
    BY <1>4, <1>5 DEF SupervisionInv

\* A configured branch that is asked for now fails the resolution when its
\* command is ended: it is the first of the three.
LEMMA DevelopmentSurfaces ==
    ASSUME SupervisionInv, NEW how \in Answers, SelectDevelopment(how)
    PROVE  SupervisionInv'
  <1> DEFINE wanted == IF probe.config \in {targets.root, "stopped"} THEN Absent ELSE probe.config
             fresh == wanted # Absent /\ wanted \notin {"dev", "develop"}
             found(b) == IF b \in {Absent, targets.root} THEN "missing"
                         ELSE IF b \in {"dev", "develop"} THEN probe[b]
                         ELSE IF how # "read" THEN how ELSE IF Exists(b) THEN "there" ELSE "missing"
             order == <<wanted, "dev", "develop">>
             hits == {n \in 1..3 : found(order[n]) # "missing"}
             first == CHOOSE n \in hits : \A k \in hits : n <= k
             broken == Broken(probe.config) \/ Broken(probe.root)
  <1>1. /\ step = "probes" /\ probe' = probe /\ row' = row
        /\ IF fresh /\ ~broken THEN Ask(how) ELSE how = "read" /\ UNCHANGED <<failures, stopped>>
        /\ broken \/ (hits # {} /\ Broken(found(order[first]))) => step' = "error"
        /\ step' \in {"error", "integration"}
    BY DEF SelectDevelopment, Fails
  <1>2. ProbesAnswered' /\ RowShape'
    BY <1>1 DEF SupervisionInv, ProbesAnswered, RowShape
  <1>3. CASE step' = "error"
    BY <1>2, <1>3 DEF SupervisionInv, Surfaced
  <1>4. CASE step' = "integration"
    <2>1. ~broken
      BY <1>1, <1>4
    <2>2. ~(how = "stopped" /\ fresh)
      <3>1. SUFFICES ASSUME how = "stopped", fresh PROVE FALSE
        OBVIOUS
      <3>2. wanted # targets.root /\ wanted # Absent
        BY <3>1
      <3>3. found(wanted) = "stopped" /\ order[1] = wanted
        BY <3>1, <3>2
      <3> HIDE DEF found, wanted
      <3>4. 1 \in hits /\ \A k \in hits : 1 <= k
        BY <3>3
      <3>5. first \in hits /\ \A k \in hits : first <= k
        BY <3>4
      <3>6. first = 1
        BY <3>4, <3>5
      <3>7. hits # {} /\ Broken(found(order[first]))
        BY <3>3, <3>4, <3>6 DEF Broken
      <3>8. QED
        BY <1>1, <1>4, <3>7
    <2>3. how # "stopped" /\ (stopped' => stopped)
      BY <1>1, <2>1, <2>2 DEF Ask, Answers
    <2>4. ASSUME stopped' PROVE \E p \in UnusedProbes \cup Trees : ProbeMarks(p)
      <3>1. PICK p \in Probes : probe[p] = "stopped"
        BY <1>1, <2>3, <2>4 DEF SupervisionInv, Surfaced, ProbeMarks
      <3>2. p \notin {"config", "root"}
        BY <2>1, <3>1 DEF Broken
      <3>3. QED
        BY <3>1, <3>2 DEF Probes, UnusedProbes, ProbeMarks
    <2>5. Surfaced'
      BY <1>1, <1>4, <2>4 DEF Surfaced, ProbeMarks
    <2>6. QED
      BY <1>2, <2>5 DEF SupervisionInv
  <1>5. QED
    BY <1>1, <1>3, <1>4

LEMMA SelectionSurfaces ==
    ASSUME SupervisionInv, TargetsSelected \/ \E how \in Answers : ReadIntegration(how)
    PROVE  SupervisionInv'
  <1>1. step = "integration" /\ probe' = probe /\ row' = row
    BY DEF TargetsSelected, ReadIntegration
  <1>2. ProbesAnswered' /\ RowShape'
    BY <1>1 DEF SupervisionInv, ProbesAnswered, RowShape
  <1>3. stopped => \E p \in UnusedProbes \cup Trees : ProbeMarks(p)
    BY <1>1 DEF SupervisionInv, Surfaced
  <1>4. CASE TargetsSelected
    <2>1. /\ stopped' = stopped
          /\ (\E p \in UnusedProbes : ProbeMarks(p)) => step' = "error"
          /\ step' \in {"error", "opening", "rows"}
      BY <1>4 DEF TargetsSelected, ProbeMarks
    <2>2. Surfaced'
      BY <1>1, <1>3, <2>1 DEF Surfaced, ProbeMarks
    <2>3. QED
      BY <1>2, <2>2 DEF SupervisionInv
  <1>5. ASSUME NEW how \in Answers, ReadIntegration(how) PROVE SupervisionInv'
    <2>1. (stopped' => stopped \/ how = "stopped") /\ (step' = "error" \/ (step' = step /\ how = "read"))
      BY <1>5 DEF ReadIntegration, Ask, Fails
    <2>2. Surfaced'
      BY <1>1, <1>3, <2>1 DEF Surfaced, ProbeMarks
    <2>3. QED
      BY <1>2, <2>2 DEF SupervisionInv
  <1>6. QED
    BY <1>4, <1>5

\* Between the captures a command that is ended fails the resolution at once.
Sharing == {"opening", "groups", "witness", "closing"}
LEMMA SharingSurfaces ==
    ASSUME SupervisionInv,
           \/ Observed
           \/ \E how \in Answers : \/ CaptureFiles(how) \/ CaptureReferences(how) \/ CaptureRemoteHead(how)
                                   \/ RereadTags(how) \/ \E g \in work.groups : Observe(g, how)
    PROVE  SupervisionInv'
  <1>1. probe' = probe /\ row' = row /\ step \in Sharing
    BY DEF Observed, CaptureFiles, CaptureReferences, CaptureRemoteHead, RereadTags, Observe, Sharing
  <1>2. \/ step' = "error"
        \/ step' \in Sharing \cup {"rows"} /\ (stopped' => stopped)
    <2>1. CASE Observed
      BY <2>1 DEF Observed, Sharing
    <2>2. ASSUME NEW how \in Answers, CaptureFiles(how) \/ CaptureReferences(how) \/ RereadTags(how)
          PROVE  step' = "error" \/ (step' \in Sharing \cup {"rows"} /\ (stopped' => stopped))
      BY <2>2 DEF CaptureFiles, CaptureReferences, RereadTags, Ask, NotShared, Fails, Decline, Sharing
    <2>3. ASSUME NEW how \in Answers, CaptureRemoteHead(how)
          PROVE  step' = "error" \/ (step' \in Sharing \cup {"rows"} /\ (stopped' => stopped))
      BY <2>3 DEF CaptureRemoteHead, Ask, NotShared, Fails, Decline, Sharing
    <2>4. ASSUME NEW how \in Answers, NEW g \in work.groups, Observe(g, how)
          PROVE  step' = "error" \/ (step' \in Sharing \cup {"rows"} /\ (stopped' => stopped))
      BY <2>4 DEF Observe, Ask, Fails, Decline, Sharing
    <2>5. QED
      BY <2>1, <2>2, <2>3, <2>4
  <1>3. Surfaced'
    BY <1>1, <1>2 DEF SupervisionInv, Surfaced, ProbeMarks, RowMarks, Sharing
  <1>4. QED
    BY <1>1, <1>3 DEF SupervisionInv, ProbesAnswered, RowShape

\* What a step does to the row it is about, and to no other.
RowStep(t, how) == ReadBase(t, how) \/ ReadTags(t, how) \/ ReadCounts(t, how) \/ ReadDistance(t, how)

\* A row is replaced whole; a failed one by the row that was never read.
LEMMA RowPut ==
    ASSUME RowShape, NEW t \in Trees, NEW r, DOMAIN r = RowFields, Row(t, r)
    PROVE  /\ RowShape' /\ row'[t] = r
           /\ \A u \in Trees \ {t} : row'[u] = row[u]
  <1> HIDE DEF RowFields
  <1>1. QED
    BY DEF RowShape, Row

LEMMA LostIs ==
    ASSUME NEW t, NEW how, Lost(t, how)
    PROVE  \E r : Row(t, r) /\ DOMAIN r = RowFields /\ r.at = how
  <1>1. PICK r : r = [Unread EXCEPT !.at = how]
    OBVIOUS
  <1>2. DOMAIN r = RowFields /\ r.at = how
    BY <1>1 DEF Unread, RowFields
  <1>3. Row(t, r)
    BY <1>1 DEF Lost
  <1>4. QED
    BY <1>2, <1>3

LEMMA RowMoves ==
    ASSUME RowShape, NEW t \in Trees, NEW how \in Answers, RowStep(t, how)
    PROVE  /\ UNCHANGED <<repo, since, changes, probe, targets, proof, work, step>> /\ Ask(how)
           /\ step = "rows" /\ row[t].at \in {"base", "tags", "counts", "distance"}
           /\ RowShape' /\ (how = "stopped" => row'[t].at = "stopped")
           /\ \A u \in Trees \ {t} : row'[u] = row[u]
  <1>1. CASE ReadBase(t, how)
    <2>1. /\ UNCHANGED <<repo, since, changes, probe, targets, proof, work, step>> /\ Ask(how)
          /\ step = "rows" /\ row[t].at = "base"
      BY <1>1 DEF ReadBase, Asked
    <2>2. CASE how = "stopped"
      <3>1. Lost(t, "stopped")
        BY <1>1, <2>2 DEF ReadBase
      <3>2. PICK r : Row(t, r) /\ DOMAIN r = RowFields /\ r.at = "stopped"
        BY <3>1, LostIs
      <3>3. QED
        BY <2>1, <2>2, <3>2, RowPut
    <2>3. CASE how # "stopped"
      <3>1. PICK b : Row(t, [row[t] EXCEPT !.at = IF b = Absent THEN "unknown" ELSE "tags", !.base = b])
        BY <1>1, <2>3 DEF ReadBase
      <3>2. PICK r : r = [row[t] EXCEPT !.at = IF b = Absent THEN "unknown" ELSE "tags", !.base = b]
        OBVIOUS
      <3>3. DOMAIN r = RowFields
        BY <3>2 DEF RowShape
      <3>4. Row(t, r)
        BY <3>1, <3>2
      <3>5. QED
        BY <2>1, <2>3, <3>3, <3>4, RowPut
    <2>4. QED
      BY <2>2, <2>3
  <1>2. CASE ReadTags(t, how)
    <2>1. /\ UNCHANGED <<repo, since, changes, probe, targets, proof, work, step>> /\ Ask(how)
          /\ step = "rows" /\ row[t].at = "tags"
      BY <1>2 DEF ReadTags, Asked
    <2>2. CASE how # "read"
      <3>1. PICK lost : Lost(t, lost) /\ (how = "stopped" => lost = "stopped")
        BY <1>2, <2>2 DEF ReadTags
      <3>2. PICK r : Row(t, r) /\ DOMAIN r = RowFields /\ r.at = lost
        BY <3>1, LostIs
      <3>3. QED
        BY <2>1, <3>1, <3>2, RowPut
    <2>3. CASE how = "read"
      <3>1. PICK b : Row(t, [row[t] EXCEPT !.at = "counts", !.tags = b])
        BY <1>2, <2>3 DEF ReadTags
      <3>2. PICK r : r = [row[t] EXCEPT !.at = "counts", !.tags = b]
        OBVIOUS
      <3>3. DOMAIN r = RowFields
        BY <3>2 DEF RowShape
      <3>4. Row(t, r)
        BY <3>1, <3>2
      <3>5. QED
        BY <2>1, <2>3, <3>3, <3>4, RowPut
    <2>4. QED
      BY <2>2, <2>3
  <1>3. CASE ReadCounts(t, how)
    <2>1. /\ UNCHANGED <<repo, since, changes, probe, targets, proof, work, step>> /\ Ask(how)
          /\ step = "rows" /\ row[t].at = "counts"
      BY <1>3 DEF ReadCounts, Asked
    <2>2. CASE how # "read" \/ ~Exists(TargetOf(t))
      <3>1. PICK lost : Lost(t, lost) /\ (how = "stopped" => lost = "stopped")
        BY <1>3, <2>2 DEF ReadCounts
      <3>2. PICK r : Row(t, r) /\ DOMAIN r = RowFields /\ r.at = lost
        BY <3>1, LostIs
      <3>3. QED
        BY <2>1, <3>1, <3>2, RowPut
    <2>3. CASE ~(how # "read" \/ ~Exists(TargetOf(t)))
      <3>1. PICK r, a, b : /\ r = [row[t] EXCEPT !.ahead = a, !.behind = b]
                           /\ \/ Row(t, [r EXCEPT !.at = "done", !.distance = r.behind])
                              \/ Row(t, [r EXCEPT !.at = "distance"])
        BY <1>3, <2>3 DEF ReadCounts
      <3>2. DOMAIN r = RowFields
        BY <3>1 DEF RowShape
      <3>3. PICK done, far : /\ done = [r EXCEPT !.at = "done", !.distance = r.behind]
                             /\ far = [r EXCEPT !.at = "distance"]
        OBVIOUS
      <3>4. DOMAIN done = RowFields /\ DOMAIN far = RowFields
        BY <3>2, <3>3
      <3>5. Row(t, done) \/ Row(t, far)
        BY <3>1, <3>3
      <3>6. QED
        BY <2>1, <2>3, <3>4, <3>5, RowPut
    <2>4. QED
      BY <2>2, <2>3
  <1>4. CASE ReadDistance(t, how)
    <2>1. /\ UNCHANGED <<repo, since, changes, probe, targets, proof, work, step>> /\ Ask(how)
          /\ step = "rows" /\ row[t].at = "distance"
      BY <1>4 DEF ReadDistance, Asked
    <2>2. CASE how # "read" \/ ~Exists(TargetOf(t))
      <3>1. PICK lost : Lost(t, lost) /\ (how = "stopped" => lost = "stopped")
        BY <1>4, <2>2 DEF ReadDistance
      <3>2. PICK r : Row(t, r) /\ DOMAIN r = RowFields /\ r.at = lost
        BY <3>1, LostIs
      <3>3. QED
        BY <2>1, <3>1, <3>2, RowPut
    <2>3. CASE ~(how # "read" \/ ~Exists(TargetOf(t)))
      <3>1. PICK b : Row(t, [row[t] EXCEPT !.at = "done", !.distance = b])
        BY <1>4, <2>3 DEF ReadDistance
      <3>2. PICK r : r = [row[t] EXCEPT !.at = "done", !.distance = b]
        OBVIOUS
      <3>3. DOMAIN r = RowFields
        BY <3>2 DEF RowShape
      <3>4. Row(t, r)
        BY <3>1, <3>2
      <3>5. QED
        BY <2>1, <2>3, <3>3, <3>4, RowPut
    <2>4. QED
      BY <2>2, <2>3
  <1>5. QED
    BY <1>1, <1>2, <1>3, <1>4 DEF RowStep

LEMMA RowsSurface ==
    ASSUME SupervisionInv, NEW t \in Trees, NEW how \in Answers, RowStep(t, how)
    PROVE  SupervisionInv'
  <1>1. /\ UNCHANGED <<probe, step>> /\ Ask(how) /\ step = "rows"
        /\ row[t].at \in {"base", "tags", "counts", "distance"} /\ RowShape'
        /\ how = "stopped" => row'[t].at = "stopped"
        /\ \A u \in Trees \ {t} : row'[u] = row[u]
    BY RowMoves DEF SupervisionInv
  <1>2. CASE how = "stopped"
    BY <1>1, <1>2 DEF SupervisionInv, ProbesAnswered, Surfaced, RowMarks
  <1>3. CASE how # "stopped" /\ stopped'
    <2>1. PICK u \in Trees : ProbeMarks(u) \/ RowMarks(u)
      BY <1>1, <1>3 DEF SupervisionInv, Surfaced, Ask
    <2>2. ProbeMarks(u)' \/ RowMarks(u)'
      BY <1>1, <2>1 DEF ProbeMarks, RowMarks
    <2>3. QED
      BY <1>1, <2>2 DEF SupervisionInv, ProbesAnswered, Surfaced
  <1>4. CASE ~stopped'
    BY <1>1, <1>4 DEF SupervisionInv, ProbesAnswered, Surfaced
  <1>5. QED
    BY <1>2, <1>3, <1>4

LEMMA RestSurfaces ==
    ASSUME SupervisionInv, RepositoryChanges \/ Resolved \/ UNCHANGED relationVars
    PROVE  SupervisionInv'
  <1>1. UNCHANGED <<probe, row, stopped>>
    BY DEF RepositoryChanges, Resolved, relationVars
  <1>2. CASE step' = step
    BY <1>1, <1>2 DEF SupervisionInv, ProbesAnswered, RowShape, Surfaced, ProbeMarks, RowMarks
  <1>3. CASE Resolved
    BY <1>1, <1>3 DEF Resolved, SupervisionInv, ProbesAnswered, RowShape, Surfaced, ProbeMarks, RowMarks
  <1>4. QED
    BY <1>2, <1>3 DEF RepositoryChanges, relationVars

\* The steps, in the groups the lemmas are about.
LEMMA RelationSteps ==
    ASSUME [RelationNext]_relationVars
    PROVE  \/ \E how \in Answers :
                \/ ReadConfiguration(how) \/ ReadRemoteHead(how) \/ ProbeRoot(how)
                \/ \E b \in {"dev", "develop"} : ProbeBranch(b, how)
                \/ \E t \in Trees : ReadStatus(t, how)
           \/ \E how \in Answers : SelectDevelopment(how)
           \/ TargetsSelected \/ \E how \in Answers : ReadIntegration(how)
           \/ Observed
           \/ \E how \in Answers : \/ CaptureFiles(how) \/ CaptureReferences(how) \/ CaptureRemoteHead(how)
                                   \/ RereadTags(how) \/ \E g \in work.groups : Observe(g, how)
           \/ \E t \in Trees, how \in Answers : RowStep(t, how)
           \/ RepositoryChanges \/ Resolved \/ UNCHANGED relationVars
  BY Zenon DEF RelationNext, RowStep

LEMMA SupervisionInductive == SupervisionInv /\ [RelationNext]_relationVars => SupervisionInv'
  BY RelationSteps, ProbesSurface, DevelopmentSurfaces, SelectionSurfaces, SharingSurfaces, RowsSurface, RestSurfaces

\* A command that its supervisor ended fails the resolution wherever it ran
\* (resolve and its callees in git_relationship.rs): a report is made of answers.
THEOREM SupervisionAlwaysSurfaces == RelationSpec => []SupervisionSurfaces
  <1>1. SupervisionInv => SupervisionSurfaces
    BY DEF SupervisionInv, Surfaced, SupervisionSurfaces
  <1>2. QED
    BY <1>1, SupervisionInit, SupervisionInductive, PTL DEF RelationSpec
---------------------------------------------------------------------------
(* A worktree that is asked on its own.                                      *)

BaseSeen(t) == \E s \in since :
    /\ s.refs[TargetOf(t)] # Absent
    /\ row[t].base = MergeBase(s.refs[TargetOf(t)], Listed[t].head)
DistanceSeen(t) == \E u \in since :
    /\ u.refs[TargetOf(t)] # Absent
    /\ row[t].distance = Beyond(u.refs[TargetOf(t)], row[t].base)

RowSeen(t) ==
    /\ row[t].at # "base" => step \in {"rows", "report", "error"}
    /\ row[t].at \in {"tags", "counts", "distance", "done"} => BaseSeen(t)
    /\ row[t].at = "done" => DistanceSeen(t)

RowsInv == RowShape /\ repo \in since /\ \A t \in Trees : RowSeen(t)

LEMMA RowsInit == RelationInit => RowsInv
  BY DEF RelationInit, RowsInv, RowShape, RowFields, Unread, RowSeen

\* Steps that leave the rows alone; while a row is under way the targets stay.
LEMMA RowSeenStays ==
    ASSUME RowsInv, NEW t \in Trees, row'[t] = row[t], since \subseteq since',
           row[t].at # "base" => targets' = targets /\ step' \in {"rows", "report", "error"}
    PROVE  RowSeen(t)'
  <1>1. RowSeen(t)
    BY DEF RowsInv
  <1>2. CASE row[t].at = "base"
    BY <1>2 DEF RowSeen
  <1>3. CASE row[t].at # "base"
    <2>1. TargetOf(t)' = TargetOf(t)
      BY <1>3 DEF TargetOf
    <2>2. BaseSeen(t) => BaseSeen(t)'
      BY <2>1 DEF BaseSeen
    <2>3. DistanceSeen(t) => DistanceSeen(t)'
      BY <2>1 DEF DistanceSeen
    <2>4. QED
      BY <1>1, <1>3, <2>2, <2>3 DEF RowSeen
  <1>4. QED
    BY <1>2, <1>3

LEMMA RowsLeftAlone ==
    ASSUME RowsInv, row' = row, repo' \in since', since \subseteq since',
           \/ step \notin {"rows", "report", "error"}
           \/ targets' = targets /\ step' \in {"rows", "report", "error"}
    PROVE  RowsInv'
  <1>1. ASSUME NEW t \in Trees PROVE RowSeen(t)'
    <2>1. row[t].at # "base" => step \in {"rows", "report", "error"}
      BY DEF RowsInv, RowSeen
    <2>2. QED
      BY <2>1, RowSeenStays
  <1>2. QED
    BY <1>1 DEF RowsInv, RowShape

LEMMA OthersLeaveRows ==
    ASSUME RowsInv,
           \/ \E how \in Answers :
                \/ ReadConfiguration(how) \/ ReadRemoteHead(how) \/ ProbeRoot(how)
                \/ \E b \in {"dev", "develop"} : ProbeBranch(b, how)
                \/ \E t \in Trees : ReadStatus(t, how)
           \/ \E how \in Answers : SelectDevelopment(how)
           \/ TargetsSelected \/ \E how \in Answers : ReadIntegration(how)
           \/ Observed
           \/ \E how \in Answers : \/ CaptureFiles(how) \/ CaptureReferences(how) \/ CaptureRemoteHead(how)
                                   \/ RereadTags(how) \/ \E g \in work.groups : Observe(g, how)
    PROVE  RowsInv'
  <1>1. /\ UNCHANGED <<repo, since, row>>
        /\ step \in {"probes", "integration", "opening", "groups", "witness", "closing"}
    BY DEF ReadConfiguration, ReadRemoteHead, ProbeRoot, ProbeBranch, ReadStatus, SelectDevelopment,
           TargetsSelected, ReadIntegration, Observed, CaptureFiles, CaptureReferences, CaptureRemoteHead,
           RereadTags, Observe
  <1>2. repo' \in since' /\ since \subseteq since'
    BY <1>1 DEF RowsInv
  <1>3. QED
    BY <1>1, <1>2, RowsLeftAlone

LEMMA RestLeavesRows ==
    ASSUME RowsInv, RepositoryChanges \/ Resolved \/ UNCHANGED relationVars
    PROVE  RowsInv'
  <1>1. row' = row /\ targets' = targets
    BY DEF RepositoryChanges, Resolved, relationVars
  <1>2. repo' \in since' /\ since \subseteq since'
    BY DEF RepositoryChanges, Resolved, relationVars, RowsInv
  <1>3. step \in {"rows", "report", "error"} => step' \in {"rows", "report", "error"}
    BY DEF RepositoryChanges, Resolved, relationVars
  <1>4. QED
    BY <1>1, <1>2, <1>3, RowsLeftAlone

\* A row that is asked: every command reads the repository as it is now.
LEMMA AskedRowSeen ==
    ASSUME RowsInv, NEW t \in Trees, NEW how \in Answers, RowStep(t, how)
    PROVE  RowSeen(t)'
  <1>1. /\ UNCHANGED <<repo, since, targets, step>> /\ step = "rows" /\ RowShape /\ repo \in since
        /\ RowSeen(t)
    BY RowMoves DEF RowsInv
  <1>2. TargetOf(t)' = TargetOf(t)
    BY <1>1 DEF TargetOf
  <1> DEFINE target == repo.refs[TargetOf(t)]
  <1>3. ASSUME NEW answer \in {"failed", "stopped"}, Lost(t, answer) PROVE RowSeen(t)'
    <2>1. row'[t].at = answer
      BY <1>1, <1>3 DEF Lost, Row, Unread, RowShape
    <2>2. QED
      BY <1>1, <1>3, <2>1 DEF RowSeen
  <1>4. CASE ReadBase(t, how)
    <2>1. CASE how = "stopped"
      BY <1>3, <1>4, <2>1 DEF ReadBase
    <2>2. CASE how # "stopped" /\ (how = "failed" \/ ~Exists(TargetOf(t)))
      <3>1. Row(t, [row[t] EXCEPT !.at = "unknown", !.base = Absent])
        BY <1>4, <2>2 DEF ReadBase
      <3>2. row'[t].at = "unknown"
        BY <1>1, <3>1 DEF Row, RowShape, RowFields
      <3>3. QED
        BY <1>1, <3>2 DEF RowSeen
    <2>3. CASE how \notin {"stopped", "failed"} /\ Exists(TargetOf(t))
      <3> DEFINE base == MergeBase(target, Listed[t].head)
      <3>1. Row(t, [row[t] EXCEPT !.at = IF base = Absent THEN "unknown" ELSE "tags", !.base = base]) /\ target # Absent
        BY <1>4, <2>3 DEF ReadBase, Exists
      <3>2. row'[t].at \in {"unknown", "tags"} /\ row'[t].base = base
        BY <1>1, <3>1 DEF Row, RowShape, RowFields
      <3>3. BaseSeen(t)'
        BY <1>1, <1>2, <3>1, <3>2 DEF BaseSeen
      <3>4. QED
        BY <1>1, <3>2, <3>3 DEF RowSeen
    <2>4. QED
      BY <2>1, <2>2, <2>3
  <1>5. CASE ReadTags(t, how)
    <2>1. CASE how # "read"
      BY <1>3, <1>5, <2>1 DEF ReadTags, Answers
    <2>2. CASE how = "read"
      <3>1. row'[t].at = "counts" /\ row'[t].base = row[t].base /\ row[t].at = "tags"
        <4>1. PICK tags : row' = [row EXCEPT ![t] = [row[t] EXCEPT !.at = "counts", !.tags = tags]]
          BY <1>5, <2>2 DEF ReadTags, Row
        <4>2. DOMAIN row = Trees /\ {"at", "base"} \subseteq DOMAIN row[t]
          BY <1>1 DEF RowShape, RowFields
        <4>3. row[t].at = "tags"
          BY <1>5 DEF ReadTags
        <4>4. QED
          BY <4>1, <4>2, <4>3
      <3>2. BaseSeen(t)
        BY <1>1, <3>1 DEF RowSeen
      <3>3. BaseSeen(t)'
        BY <1>1, <1>2, <3>1, <3>2 DEF BaseSeen
      <3>4. QED
        BY <1>1, <3>1, <3>3 DEF RowSeen
    <2>3. QED
      BY <2>1, <2>2
  <1>6. CASE ReadCounts(t, how)
    <2>1. CASE how # "read" \/ ~Exists(TargetOf(t))
      BY <1>3, <1>6, <2>1 DEF ReadCounts, Answers
    <2>2. CASE how = "read" /\ Exists(TargetOf(t))
      <3> DEFINE r == [row[t] EXCEPT !.ahead = Beyond(Listed[t].head, target),
                                     !.behind = Beyond(target, Listed[t].head)]
      <3>1. /\ row[t].at = "counts" /\ target # Absent
            /\ Row(t, IF Counted(r, Listed[t].head) THEN [r EXCEPT !.at = "done", !.distance = r.behind]
                      ELSE [r EXCEPT !.at = "distance"])
        BY <1>6, <2>2 DEF ReadCounts, Exists
      <3>2. DOMAIN r = RowFields /\ r.base = row[t].base /\ r.behind = Beyond(target, Listed[t].head)
        BY <1>1 DEF RowShape, RowFields
      <3>3. BaseSeen(t)
        BY <1>1, <3>1 DEF RowSeen
      <3> HIDE DEF r
      <3>4. CASE Counted(r, Listed[t].head)
        <4>1. /\ row'[t].at = "done" /\ row'[t].base = row[t].base /\ row'[t].distance = Beyond(target, Listed[t].head)
          BY <1>1, <3>1, <3>2, <3>4 DEF Row, RowShape, RowFields
        <4>2. row'[t].base = Listed[t].head
          BY <3>2, <3>4, <4>1 DEF Counted
        <4>3. BaseSeen(t)'
          BY <1>1, <1>2, <3>3, <4>1 DEF BaseSeen
        <4>4. DistanceSeen(t)'
          BY <1>1, <1>2, <3>1, <4>1, <4>2 DEF DistanceSeen
        <4>5. QED
          BY <1>1, <4>3, <4>4 DEF RowSeen
      <3>5. CASE ~Counted(r, Listed[t].head)
        <4>1. row'[t].at = "distance" /\ row'[t].base = row[t].base
          BY <1>1, <3>1, <3>2, <3>5 DEF Row, RowShape, RowFields
        <4>2. BaseSeen(t)'
          BY <1>1, <1>2, <3>3, <4>1 DEF BaseSeen
        <4>3. QED
          BY <1>1, <4>1, <4>2 DEF RowSeen
      <3>6. QED
        BY <3>4, <3>5
    <2>3. QED
      BY <2>1, <2>2
  <1>7. CASE ReadDistance(t, how)
    <2>1. CASE how # "read" \/ ~Exists(TargetOf(t))
      BY <1>3, <1>7, <2>1 DEF ReadDistance, Answers
    <2>2. CASE how = "read" /\ Exists(TargetOf(t))
      <3>1. /\ row[t].at = "distance" /\ target # Absent
            /\ Row(t, [row[t] EXCEPT !.at = "done", !.distance = Beyond(target, row[t].base)])
        BY <1>7, <2>2 DEF ReadDistance, Exists
      <3>2. row'[t].at = "done" /\ row'[t].base = row[t].base /\ row'[t].distance = Beyond(target, row[t].base)
        BY <1>1, <3>1 DEF Row, RowShape, RowFields
      <3>3. BaseSeen(t)
        BY <1>1, <3>1 DEF RowSeen
      <3>4. BaseSeen(t)'
        BY <1>1, <1>2, <3>2, <3>3 DEF BaseSeen
      <3>5. DistanceSeen(t)'
        BY <1>1, <1>2, <3>1, <3>2 DEF DistanceSeen
      <3>6. QED
        BY <1>1, <3>4, <3>5 DEF RowSeen
    <2>3. QED
      BY <2>1, <2>2
  <1>8. QED
    BY <1>4, <1>5, <1>6, <1>7 DEF RowStep

LEMMA AskedRowsSeen ==
    ASSUME RowsInv, NEW t \in Trees, NEW how \in Answers, RowStep(t, how)
    PROVE  RowsInv'
  <1>1. /\ UNCHANGED <<repo, since, targets, step>> /\ step = "rows" /\ RowShape'
        /\ \A u \in Trees \ {t} : row'[u] = row[u]
    BY RowMoves DEF RowsInv
  <1>2. ASSUME NEW u \in Trees PROVE RowSeen(u)'
    <2>1. CASE u = t
      BY <2>1, AskedRowSeen
    <2>2. CASE u # t
      BY <1>1, <2>2, RowSeenStays
    <2>3. QED
      BY <2>1, <2>2
  <1>3. QED
    BY <1>1, <1>2 DEF RowsInv

LEMMA RowsInductive == RowsInv /\ [RelationNext]_relationVars => RowsInv'
  BY RelationSteps, OthersLeaveRows, AskedRowsSeen, RestLeavesRows

\* What a worktree asked on its own shows was true: its base of a head its
\* target had, and its distance from a head its target had, read at instants of
\* the resolution (relationship_for in git_relationship.rs).
THEOREM RowsAreReal == RelationSpec => []RowsReal
  <1>1. RowsInv => RowsReal
    <2> SUFFICES ASSUME RowsInv, NEW t \in Trees, row[t].at = "done"
                 PROVE  \E s \in since, u \in since :
                            LET before == s.refs[TargetOf(t)]
                                after == u.refs[TargetOf(t)]
                            IN /\ before # Absent /\ row[t].base = MergeBase(before, Listed[t].head)
                               /\ after # Absent /\ row[t].distance = Beyond(after, row[t].base)
      BY DEF RowsReal
    <2>1. BaseSeen(t) /\ DistanceSeen(t)
      BY DEF RowsInv, RowSeen
    <2>2. QED
      BY <2>1 DEF BaseSeen, DistanceSeen
  <1>2. QED
    BY <1>1, RowsInit, RowsInductive, PTL DEF RelationSpec
---------------------------------------------------------------------------
(* What worktrees share.  The facts are computed from ids of the opening      *)
(* capture; only tags may move meanwhile, and with one change a tag that was  *)
(* read is that of the opening or of the repository as it has become.         *)

ProofFields == {"heads", "refs", "tags", "remote"}
SharedShape ==
    /\ DOMAIN proof = {"opening", "closing"} /\ changes \in Nat
    /\ DOMAIN proof.opening = ProofFields /\ DOMAIN proof.closing = ProofFields
    /\ DOMAIN work = {"groups", "tags", "rows"}

NoneShared == DOMAIN work.tags = {} /\ DOMAIN work.rows = {} /\ work.groups = {}

FactsTrue(t) ==
    LET facts == work.rows[t]
        target == proof.opening.refs[TargetOf(t)]
    IN /\ t \in Trees /\ target = targets.integration[TargetOf(t)]
       /\ facts.base = MergeBase(target, Listed[t].head)
       /\ facts.ahead = Beyond(Listed[t].head, target) /\ facts.behind = Beyond(target, Listed[t].head)
       /\ facts.distance = Beyond(target, facts.base)
       /\ facts.base \in DOMAIN work.tags /\ facts.tags = work.tags[facts.base]

\* Where the resolution is tells what has been captured and computed.
Captured ==
    /\ step \in {"probes", "integration", "opening"} => NoneShared
    /\ step \in {"probes", "integration", "opening", "groups", "witness"} => proof.closing.refs = Absent
    /\ step \in {"groups", "witness", "closing"} \/ ~NoneShared => proof.opening.refs # Absent
    /\ step \in {"rows", "report"} /\ DOMAIN work.rows # {} =>
          proof.closing = proof.opening /\ proof.closing.refs # Absent
    /\ \A g \in work.groups : g.oid # Absent

TagsSeen ==
    /\ changes = 0 /\ proof.opening.refs # Absent =>
          repo.tags = proof.opening.tags /\ \A b \in DOMAIN work.tags : work.tags[b] = proof.opening.tags[b]
    /\ changes <= 1 => \A b \in DOMAIN work.tags : work.tags[b] \in {proof.opening.tags[b], repo.tags[b]}
    /\ changes <= 1 /\ proof.closing.refs # Absent =>
          \A b \in DOMAIN work.tags : work.tags[b] \in {proof.opening.tags[b], proof.closing.tags[b]}

SharedInv == SharedShape /\ Captured /\ TagsSeen /\ \A t \in DOMAIN work.rows : FactsTrue(t)

LEMMA SharedInit == RelationInit => SharedInv
  BY DEF RelationInit, SharedInv, SharedShape, ProofFields, NoProof, NoWork, NoTags, NoneShared, Captured, TagsSeen

\* The facts stay true while what they rest on stays.
LEMMA FactsStay ==
    ASSUME SharedInv, targets' = targets, work' = work, proof'.opening = proof.opening
    PROVE  \A t \in DOMAIN work'.rows : FactsTrue(t)'
  <1>1. ASSUME NEW t \in DOMAIN work.rows PROVE FactsTrue(t)'
    <2>1. FactsTrue(t) /\ TargetOf(t)' = TargetOf(t)
      BY DEF SharedInv, TargetOf
    <2>2. QED
      BY <2>1 DEF FactsTrue
  <1>2. QED
    BY <1>1

\* Declining forgets everything that was computed.
LEMMA DeclineForgets ==
    ASSUME Decline
    PROVE  step' = "rows" /\ DOMAIN work' = {"groups", "tags", "rows"} /\ NoneShared'
           /\ DOMAIN work'.rows = {}
  BY DEF Decline, NoWork, NoTags, NoneShared

\* Nothing is shared: of the evidence only its shape matters, and whether the
\* tags of an opening are those of an unchanged repository.
LEMMA NothingShared ==
    ASSUME SharedShape', NoneShared', step' \in {"probes", "integration", "rows", "error"},
           step' \in {"probes", "integration"} => proof'.closing.refs = Absent,
           changes' = 0 /\ proof'.opening.refs # Absent => repo'.tags = proof'.opening.tags
    PROVE  SharedInv'
  BY DEF SharedInv, Captured, TagsSeen, NoneShared

LEMMA BeforeSharing ==
    ASSUME SharedInv,
           \/ \E how \in Answers :
                \/ ReadConfiguration(how) \/ ReadRemoteHead(how) \/ ProbeRoot(how)
                \/ \E b \in {"dev", "develop"} : ProbeBranch(b, how)
                \/ \E t \in Trees : ReadStatus(t, how)
           \/ \E how \in Answers : SelectDevelopment(how)
           \/ TargetsSelected \/ \E how \in Answers : ReadIntegration(how)
    PROVE  SharedInv'
  <1>1. /\ UNCHANGED <<repo, changes, proof, work>> /\ step \in {"probes", "integration"}
        /\ step' \in {"probes", "integration", "opening", "rows", "error"}
    BY DEF ReadConfiguration, ReadRemoteHead, ProbeRoot, ProbeBranch, ReadStatus, SelectDevelopment,
           TargetsSelected, ReadIntegration, Fails
  <1>2. SharedShape' /\ NoneShared' /\ proof'.closing.refs = Absent
    BY <1>1 DEF SharedInv, SharedShape, Captured, NoneShared
  <1>3. QED
    BY <1>1, <1>2 DEF SharedInv, Captured, TagsSeen, NoneShared

LEMMA RowsShareNothing ==
    ASSUME SharedInv,
           \/ Resolved \/ UNCHANGED relationVars
           \/ UNCHANGED <<repo, changes, targets, proof, work, step>>
    PROVE  SharedInv'
  <1>1. /\ UNCHANGED <<repo, changes, targets, proof, work>>
        /\ step' = step \/ (step = "rows" /\ step' \in {"report", "error"})
    BY DEF Resolved, relationVars
  <1>2. SharedShape' /\ Captured' /\ TagsSeen'
    BY <1>1 DEF SharedInv, SharedShape, Captured, TagsSeen, NoneShared
  <1>3. QED
    BY <1>1, <1>2, FactsStay DEF SharedInv

LEMMA ChangeSeen ==
    ASSUME SharedInv, RepositoryChanges
    PROVE  SharedInv'
  <1>1. UNCHANGED <<targets, proof, work, step>> /\ changes' = changes + 1 /\ changes \in Nat
    BY DEF RepositoryChanges, SharedInv, SharedShape
  <1>2. SharedShape' /\ Captured'
    BY <1>1 DEF SharedInv, SharedShape, Captured, NoneShared
  <1>3. ASSUME changes' <= 1, NEW b \in DOMAIN work.tags PROVE work.tags[b] = proof.opening.tags[b]
    <2>1. changes = 0 /\ ~NoneShared
      BY <1>1, <1>3 DEF NoneShared
    <2>2. proof.opening.refs # Absent
      BY <2>1 DEF SharedInv, Captured
    <2>3. QED
      BY <2>1, <2>2 DEF SharedInv, TagsSeen
  <1>4. TagsSeen'
    BY <1>1, <1>3 DEF TagsSeen
  <1>5. QED
    BY <1>1, <1>2, <1>4, FactsStay DEF SharedInv

LEMMA NotSharedKeeps ==
    ASSUME SharedInv, UNCHANGED <<repo, changes, targets, proof>>,
           Decline \/ (Fails /\ work' = work)
    PROVE  SharedInv'
  <1>1. CASE Decline
    <2>1. step' = "rows" /\ DOMAIN work' = {"groups", "tags", "rows"} /\ NoneShared'
      BY <1>1, DeclineForgets
    <2>2. SharedShape'
      BY <2>1 DEF SharedInv, SharedShape
    <2>3. changes' = 0 /\ proof'.opening.refs # Absent => repo'.tags = proof'.opening.tags
      BY DEF SharedInv, TagsSeen
    <2>4. QED
      BY <2>1, <2>2, <2>3, NothingShared
  <1>2. CASE Fails /\ work' = work
    <2>1. step' = "error"
      BY <1>2 DEF Fails
    <2>2. SharedShape' /\ Captured' /\ TagsSeen'
      BY <1>2, <2>1 DEF SharedInv, SharedShape, Captured, TagsSeen, NoneShared
    <2>3. QED
      BY <1>2, <2>2, FactsStay DEF SharedInv
  <1>3. QED
    BY <1>1, <1>2

\* What a capture writes: the field of the capture under way, and no other.
LEMMA CaptureWrites ==
    ASSUME SharedShape, step \in {"opening", "closing"}, NEW value,
           proof' = [proof EXCEPT ![step] = value]
    PROVE  /\ DOMAIN proof' = {"opening", "closing"}
           /\ step = "opening" => proof'.opening = value /\ proof'.closing = proof.closing
           /\ step = "closing" => proof'.closing = value /\ proof'.opening = proof.opening
  BY DEF SharedShape

LEMMA FilesCaptured ==
    ASSUME SharedInv, NEW how \in Answers, CaptureFiles(how)
    PROVE  SharedInv'
  <1>1. UNCHANGED <<repo, changes, targets>> /\ step \in {"opening", "closing"}
    BY DEF CaptureFiles
  <1>2. CASE proof' = proof /\ NotShared(how)
    BY <1>1, <1>2, NotSharedKeeps DEF NotShared
  <1>3. CASE proof' = [proof EXCEPT ![step].heads = WitnessedFiles] /\ UNCHANGED <<step, work>>
    <2> DEFINE value == [proof[step] EXCEPT !.heads = WitnessedFiles]
    <2>1. proof' = [proof EXCEPT ![step] = value]
      BY <1>3
    <2>2. DOMAIN value = ProofFields /\ value.refs = proof[step].refs /\ value.tags = proof[step].tags
      BY <1>1 DEF SharedInv, SharedShape, ProofFields
    <2> HIDE DEF value
    <2>3. /\ DOMAIN proof' = {"opening", "closing"}
          /\ step = "opening" => proof'.opening = value /\ proof'.closing = proof.closing
          /\ step = "closing" => proof'.closing = value /\ proof'.opening = proof.opening
      BY <1>1, <2>1, CaptureWrites DEF SharedInv
    <2>4. /\ DOMAIN proof'.opening = ProofFields /\ DOMAIN proof'.closing = ProofFields
          /\ proof'.opening.refs = proof.opening.refs /\ proof'.opening.tags = proof.opening.tags
          /\ proof'.closing.refs = proof.closing.refs /\ proof'.closing.tags = proof.closing.tags
      BY <1>1, <2>2, <2>3 DEF SharedInv, SharedShape
    <2>5. SharedShape' /\ Captured' /\ TagsSeen'
      BY <1>1, <1>3, <2>3, <2>4 DEF SharedInv, SharedShape, Captured, TagsSeen, NoneShared
    <2>6. \A t \in DOMAIN work'.rows : FactsTrue(t)'
      BY <1>1, <1>3, <2>3, FactsStay DEF SharedInv, Captured, NoneShared
    <2>7. QED
      BY <2>5, <2>6 DEF SharedInv
  <1>4. QED
    BY <1>2, <1>3 DEF CaptureFiles

LEMMA ReferencesCaptured ==
    ASSUME SharedInv, NEW how \in Answers, CaptureReferences(how)
    PROVE  SharedInv'
  <1>1. UNCHANGED <<repo, changes, targets>> /\ step \in {"opening", "closing"}
    BY DEF CaptureReferences
  <1>2. CASE proof' = proof /\ NotShared(how)
    BY <1>1, <1>2, NotSharedKeeps DEF NotShared
  <1>3. CASE proof' = [proof EXCEPT ![step].refs = repo.refs, ![step].tags = repo.tags] /\ UNCHANGED <<step, work>>
    <2> DEFINE value == [proof[step] EXCEPT !.refs = repo.refs, !.tags = repo.tags]
    <2>1. proof' = [proof EXCEPT ![step] = value]
      BY <1>1, <1>3 DEF SharedInv, SharedShape
    <2>2. DOMAIN value = ProofFields /\ value.refs = repo.refs /\ value.tags = repo.tags
      BY <1>1 DEF SharedInv, SharedShape, ProofFields
    <2> HIDE DEF value
    <2>3. /\ DOMAIN proof' = {"opening", "closing"}
          /\ step = "opening" => proof'.opening = value /\ proof'.closing = proof.closing
          /\ step = "closing" => proof'.closing = value /\ proof'.opening = proof.opening
      BY <1>1, <2>1, CaptureWrites DEF SharedInv
    <2>4. SharedShape'
      BY <1>1, <1>3, <2>2, <2>3 DEF SharedInv, SharedShape
    <2>5. CASE step = "opening"
      <3>1. NoneShared /\ NoneShared'
        BY <1>3, <2>5 DEF SharedInv, Captured, NoneShared
      <3>2. Captured'
        BY <1>3, <2>3, <2>5, <3>1 DEF SharedInv, Captured
      <3>3. TagsSeen'
        BY <1>1, <2>2, <2>3, <2>5, <3>1 DEF TagsSeen, NoneShared
      <3>4. QED
        BY <2>4, <3>1, <3>2, <3>3 DEF SharedInv, NoneShared
    <2>6. CASE step = "closing"
      <3>1. Captured'
        BY <1>3, <2>3, <2>6 DEF SharedInv, Captured, NoneShared
      <3>2. TagsSeen'
        BY <1>1, <1>3, <2>2, <2>3, <2>6 DEF SharedInv, TagsSeen
      <3>3. QED
        BY <1>1, <1>3, <2>3, <2>4, <2>6, <3>1, <3>2, FactsStay DEF SharedInv
    <2>7. QED
      BY <1>1, <2>5, <2>6
  <1>4. QED
    BY <1>2, <1>3 DEF CaptureReferences

LEMMA RemoteCaptured ==
    ASSUME SharedInv, NEW how \in Answers, CaptureRemoteHead(how)
    PROVE  SharedInv'
  <1> DEFINE now == [proof[step] EXCEPT !.remote = repo.remote]
  <1>1. UNCHANGED <<repo, changes, targets>> /\ step \in {"opening", "closing"} /\ proof[step].refs # Absent
    BY DEF CaptureRemoteHead
  <1>2. DOMAIN now = ProofFields /\ now.refs = proof[step].refs /\ now.tags = proof[step].tags
    BY <1>1 DEF SharedInv, SharedShape, ProofFields
  <1>3. CASE how # "read"
    BY <1>1, <1>3, NotSharedKeeps DEF CaptureRemoteHead, NotShared
  <1>4. CASE how = "read" /\ step = "opening"
    <2> DEFINE groups == {g \in GroupsOf(now.refs) : Cardinality(Members(g, now.refs)) > 1}
    <2>1. proof' = [proof EXCEPT !.opening = now] /\ work' = [work EXCEPT !.groups = groups] /\ step' = "groups"
      BY <1>4 DEF CaptureRemoteHead
    <2>2. \A g \in groups : g.oid # Absent
      BY DEF GroupsOf
    <2> HIDE DEF now, groups
    <2>3. proof'.opening = now /\ proof'.closing = proof.closing /\ DOMAIN proof' = {"opening", "closing"}
      BY <2>1 DEF SharedInv, SharedShape
    <2>4. /\ DOMAIN work' = {"groups", "tags", "rows"} /\ work'.groups = groups
          /\ DOMAIN work'.tags = {} /\ DOMAIN work'.rows = {}
      BY <1>4, <2>1 DEF SharedInv, SharedShape, Captured, NoneShared
    <2>5. SharedShape'
      BY <1>1, <1>2, <2>3, <2>4 DEF SharedInv, SharedShape
    <2>6. Captured'
      BY <1>1, <1>2, <1>4, <2>1, <2>2, <2>3, <2>4 DEF SharedInv, Captured
    <2>7. TagsSeen'
      BY <1>1, <1>2, <1>4, <2>3, <2>4 DEF SharedInv, TagsSeen
    <2>8. QED
      BY <2>4, <2>5, <2>6, <2>7 DEF SharedInv
  <1>5. CASE how = "read" /\ step = "closing"
    <2>1. proof' = [proof EXCEPT !.closing = now]
      BY <1>5 DEF CaptureRemoteHead
    <2>2. CASE now = proof.opening /\ step' = "rows" /\ work' = work
      <3> HIDE DEF now
      <3>1. proof'.opening = proof.opening /\ proof'.closing = now /\ DOMAIN proof' = {"opening", "closing"}
        BY <2>1 DEF SharedInv, SharedShape
      <3>2. SharedShape'
        BY <1>1, <1>2, <2>2, <3>1 DEF SharedInv, SharedShape
      <3>3. Captured'
        BY <1>1, <1>2, <1>5, <2>2, <3>1 DEF SharedInv, Captured, NoneShared
      <3>4. TagsSeen'
        BY <1>1, <1>2, <1>5, <2>2, <3>1 DEF SharedInv, TagsSeen
      <3>5. QED
        BY <1>1, <2>2, <3>1, <3>2, <3>3, <3>4, FactsStay DEF SharedInv
    <2>3. CASE Decline
      <3> HIDE DEF now
      <3>1. proof'.opening = proof.opening /\ proof'.closing = now /\ DOMAIN proof' = {"opening", "closing"}
        BY <2>1 DEF SharedInv, SharedShape
      <3>2. step' = "rows" /\ DOMAIN work' = {"groups", "tags", "rows"} /\ NoneShared'
        BY <2>3, DeclineForgets
      <3>3. SharedShape'
        BY <1>1, <1>2, <3>1, <3>2 DEF SharedInv, SharedShape
      <3>4. changes' = 0 /\ proof'.opening.refs # Absent => repo'.tags = proof'.opening.tags
        BY <1>1, <3>1 DEF SharedInv, TagsSeen
      <3>5. QED
        BY <3>2, <3>3, <3>4, NothingShared
    <2>4. QED
      BY <1>5, <2>2, <2>3 DEF CaptureRemoteHead, SameEvidence
  <1>6. QED
    BY <1>1, <1>3, <1>4, <1>5

LEMMA TagsReread ==
    ASSUME SharedInv, Observed \/ \E how \in Answers : RereadTags(how)
    PROVE  SharedInv'
  <1>1. UNCHANGED <<repo, changes, targets, proof>> /\ step \in {"groups", "witness"}
    BY DEF Observed, RereadTags
  <1>2. CASE Decline \/ (Fails /\ work' = work)
    BY <1>1, <1>2, NotSharedKeeps
  <1>3. CASE /\ work' = work
             /\ step' \in {"witness", "closing"} \/ (step' = "rows" /\ DOMAIN work.rows = {})
    <2>1. SharedShape' /\ TagsSeen'
      BY <1>1, <1>3 DEF SharedInv, SharedShape, TagsSeen
    <2>2. Captured'
      BY <1>1, <1>3 DEF SharedInv, Captured, NoneShared
    <2>3. \A t \in DOMAIN work'.rows : FactsTrue(t)'
      BY <1>1, <1>3, FactsStay
    <2>4. QED
      BY <2>1, <2>2, <2>3 DEF SharedInv
  <1>4. CASE Observed
    <2>1. DOMAIN NoWork.rows = {}
      BY DEF NoWork
    <2>2. work' = work /\ (step' = "witness" \/ (step' = "rows" /\ DOMAIN work.rows = {}))
      BY <1>4, <2>1 DEF Observed
    <2>3. QED
      BY <1>3, <2>2
  <1>5. ASSUME NEW how \in Answers, RereadTags(how) PROVE SharedInv'
    <2>1. Decline \/ (Fails /\ work' = work) \/ (step' = "closing" /\ work' = work)
      BY <1>5 DEF RereadTags, NotShared
    <2>2. QED
      BY <1>2, <1>3, <2>1
  <1>6. QED
    BY <1>4, <1>5

\* A group that was observed: its facts are of the ids that were captured, and
\* its tags those the repository has now; whatever was computed before stays.
LEMMA GroupObserved ==
    ASSUME SharedInv, NEW how \in Answers, NEW g \in work.groups, Observe(g, how)
    PROVE  SharedInv'
  <1> DEFINE base == MergeBase(g.oid, g.head)
             tags == repo.tags[base]
             facts == [base |-> base, tags |-> tags, ahead |-> Beyond(g.head, g.oid), behind |-> Beyond(g.oid, g.head),
                       distance |-> Beyond(g.oid, base)]
             members == Members(g, proof.opening.refs)
             known == [b \in DOMAIN work.tags \cup {base} |-> IF b = base THEN tags ELSE work.tags[b]]
             rows == [t \in DOMAIN work.rows \cup members |-> IF t \in members THEN facts ELSE work.rows[t]]
  <1>1. UNCHANGED <<repo, changes, targets, proof>> /\ step = "groups" /\ g \in work.groups
    BY DEF Observe
  <1>2. proof.opening.refs # Absent /\ proof.closing.refs = Absent /\ g.oid # Absent
    BY <1>1 DEF SharedInv, Captured
  <1>3. CASE Decline \/ (Fails /\ work' = work)
    BY <1>1, <1>3, NotSharedKeeps
  <1>4. CASE work' = [work EXCEPT !.groups = @ \ {g}] /\ step' = step
    <2>1. /\ DOMAIN work' = {"groups", "tags", "rows"} /\ work'.groups = work.groups \ {g}
          /\ work'.tags = work.tags /\ work'.rows = work.rows
      BY <1>4 DEF SharedInv, SharedShape
    <2>2. SharedShape' /\ TagsSeen'
      BY <1>1, <2>1 DEF SharedInv, SharedShape, TagsSeen
    <2>3. Captured'
      BY <1>1, <1>2, <1>4, <2>1 DEF SharedInv, Captured
    <2>4. ASSUME NEW t \in DOMAIN work.rows PROVE FactsTrue(t)'
      <3>1. FactsTrue(t) /\ TargetOf(t)' = TargetOf(t)
        BY <1>1 DEF SharedInv, TargetOf
      <3>2. QED
        BY <1>1, <2>1, <3>1 DEF FactsTrue
    <2>5. QED
      BY <2>1, <2>2, <2>3, <2>4 DEF SharedInv
  <1>5. CASE /\ ~(base \in DOMAIN work.tags /\ work.tags[base] # tags)
             /\ work' = [groups |-> work.groups \ {g}, tags |-> known, rows |-> rows] /\ step' = step
    <2>1. /\ DOMAIN known = DOMAIN work.tags \cup {base} /\ known[base] = tags
          /\ \A b \in DOMAIN work.tags : known[b] = work.tags[b]
      BY <1>5
    <2>2. ASSUME NEW t \in members
          PROVE  /\ t \in Trees /\ Listed[t].head = g.head
                 /\ g.oid = proof.opening.refs[TargetOf(t)] /\ g.oid = targets.integration[TargetOf(t)]
      BY <1>2 DEF Members, Operand, Candidates
    <2>3. /\ DOMAIN rows = DOMAIN work.rows \cup members
          /\ \A t \in members : rows[t] = facts
          /\ \A t \in DOMAIN work.rows \ members : rows[t] = work.rows[t]
      OBVIOUS
    <2>4. /\ facts.base = base /\ facts.tags = tags /\ facts.ahead = Beyond(g.head, g.oid)
          /\ facts.behind = Beyond(g.oid, g.head) /\ facts.distance = Beyond(g.oid, base)
      OBVIOUS
    <2>5. /\ DOMAIN work' = {"groups", "tags", "rows"} /\ work'.groups = work.groups \ {g}
          /\ work'.tags = known /\ work'.rows = rows
      BY <1>5
    <2> HIDE DEF rows, facts, known, members
    <2>6. SharedShape'
      BY <1>1, <2>5 DEF SharedInv, SharedShape
    <2>7. Captured'
      BY <1>1, <1>2, <1>5, <2>5 DEF SharedInv, Captured
    <2>8. TagsSeen'
      <3>1. ASSUME changes = 0, NEW b \in DOMAIN known
            PROVE  repo.tags = proof.opening.tags /\ known[b] = proof.opening.tags[b]
        BY <1>2, <2>1, <3>1 DEF SharedInv, TagsSeen
      <3>2. ASSUME changes <= 1, NEW b \in DOMAIN known
            PROVE  known[b] \in {proof.opening.tags[b], repo.tags[b]}
        BY <1>2, <2>1, <3>2 DEF SharedInv, TagsSeen
      <3>3. changes = 0 => repo.tags = proof.opening.tags
        BY <1>2 DEF SharedInv, TagsSeen
      <3>4. QED
        BY <1>1, <1>2, <2>5, <3>1, <3>2, <3>3 DEF TagsSeen
    <2>9. ASSUME NEW t \in DOMAIN rows PROVE FactsTrue(t)'
      <3>1. TargetOf(t)' = TargetOf(t)
        BY <1>1 DEF TargetOf
      <3>2. CASE t \in members
        BY <1>1, <2>1, <2>2, <2>3, <2>4, <2>5, <3>1, <3>2 DEF FactsTrue
      <3>3. CASE t \notin members
        <4>1. t \in DOMAIN work.rows /\ rows[t] = work.rows[t]
          BY <2>3, <3>3
        <4>2. FactsTrue(t)
          BY <4>1 DEF SharedInv
        <4>3. QED
          BY <1>1, <2>1, <2>5, <3>1, <4>1, <4>2 DEF FactsTrue
      <3>4. QED
        BY <3>2, <3>3
    <2>10. QED
      BY <2>5, <2>6, <2>7, <2>8, <2>9 DEF SharedInv
  <1>6. QED
    BY <1>3, <1>4, <1>5 DEF Observe

LEMMA RowStepSharesNothing ==
    ASSUME SharedInv, NEW t \in Trees, NEW how \in Answers, RowStep(t, how)
    PROVE  SharedInv'
  <1>1. UNCHANGED <<repo, changes, targets, proof, work, step>>
    BY DEF RowStep, ReadBase, ReadTags, ReadCounts, ReadDistance
  <1>2. QED
    BY <1>1, RowsShareNothing

LEMMA SharedInductive == SharedInv /\ [RelationNext]_relationVars => SharedInv'
  <1> SUFFICES ASSUME SharedInv, [RelationNext]_relationVars PROVE SharedInv'
    OBVIOUS
  <1>1. ASSUME NEW how \in Answers, CaptureFiles(how) \/ CaptureReferences(how) \/ CaptureRemoteHead(how)
        PROVE  SharedInv'
    BY <1>1, FilesCaptured, ReferencesCaptured, RemoteCaptured
  <1>2. ASSUME NEW how \in Answers, RereadTags(how) \/ \E g \in work.groups : Observe(g, how)
        PROVE  SharedInv'
    BY <1>2, TagsReread, GroupObserved
  <1>3. QED
    BY <1>1, <1>2, RelationSteps, BeforeSharing, TagsReread, RowsShareNothing, RowStepSharesNothing, ChangeSeen

\* Facts that several worktrees share are those of the references as the closing
\* capture read them, tags included unless the repository changed twice
\* (compute and recheck in git_relationship/shared_facts.rs).
THEOREM SharedFactsAreCurrent == RelationSpec => []SharedFactsCurrent
  <1>1. SharedInv => SharedFactsCurrent
    <2> SUFFICES ASSUME SharedInv, step \in {"rows", "report"}, NEW t \in DOMAIN work.rows
                 PROVE  LET facts == work.rows[t]
                            target == proof.closing.refs[TargetOf(t)]
                        IN /\ proof.closing.refs # Absent /\ target = targets.integration[TargetOf(t)]
                           /\ facts.base = MergeBase(target, Listed[t].head)
                           /\ facts.ahead = Beyond(Listed[t].head, target) /\ facts.behind = Beyond(target, Listed[t].head)
                           /\ facts.distance = Beyond(target, facts.base)
                           /\ facts.tags = proof.closing.tags[facts.base] \/ changes > 1
      BY DEF SharedFactsCurrent
    <2>1. proof.closing = proof.opening /\ proof.closing.refs # Absent
      BY DEF SharedInv, Captured
    <2>2. FactsTrue(t) /\ changes \in Nat
      BY DEF SharedInv, SharedShape
    <2>3. changes <= 1 => \A b \in DOMAIN work.tags : work.tags[b] = proof.closing.tags[b]
      BY <2>1 DEF SharedInv, TagsSeen
    <2>4. QED
      BY <2>1, <2>2, <2>3 DEF FactsTrue
  <1>2. QED
    BY <1>1, SharedInit, SharedInductive, PTL DEF RelationSpec

---------------------------------------------------------------------------
(* Presence.  What the invariant says of the record is said of any record and *)
(* any history, because a batch projects its events one after the other.      *)

EventRecords == [id : Ids, type : EventTypes, head : 1..2, safe : BOOLEAN]

LastIn(s, types) ==
    LET found == {n \in DOMAIN s : s[n].type \in types}
    IN IF found = {} THEN Unset ELSE s[Max(found)]
SettlesIn(s) == {s[n].type : n \in DOMAIN s} \ Keeps
GapsIn(s) == {n \in DOMAIN s : s[n].type = "CaptureGap"}
Tools == {"ToolRequested", "ToolCompleted", "TurnCompleted", "SessionStopped", "waiting"}
RunningIn(s) ==
    LET tool == LastIn(s, Tools)
    IN IF tool = Unset THEN Unset
       ELSE IF tool.type \in {"ToolRequested", "waiting"} THEN tool.id ELSE Unset

\* The record is what a history says that is not empty.
Says(r, s) ==
    /\ s # <<>>
    /\ r.status = StatusOf(LastIn(s, SettlesIn(s)))
    /\ r.activity = RunningIn(s)
    /\ r.gaps = Cardinality(GapsIn(s))
    /\ r.head = s[Len(s)].head
    /\ r.lease = LeaseOf(r.status, s[Len(s)].at)
    /\ r.source = IF r.status = "waiting" THEN "host" ELSE "capture"
Faithful(r, s) == IF s = <<>> THEN r = Unset ELSE r # Unset /\ Says(r, s)

EntryOf(e, at) == [id |-> e.id, type |-> e.type, head |-> e.head, at |-> at]

---------------------------------------------------------------------------
(* Histories.                                                                 *)

LEMMA GreatestOf ==
    ASSUME NEW n \in Nat, NEW T \in SUBSET (1..n), T # {}
    PROVE  Max(T) \in T /\ \A y \in T : y <= Max(T)
  <1> DEFINE R == {ss \in Nat \X Nat : ss[1] < ss[2]}
             D == {n - x : x \in T}
  <1>1. \A x \in T : x \in Nat /\ n - x \in Nat
    OBVIOUS
  <1>2. D \in SUBSET Nat /\ D # {}
    BY <1>1
  <1>3. IsWellFoundedOn(R, Nat)
    BY NatLessThanWellFounded DEF OpToRel
  <1>4. PICK d \in D : \A y \in D : ~(<<y, d>> \in R)
    BY <1>2, <1>3, WFMin
  <1>5. PICK x \in T : d = n - x
    OBVIOUS
  <1>6. ASSUME NEW y \in T PROVE y <= x
    <2>1. n - y \in D /\ n - y \in Nat /\ d \in Nat /\ x \in Nat /\ y \in Nat
      BY <1>1, <1>2
    <2>2. CASE y <= x
      BY <2>2
    <2>3. CASE x < y
      <3>1. n - y < d
        BY <1>5, <2>1, <2>3
      <3>2. PICK c \in Nat : c = n - y
        BY <2>1
      <3>3. <<c, d>>[1] = c /\ <<c, d>>[2] = d
        OBVIOUS
      <3>4. <<c, d>> \in R
        BY <2>1, <3>1, <3>2, <3>3
      <3>5. QED
        BY <1>4, <2>1, <3>2, <3>4
    <2>4. QED
      BY <2>1, <2>2, <2>3
  <1>7. QED
    BY <1>6 DEF Max

LEMMA OneMoreEntry ==
    ASSUME NEW s \in Seq(Entries), NEW x \in Entries
    PROVE  /\ Append(s, x) \in Seq(Entries) /\ Append(s, x) # <<>>
           /\ Len(s) \in Nat /\ Len(Append(s, x)) = Len(s) + 1 /\ Append(s, x)[Len(s) + 1] = x
           /\ DOMAIN s = 1..Len(s) /\ DOMAIN Append(s, x) = 1..(Len(s) + 1)
           /\ \A n \in 1..Len(s) : Append(s, x)[n] = s[n]
  OBVIOUS

LEMMA LastOfMore ==
    ASSUME NEW s \in Seq(Entries), NEW x \in Entries, NEW types
    PROVE  LastIn(Append(s, x), types) = IF x.type \in types THEN x ELSE LastIn(s, types)
  <1> DEFINE t == Append(s, x)
             k == Len(s) + 1
             old == {n \in DOMAIN s : s[n].type \in types}
             new == {n \in DOMAIN t : t[n].type \in types}
  <1>1. /\ Len(s) \in Nat /\ DOMAIN s = 1..Len(s) /\ DOMAIN t = 1..k /\ t[k] = x
        /\ \A n \in 1..Len(s) : t[n] = s[n]
    BY OneMoreEntry
  <1>2. old \in SUBSET (1..Len(s)) /\ new \in SUBSET (1..k) /\ k \in Nat
    BY <1>1
  <1>3. CASE x.type \in types
    <2>1. k \in new
      BY <1>1, <1>3
    <2>2. Max(new) \in new /\ \A y \in new : y <= Max(new)
      BY <1>2, <2>1, GreatestOf
    <2>3. Max(new) = k
      <3>1. PICK y : y = Max(new)
        OBVIOUS
      <3>2. y \in 1..k /\ k <= y
        BY <1>2, <2>1, <2>2, <3>1
      <3>3. PICK m \in Nat : m = k
        BY <1>2
      <3>4. y \in 1..m /\ m <= y
        BY <3>2, <3>3
      <3>5. y = m
        BY <3>4
      <3>6. QED
        BY <3>1, <3>3, <3>5
    <2>4. QED
      BY <1>1, <1>3, <2>1, <2>3 DEF LastIn
  <1>4. CASE x.type \notin types
    <2>1. new = old
      BY <1>1, <1>4
    <2>2. CASE old = {}
      BY <1>4, <2>1, <2>2 DEF LastIn
    <2>3. CASE old # {}
      <3>1. Max(old) \in old
        <4>1. PICK n \in Nat : n = Len(s)
          BY <1>1
        <4>2. old \in SUBSET (1..n)
          BY <1>2, <4>1
        <4>3. QED
          BY <2>3, <4>2, GreatestOf
      <3>2. t[Max(old)] = s[Max(old)]
        BY <1>1, <1>2, <3>1
      <3>3. QED
        BY <1>4, <2>1, <2>3, <3>2 DEF LastIn
    <2>4. QED
      BY <2>2, <2>3
  <1>5. QED
    BY <1>3, <1>4

LEMMA SettledOfMore ==
    ASSUME NEW s \in Seq(Entries), NEW x \in Entries
    PROVE  LastIn(Append(s, x), SettlesIn(Append(s, x))) =
              IF x.type \in Keeps THEN LastIn(s, SettlesIn(s)) ELSE x
  <1> DEFINE t == Append(s, x)
  <1>1. /\ Len(s) \in Nat /\ DOMAIN s = 1..Len(s) /\ DOMAIN t = 1..(Len(s) + 1) /\ t[Len(s) + 1] = x
        /\ \A n \in 1..Len(s) : t[n] = s[n]
    BY OneMoreEntry
  <1>2. {t[n].type : n \in DOMAIN t} = {s[n].type : n \in DOMAIN s} \cup {x.type}
    BY <1>1
  <1>3. SettlesIn(t) = SettlesIn(s) \cup ({x.type} \ Keeps)
    BY <1>2 DEF SettlesIn
  <1>4. CASE x.type \in Keeps
    <2>1. SettlesIn(t) = SettlesIn(s) /\ x.type \notin SettlesIn(s)
      BY <1>3, <1>4 DEF SettlesIn
    <2>2. QED
      BY <1>4, <2>1, LastOfMore
  <1>5. CASE x.type \notin Keeps
    <2>1. x.type \in SettlesIn(t)
      BY <1>3, <1>5
    <2>2. QED
      BY <1>5, <2>1, LastOfMore
  <1>6. QED
    BY <1>4, <1>5

LEMMA GapsOfMore ==
    ASSUME NEW s \in Seq(Entries), NEW x \in Entries
    PROVE  /\ Cardinality(GapsIn(s)) \in Nat
           /\ Cardinality(GapsIn(Append(s, x))) =
                Cardinality(GapsIn(s)) + (IF x.type = "CaptureGap" THEN 1 ELSE 0)
  <1> DEFINE t == Append(s, x)
             k == Len(s) + 1
  <1>1. /\ Len(s) \in Nat /\ DOMAIN s = 1..Len(s) /\ DOMAIN t = 1..k /\ t[k] = x
        /\ \A n \in 1..Len(s) : t[n] = s[n]
    BY OneMoreEntry
  <1>2. PICK G : G = GapsIn(s)
    OBVIOUS
  <1>3. IsFiniteSet(1..Len(s)) /\ G \in SUBSET (1..Len(s))
    BY <1>1, <1>2, FS_Interval DEF GapsIn
  <1>4. IsFiniteSet(G)
    BY <1>3, FS_Subset
  <1>5. Cardinality(G) \in Nat
    BY <1>4, FS_CardinalityType
  <1>6. k \notin G
    BY <1>1, <1>3
  <1>7. GapsIn(t) = IF x.type = "CaptureGap" THEN G \cup {k} ELSE G
    BY <1>1, <1>2 DEF GapsIn
  <1>8. Cardinality(G \cup {k}) = Cardinality(G) + 1
    BY <1>4, <1>6, FS_AddElement
  <1>9. QED
    BY <1>2, <1>5, <1>7, <1>8

LEMMA LastTyped ==
    ASSUME NEW s \in Seq(Entries), NEW types
    PROVE  LastIn(s, types) \in Entries \cup {Unset}
  <1> DEFINE found == {n \in DOMAIN s : s[n].type \in types}
  <1>1. Len(s) \in Nat /\ found \in SUBSET (1..Len(s)) /\ \A n \in 1..Len(s) : s[n] \in Entries
    OBVIOUS
  <1>2. CASE found = {}
    BY <1>2 DEF LastIn
  <1>3. CASE found # {}
    <2>1. Max(found) \in found
      BY <1>1, <1>3, GreatestOf
    <2>2. QED
      BY <1>1, <1>3, <2>1 DEF LastIn
  <1>4. QED
    BY <1>2, <1>3

---------------------------------------------------------------------------
(* One event more.                                                            *)

\* What a projection starts from says what was before.
Before(b, s) == b \in PresenceRecords /\ IF s = <<>> THEN b = Blank ELSE Says(b, s)

LEMMA BlankTyped == Blank \in PresenceRecords /\ Valid(Blank)
  BY DEF Blank, PresenceRecords, Valid

LEMMA ProjectedTyped ==
    ASSUME NEW b \in PresenceRecords, NEW e \in EventRecords, NEW at \in Nat
    PROVE  Projected(b, e, at) \in PresenceRecords /\ (Valid(Projected(b, e, at)) <=> e.safe)
  <1>1. PICK status : status = Status(b.status, e.type)
    OBVIOUS
  <1>2. status \in {"starting", "working", "idle", "waiting", "completed"}
    BY <1>1 DEF Status, PresenceRecords, EventRecords, EventTypes, Keeps
  <1>3. /\ LeaseOf(status, at) \in Nat \cup {Unset}
        /\ status = "completed" => LeaseOf(status, at) = Unset
    BY PresenceAssumption DEF LeaseOf
  <1>4. /\ e.id \in Ids /\ e.head \in 0..2 /\ b.gaps \in Nat
        /\ b.activity \in Ids \cup {AwaitedId, Unset} /\ b.decision \in Ids \cup {Unset}
        /\ e.safe \in BOOLEAN
    BY DEF PresenceRecords, EventRecords
  <1>5. PICK lease : lease = LeaseOf(status, at)
    OBVIOUS
  <1>6. Projected(b, e, at) =
          [status |-> status, source |-> IF status = "waiting" THEN "host" ELSE "capture",
           activity |-> IF e.type = "ToolRequested" THEN e.id
                        ELSE IF e.type \in {"ToolCompleted", "TurnCompleted", "SessionStopped"} THEN Unset
                        ELSE b.activity,
           decision |-> IF e.type = "DecisionRecorded" THEN e.id ELSE b.decision,
           gaps |-> IF e.type = "CaptureGap" THEN b.gaps + 1 ELSE b.gaps,
           lease |-> lease, head |-> e.head, safe |-> e.safe]
    BY <1>1, <1>5 DEF Projected
  <1>7. QED
    BY <1>2, <1>3, <1>4, <1>5, <1>6 DEF PresenceRecords, Valid

LEMMA ProjectedSays ==
    ASSUME NEW s \in Seq(Entries), NEW b, Before(b, s), NEW e \in EventRecords, NEW at \in Nat
    PROVE  /\ EntryOf(e, at) \in Entries
           /\ Says(Projected(b, e, at), Append(s, EntryOf(e, at)))
  <1>1. PICK x : x = EntryOf(e, at)
    OBVIOUS
  <1>2. x \in Entries /\ x.id = e.id /\ x.type = e.type /\ x.head = e.head /\ x.at = at /\ x # Unset
    BY <1>1, PresenceAssumption DEF EntryOf, Entries, EventRecords
  <1>3. PICK r : r = Projected(b, e, at)
    OBVIOUS
  <1>4. /\ r.status = Status(b.status, e.type)
        /\ r.source = IF r.status = "waiting" THEN "host" ELSE "capture"
        /\ r.activity = IF e.type = "ToolRequested" THEN e.id
                        ELSE IF e.type \in {"ToolCompleted", "TurnCompleted", "SessionStopped"} THEN Unset
                        ELSE b.activity
        /\ r.gaps = IF e.type = "CaptureGap" THEN b.gaps + 1 ELSE b.gaps
        /\ r.lease = LeaseOf(r.status, at) /\ r.head = e.head
    BY <1>3 DEF Projected
  <1>5. ASSUME s = <<>>
        PROVE  LastIn(s, Tools) = Unset /\ LastIn(s, SettlesIn(s)) = Unset /\ GapsIn(s) = {}
    <2>1. DOMAIN s = {}
      BY <1>5
    <2>2. QED
      BY <2>1 DEF LastIn, GapsIn
  <1>6. /\ b.status = StatusOf(LastIn(s, SettlesIn(s))) /\ b.activity = RunningIn(s)
        /\ b.gaps = Cardinality(GapsIn(s))
    <2>1. CASE s = <<>>
      <3>1. b.status = "working" /\ b.activity = Unset /\ b.gaps = 0
        BY <2>1 DEF Before, Blank
      <3>2. StatusOf(LastIn(s, SettlesIn(s))) = "working"
        BY <1>5, <2>1 DEF StatusOf
      <3>3. RunningIn(s) = Unset
        BY <1>5, <2>1 DEF RunningIn
      <3>4. Cardinality(GapsIn(s)) = 0
        BY <1>5, <2>1, FS_EmptySet
      <3>5. QED
        BY <3>1, <3>2, <3>3, <3>4
    <2>2. CASE s # <<>>
      BY <2>2 DEF Before, Says
    <2>3. QED
      BY <2>1, <2>2
  <1>7. /\ e.type \in EventTypes /\ e.type # "waiting"
    BY DEF EventRecords, EventTypes
  <1>8. r.status = StatusOf(LastIn(Append(s, x), SettlesIn(Append(s, x))))
    <2>1. CASE e.type \in Keeps
      <3>1. LastIn(Append(s, x), SettlesIn(Append(s, x))) = LastIn(s, SettlesIn(s))
        BY <1>2, <2>1, SettledOfMore
      <3>2. Status(b.status, e.type) = b.status
        BY <2>1 DEF Status, Keeps
      <3>3. QED
        BY <1>4, <1>6, <3>1, <3>2
    <2>2. CASE e.type \notin Keeps
      <3>1. LastIn(Append(s, x), SettlesIn(Append(s, x))) = x
        BY <1>2, <2>2, SettledOfMore
      <3>2. StatusOf(x) = Status("working", e.type)
        BY <1>2, <1>7 DEF StatusOf
      <3>3. Status("working", e.type) = Status(b.status, e.type)
        BY <1>7, <2>2 DEF Status
      <3>4. QED
        BY <1>4, <3>1, <3>2, <3>3
    <2>3. QED
      BY <2>1, <2>2
  <1>9. r.activity = RunningIn(Append(s, x))
    <2>1. LastIn(Append(s, x), Tools) = IF e.type \in Tools THEN x ELSE LastIn(s, Tools)
      BY <1>2, LastOfMore
    <2>2. CASE e.type \in Tools
      <3>1. RunningIn(Append(s, x)) = IF e.type \in {"ToolRequested", "waiting"} THEN e.id ELSE Unset
        BY <1>2, <2>1, <2>2 DEF RunningIn
      <3>2. QED
        BY <1>4, <1>7, <2>2, <3>1 DEF Tools
    <2>3. CASE e.type \notin Tools
      <3>1. RunningIn(Append(s, x)) = RunningIn(s)
        BY <2>1, <2>3 DEF RunningIn
      <3>2. QED
        BY <1>4, <1>6, <2>3, <3>1 DEF Tools
    <2>4. QED
      BY <2>2, <2>3
  <1>10. r.gaps = Cardinality(GapsIn(Append(s, x)))
    BY <1>2, <1>4, <1>6, GapsOfMore
  <1>11. /\ Append(s, x) # <<>> /\ Append(s, x)[Len(Append(s, x))] = x
    BY <1>2, OneMoreEntry
  <1>12. Says(r, Append(s, x))
    BY <1>2, <1>4, <1>8, <1>9, <1>10, <1>11 DEF Says
  <1>13. QED
    BY <1>1, <1>2, <1>3, <1>12

---------------------------------------------------------------------------
(* A batch is one event or two, and its identifiers are numbered.             *)

Batch(e) ==
    /\ e \in Seq(EventRecords) /\ Len(e) \in 1..2
    /\ \A n \in 1..Len(e) : e[n].id = <<e[1].id[1], n>> /\ e[n].safe = e[1].safe
EntriesOf(e, at) == [n \in DOMAIN e |-> EntryOf(e[n], at)]
Base == IF record = Unset THEN Blank ELSE record

LEMMA BatchOf ==
    ASSUME NEW p \in Calls, NEW input \in Inputs[p], world.head \in 1..2
    PROVE  Batch(Envelopes(p, input))
  <1>0. PICK safe \in BOOLEAN : safe = Safe(input)
    BY DEF Safe
  <1>1. PICK types : types = Types(input)
    OBVIOUS
  <1>2. types = <<"ToolCompleted", "CaptureGap">> \/ \E t \in EventTypes : types = <<t>>
    <2>1. CASE input.event \in DOMAIN Recorded
      BY <1>1, <2>1 DEF Types, Recorded, EventTypes
    <2>2. CASE input.event \notin DOMAIN Recorded
      <3>1. types = HookTypes(input.event, input.writes)
        BY <1>1, <2>2 DEF Types
      <3>2. QED
        BY <3>1 DEF HookTypes, EventTypes
    <2>3. QED
      BY <2>1, <2>2
  <1>3. types \in Seq(EventTypes) /\ Len(types) \in 1..2
    <2>1. CASE types = <<"ToolCompleted", "CaptureGap">>
      BY <2>1 DEF EventTypes
    <2>2. CASE \E t \in EventTypes : types = <<t>>
      BY <2>2
    <2>3. QED
      BY <1>2, <2>1, <2>2
  <1>4. PICK e : e = Envelopes(p, input)
    OBVIOUS
  <1>5. e = [n \in 1..Len(types) |-> [id |-> <<EventId(p, input), n>>, type |-> types[n], head |-> world.head,
                                  safe |-> safe]]
    BY <1>0, <1>1, <1>3, <1>4 DEF Envelopes
  <1>6. PICK k \in 1..2 : k = Len(types)
    BY <1>3
  <1>7. ASSUME NEW n \in 1..k
        PROVE  e[n] \in EventRecords /\ e[n].id = <<EventId(p, input), n>> /\ e[n].safe = safe
    <2>1. n \in 1..2 /\ <<EventId(p, input), n>> \in Ids
      <3>1. n \in 1..2
        OBVIOUS
      <3>2. QED
        BY <3>1 DEF Ids
    <2>2. types[n] \in EventTypes
      BY <1>3, <1>6
    <2>3. e[n] = [id |-> <<EventId(p, input), n>>, type |-> types[n], head |-> world.head, safe |-> safe]
      BY <1>5, <1>6
    <2>4. QED
      BY <2>1, <2>2, <2>3 DEF EventRecords
  <1>8. e \in Seq(EventRecords) /\ Len(e) = k
    <2>1. e \in [1..k -> EventRecords]
      BY <1>5, <1>6, <1>7
    <2>2. k \in Nat
      OBVIOUS
    <2>3. QED
      BY <2>1, <2>2
  <1>9. e[1].id[1] = EventId(p, input) /\ e[1].safe = safe
    BY <1>7
  <1>10. QED
    BY <1>4, <1>7, <1>8, <1>9 DEF Batch

LEMMA ProjectsInOrder ==
    ASSUME NEW e, Batch(e), NEW at
    PROVE  ProjectRecords(e, DOMAIN e, at) =
              LET first == Projected(Base, e[1], at)
              IN IF Len(e) = 1 THEN first ELSE Projected(first, e[2], at)
  <1> DEFINE k == Len(e)
             named == DOMAIN e
             first == Projected(Base, e[1], at)
             second == Projected(first, e[2], at)
             F(f) == [n \in 0 .. k |-> IF n = 0 THEN Base
                                       ELSE IF n \in named THEN Projected(f[n - 1], e[n], at) ELSE f[n - 1]]
             g == [n \in 0 .. k |-> IF n = 0 THEN Base ELSE IF n = 1 THEN first ELSE second]
             after == CHOOSE f : f = F(f)
  <1>1. k \in 1..2 /\ named = 1..k
    BY DEF Batch
  <1> HIDE DEF first, second
  <1>2. g = F(g)
    <2>1. ASSUME NEW n \in 0 .. k PROVE g[n] = F(g)[n]
      <3>1. n \in 0..2 /\ 0 \in 0 .. k /\ 1 \in 0 .. k
        BY <1>1
      <3>2. CASE n = 0
        BY <3>2
      <3>3. CASE n = 1
        <4>1. g[0] = Base
          BY <3>1
        <4>2. F(g)[1] = Projected(g[0], e[1], at)
          BY <1>1, <3>1
        <4>3. QED
          BY <3>1, <3>3, <4>1, <4>2 DEF first
      <3>4. CASE n = 2
        <4>1. g[1] = first /\ g[2] = second
          BY <3>1, <3>4
        <4>2. F(g)[2] = Projected(g[1], e[2], at)
          BY <1>1, <3>1, <3>4
        <4>3. QED
          BY <3>4, <4>1, <4>2 DEF second
      <3>5. QED
        BY <3>1, <3>2, <3>3, <3>4
    <2>2. QED
      BY <2>1
  <1>3. after = F(after)
    BY <1>2
  <1>4. ProjectRecords(e, named, at) = after[k]
    BY DEF ProjectRecords, Base
  <1> HIDE DEF after
  <1>5. after[0] = Base
    BY <1>1, <1>3
  <1>6. after[1] = first
    <2>1. after[1] = Projected(after[0], e[1], at)
      BY <1>1, <1>3
    <2>2. QED
      BY <1>5, <2>1 DEF first
  <1>7. k = 2 => after[2] = second
    <2>1. SUFFICES ASSUME k = 2 PROVE after[2] = second
      OBVIOUS
    <2>2. after[2] = Projected(after[1], e[2], at)
      BY <1>1, <1>3, <2>1
    <2>3. QED
      BY <1>6, <2>2 DEF second
  <1>8. ProjectRecords(e, DOMAIN e, at) = IF k = 1 THEN first ELSE second
    BY <1>1, <1>4, <1>6, <1>7
  <1>9. QED
    BY <1>8 DEF first, second

LEMMA EntriesJoined ==
    ASSUME NEW s \in Seq(Entries), NEW e, Batch(e), NEW at \in Nat
    PROVE  /\ EntryOf(e[1], at) \in Entries
           /\ Len(e) = 1 => s \o EntriesOf(e, at) = Append(s, EntryOf(e[1], at))
           /\ Len(e) = 2 => /\ EntryOf(e[2], at) \in Entries
                            /\ s \o EntriesOf(e, at) =
                                 Append(Append(s, EntryOf(e[1], at)), EntryOf(e[2], at))
  <1>1. e \in Seq(EventRecords) /\ Len(e) \in 1..2 /\ DOMAIN e = 1..Len(e)
    BY DEF Batch
  <1>2. \A n \in 1..Len(e) : e[n] \in EventRecords /\ EntryOf(e[n], at) \in Entries
    <2>1. ASSUME NEW r \in EventRecords PROVE EntryOf(r, at) \in Entries
      BY DEF EventRecords, EntryOf, Entries
    <2>2. QED
      BY <1>1, <2>1
  <1>3. CASE Len(e) = 1
    <2>1. EntriesOf(e, at) = <<EntryOf(e[1], at)>>
      BY <1>1, <1>3 DEF EntriesOf
    <2>2. PICK x \in Entries : x = EntryOf(e[1], at)
      BY <1>2, <1>3
    <2>3. s \o <<x>> = Append(s, x)
      OBVIOUS
    <2>4. QED
      BY <1>3, <2>1, <2>2, <2>3
  <1>4. CASE Len(e) = 2
    <2>1. EntriesOf(e, at) = <<EntryOf(e[1], at), EntryOf(e[2], at)>>
      BY <1>1, <1>4 DEF EntriesOf
    <2>2. PICK x \in Entries : x = EntryOf(e[1], at)
      BY <1>2, <1>4
    <2>3. PICK y \in Entries : y = EntryOf(e[2], at)
      BY <1>2, <1>4
    <2>4. s \o <<x, y>> = Append(Append(s, x), y)
      OBVIOUS
    <2>5. QED
      BY <1>4, <2>1, <2>2, <2>3, <2>4
  <1>5. QED
    BY <1>1, <1>3, <1>4

LEMMA EntriesTyped ==
    ASSUME NEW e, Batch(e), NEW at \in Nat
    PROVE  EntriesOf(e, at) \in Seq(Entries)
  <1>1. e \in Seq(EventRecords)
    BY DEF Batch
  <1>2. ASSUME NEW n \in 1..Len(e) PROVE EntryOf(e[n], at) \in Entries
    <2>1. PICK x \in EventRecords : x = e[n]
      BY <1>1
    <2>2. QED
      BY <2>1 DEF EventRecords, EntryOf, Entries
  <1>3. PICK k \in Nat : k = Len(e)
    BY <1>1
  <1>4. EntriesOf(e, at) \in [1..k -> Entries]
    BY <1>1, <1>2, <1>3 DEF EntriesOf
  <1>5. QED
    BY <1>3, <1>4

\* A batch is projected in full: the record is valid if the identifiers are
\* taken, and says what the history with the batch says if it said what the
\* history said without.
LEMMA BatchProjected ==
    ASSUME record \in PresenceRecords \cup {Unset}, NEW e, Batch(e), NEW at \in Nat
    PROVE  LET r == ProjectRecords(e, DOMAIN e, at)
           IN /\ r \in PresenceRecords /\ (Valid(r) <=> e[1].safe) /\ r # Unset
              /\ \A s \in Seq(Entries) : Faithful(record, s) =>
                    Faithful(r, s \o EntriesOf(e, at)) /\ s \o EntriesOf(e, at) \in Seq(Entries)
  <1>1. PICK r : r = ProjectRecords(e, DOMAIN e, at)
    OBVIOUS
  <1>2. e \in Seq(EventRecords) /\ Len(e) \in 1..2
    BY DEF Batch
  <1>3. PICK b \in PresenceRecords : b = Base
    BY BlankTyped DEF Base
  <1>4. PICK first : first = Projected(b, e[1], at)
    OBVIOUS
  <1>5. e[1] \in EventRecords /\ (Len(e) = 2 => e[2] \in EventRecords /\ e[2].safe = e[1].safe)
    BY <1>2 DEF Batch
  <1>6. r = IF Len(e) = 1 THEN first ELSE Projected(first, e[2], at)
    BY <1>1, <1>3, <1>4, ProjectsInOrder
  <1>7. first \in PresenceRecords /\ (Valid(first) <=> e[1].safe)
    BY <1>4, <1>5, ProjectedTyped
  <1>8. r \in PresenceRecords /\ (Valid(r) <=> e[1].safe)
    <2>1. CASE Len(e) = 1
      BY <1>6, <1>7, <2>1
    <2>2. CASE Len(e) = 2
      BY <1>5, <1>6, <1>7, <2>2, ProjectedTyped
    <2>3. QED
      BY <1>2, <2>1, <2>2
  <1>9. r # Unset
    BY <1>8, PresenceAssumption
  <1>10. ASSUME NEW s \in Seq(Entries), Faithful(record, s)
         PROVE  Faithful(r, s \o EntriesOf(e, at)) /\ s \o EntriesOf(e, at) \in Seq(Entries)
    <2>1. Before(b, s)
      BY <1>3, <1>10 DEF Before, Base, Faithful
    <2>2. PICK x \in Entries : x = EntryOf(e[1], at)
      BY EntriesJoined
    <2>3. Says(first, Append(s, x)) /\ Append(s, x) # <<>> /\ Append(s, x) \in Seq(Entries)
      BY <1>4, <1>5, <2>1, <2>2, ProjectedSays, OneMoreEntry
    <2>4. CASE Len(e) = 1
      <3>1. s \o EntriesOf(e, at) = Append(s, x)
        BY <2>2, <2>4, EntriesJoined
      <3>2. QED
        BY <1>6, <1>9, <2>3, <2>4, <3>1 DEF Faithful
    <2>5. CASE Len(e) = 2
      <3>1. PICK y \in Entries : y = EntryOf(e[2], at)
        BY <2>5, EntriesJoined
      <3>2. s \o EntriesOf(e, at) = Append(Append(s, x), y)
        BY <2>2, <2>5, <3>1, EntriesJoined
      <3>3. PICK t \in Seq(Entries) : t = Append(s, x)
        BY <2>3
      <3>4. Before(first, t)
        BY <1>7, <2>3, <3>3 DEF Before
      <3>5. Says(r, Append(t, y)) /\ Append(t, y) # <<>> /\ Append(t, y) \in Seq(Entries)
        BY <1>5, <1>6, <2>5, <3>1, <3>4, ProjectedSays, OneMoreEntry
      <3>6. QED
        BY <1>9, <3>2, <3>3, <3>5 DEF Faithful
    <2>6. QED
      BY <1>2, <2>4, <2>5
  <1>11. QED
    BY <1>1, <1>8, <1>9, <1>10

---------------------------------------------------------------------------
(* The journal.  An identifier is in it once, and the second event of a batch *)
(* follows the first; so a batch of which one event is known is either there  *)
(* as a whole, or will never be.                                              *)

Pcs == {"new", "sent", "accepted", "done", "refused"}
CallRecords == [pc : Pcs, events : Seq(EventRecords), received : Nat]

PresenceTypes ==
    /\ backend \in {"file", "sql"} /\ journal \in Seq(EventRecords) /\ covered \in Nat
    /\ record \in PresenceRecords \cup {Unset} /\ guard \in Calls \cup {Unset}
    /\ call \in [Calls -> CallRecords]
    /\ world \in [now : Nat, head : 1..2, session : {"plain", "odd"}] /\ trace \in Seq(Entries) /\ faults \in Nat
    /\ exact \in BOOLEAN
    /\ \A p \in Calls : IF call[p].pc = "new" THEN call[p].events = <<>> ELSE Batch(call[p].events)

Single == \A m, n \in 1..Len(journal) : journal[m].id = journal[n].id => m = n
Numbered == \A m \in 1..Len(journal) : \E x :
    \/ journal[m].id = <<x, 1>>
    \/ journal[m].id = <<x, 2>> /\ m > 1 /\ journal[m - 1].id = <<x, 1>>
Other(e) == ~InJournal(e) /\ \E i \in DOMAIN e : Known(e[i]) # {}
\* What the projection does not take the database does not accept.
Unfit(e) == backend = "sql" /\ \E i \in DOMAIN e : ~e[i].safe
Fit == backend = "sql" => \A n \in 1..Len(journal) : journal[n].safe

LEMMA InJournalIs ==
    ASSUME NEW e, Batch(e), journal \in Seq(EventRecords)
    PROVE  InJournal(e) <=> \E n \in Nat : /\ n + Len(e) <= Len(journal)
                                           /\ \A i \in 1..Len(e) : journal[n + i] = e[i]
  <1>1. Len(e) \in 1..2 /\ DOMAIN e = 1..Len(e) /\ Len(journal) \in Nat
    BY DEF Batch
  <1>2. PICK l \in 1..2, k \in Nat : l = Len(e) /\ k = Len(journal)
    BY <1>1
  <1>3. ASSUME InJournal(e)
        PROVE  \E n \in Nat : n + Len(e) <= Len(journal) /\ \A i \in 1..Len(e) : journal[n + i] = e[i]
    <2>1. PICK n \in 0 .. k - l : \A i \in 1..l : journal[n + i] = e[i]
      BY <1>1, <1>2, <1>3 DEF InJournal
    <2>2. n \in Nat /\ n + l <= k
      BY <2>1
    <2>3. QED
      BY <1>2, <2>1, <2>2
  <1>4. ASSUME NEW n \in Nat, n + Len(e) <= Len(journal), \A i \in 1..Len(e) : journal[n + i] = e[i]
        PROVE  InJournal(e)
    <2>1. n \in 0 .. k - l
      BY <1>2, <1>4
    <2>2. QED
      BY <1>1, <1>2, <1>4, <2>1 DEF InJournal
  <1>5. QED
    BY <1>3, <1>4

LEMMA FreshAccepted ==
    ASSUME journal \in Seq(EventRecords), Single, Numbered, NEW e, Batch(e), Fresh(e),
           journal' = journal \o e
    PROVE  /\ journal' \in Seq(EventRecords) /\ Single' /\ Numbered' /\ InJournal(e)'
           /\ \A f : Batch(f) => (InJournal(f) => InJournal(f)') /\ (Other(f) => Other(f)')
  <1>1. /\ e \in Seq(EventRecords) /\ Len(e) \in 1..2 /\ DOMAIN e = 1..Len(e)
        /\ \A i \in 1..Len(e) : e[i].id = <<e[1].id[1], i>>
    BY DEF Batch
  <1>2. PICK k \in Nat : k = Len(journal)
    OBVIOUS
  <1>3. PICK l \in 1..2 : l = Len(e)
    BY <1>1
  <1>4. /\ journal' \in Seq(EventRecords) /\ Len(journal') = k + l
        /\ \A n \in 1..k : journal'[n] = journal[n]
        /\ \A i \in 1..l : journal'[k + i] = e[i]
    BY <1>1, <1>2, <1>3
  <1>5. ASSUME NEW i \in 1..l, NEW n \in 1..k PROVE journal[n].id # e[i].id
    <2>1. Known(e[i]) = {}
      BY <1>1, <1>3 DEF Fresh
    <2>2. n \in DOMAIN journal
      BY <1>2
    <2>3. QED
      BY <2>1, <2>2 DEF Known
  <1>6. \A m \in 1..(k + l) : m \in 1..k \/ \E i \in 1..l : m = k + i
    <2>1. ASSUME NEW m \in 1..(k + l), m \notin 1..k PROVE m - k \in 1..l /\ m = k + (m - k)
      BY <2>1
    <2>2. QED
      BY <2>1
  <1>7. Single'
    <2>1. ASSUME NEW m \in 1..(k + l), NEW n \in 1..(k + l), journal'[m].id = journal'[n].id PROVE m = n
      <3>1. CASE m \in 1..k /\ n \in 1..k
        BY <1>2, <1>4, <2>1, <3>1 DEF Single
      <3>2. CASE m \in 1..k /\ n \notin 1..k
        <4>1. PICK j \in 1..l : n = k + j
          BY <1>6, <3>2
        <4>2. journal'[m] = journal[m] /\ journal'[n] = e[j]
          BY <1>4, <3>2, <4>1
        <4>3. QED
          BY <1>5, <2>1, <3>2, <4>2
      <3>3. CASE m \notin 1..k /\ n \in 1..k
        <4>1. PICK j \in 1..l : m = k + j
          BY <1>6, <3>3
        <4>2. journal'[n] = journal[n] /\ journal'[m] = e[j]
          BY <1>4, <3>3, <4>1
        <4>3. QED
          BY <1>5, <2>1, <3>3, <4>2
      <3>4. CASE m \notin 1..k /\ n \notin 1..k
        <4>1. PICK i \in 1..l : m = k + i
          BY <1>6, <3>4
        <4>2. PICK j \in 1..l : n = k + j
          BY <1>6, <3>4
        <4>3. <<e[1].id[1], i>> = <<e[1].id[1], j>>
          BY <1>1, <1>3, <1>4, <2>1, <4>1, <4>2
        <4>4. i = j
          BY <4>3
        <4>5. QED
          BY <4>1, <4>2, <4>4
      <3>5. QED
        BY <3>1, <3>2, <3>3, <3>4
    <2>2. QED
      BY <1>4, <2>1 DEF Single
  <1>8. Numbered'
    <2>1. ASSUME NEW m \in 1..(k + l)
          PROVE  \E x : \/ journal'[m].id = <<x, 1>>
                        \/ journal'[m].id = <<x, 2>> /\ m > 1 /\ journal'[m - 1].id = <<x, 1>>
      <3>1. CASE m \in 1..k
        <4>1. PICK x : \/ journal[m].id = <<x, 1>>
                       \/ journal[m].id = <<x, 2>> /\ m > 1 /\ journal[m - 1].id = <<x, 1>>
          BY <1>2, <3>1 DEF Numbered
        <4>2. journal'[m] = journal[m] /\ (m > 1 => journal'[m - 1] = journal[m - 1])
          <5>1. m > 1 => m - 1 \in 1..k
            BY <3>1
          <5>2. QED
            BY <1>4, <3>1, <5>1
        <4>3. QED
          BY <4>1, <4>2
      <3>2. CASE m = k + 1
        <4>1. journal'[m].id = <<e[1].id[1], 1>>
          BY <1>1, <1>3, <1>4, <3>2
        <4>2. QED
          BY <4>1
      <3>3. CASE m = k + 2 /\ l = 2
        <4>1. journal'[m].id = <<e[1].id[1], 2>>
          BY <1>1, <1>3, <1>4, <3>3
        <4>2. m - 1 = k + 1 /\ m > 1
          BY <3>3
        <4>3. journal'[m - 1].id = <<e[1].id[1], 1>>
          BY <1>1, <1>3, <1>4, <4>2
        <4>4. QED
          BY <4>1, <4>2, <4>3
      <3>4. ASSUME NEW i \in 1..l, m = k + i PROVE m = k + 1 \/ (m = k + 2 /\ l = 2)
        BY <3>4
      <3>5. QED
        BY <1>6, <3>1, <3>2, <3>3, <3>4
    <2>2. QED
      BY <1>4, <2>1 DEF Numbered
  <1>9. InJournal(e)'
    <2>1. k \in 0 .. (k + l) - l
      OBVIOUS
    <2>2. \A i \in DOMAIN e : journal'[k + i] = e[i]
      BY <1>1, <1>3, <1>4
    <2>3. QED
      BY <1>3, <1>4, <2>1, <2>2 DEF InJournal
  <1>10. ASSUME NEW f, Batch(f), InJournal(f) PROVE InJournal(f)'
    <2>1. PICK n \in Nat : n + Len(f) <= k /\ \A i \in 1..Len(f) : journal[n + i] = f[i]
      BY <1>2, <1>10, InJournalIs
    <2>2. Len(f) \in 1..2 /\ DOMAIN f = 1..Len(f)
      BY <1>10 DEF Batch
    <2>3. \A i \in 1..Len(f) : n + i \in 1..k
      BY <2>1, <2>2
    <2>4. n \in 0 .. Len(journal') - Len(f)
      BY <1>4, <2>1, <2>2
    <2>5. \A i \in DOMAIN f : journal'[n + i] = f[i]
      BY <1>4, <2>1, <2>2, <2>3
    <2>6. QED
      BY <2>4, <2>5 DEF InJournal
  <1>11. ASSUME NEW f, Batch(f), Other(f) PROVE Other(f)'
    <2>1. Len(f) \in 1..2 /\ DOMAIN f = 1..Len(f) /\ \A i \in 1..Len(f) : f[i].id = <<f[1].id[1], i>>
      BY <1>11 DEF Batch
    <2>2. PICK i \in 1..Len(f), m \in 1..k : journal[m].id = f[i].id
      BY <1>2, <1>11, <2>1 DEF Other, Known
    <2>3. PICK first \in 1..k : journal[first].id = f[1].id
      <3>1. i \in 1..2 /\ f[i].id = <<f[1].id[1], i>> /\ f[1].id = <<f[1].id[1], 1>>
        BY <2>1
      <3>2. PICK x : \/ journal[m].id = <<x, 1>>
                     \/ journal[m].id = <<x, 2>> /\ m > 1 /\ journal[m - 1].id = <<x, 1>>
        BY <1>2 DEF Numbered
      <3>3. CASE i = 1
        BY <2>2, <3>3
      <3>4. CASE i = 2
        <4>1. journal[m].id = <<f[1].id[1], 2>>
          BY <2>2, <3>1, <3>4
        <4>2. m > 1 /\ journal[m - 1].id = <<x, 1>> /\ x = f[1].id[1]
          BY <3>2, <4>1
        <4>3. m - 1 \in 1..k
          BY <4>2
        <4>4. QED
          BY <3>1, <4>2, <4>3
      <3>5. QED
        BY <3>1, <3>3, <3>4
    <2>4. ASSUME InJournal(f)' PROVE FALSE
      <3>1. PICK h \in 1..2 : h = Len(f)
        BY <2>1
      <3>2. PICK n \in 0 .. (k + l) - h : \A j \in 1..h : journal'[n + j] = f[j]
        <4>1. \E n \in 0 .. Len(journal') - Len(f) : \A j \in DOMAIN f : journal'[n + j] = f[j]
          BY <2>4 DEF InJournal
        <4>2. Len(journal') = k + l /\ Len(f) = h /\ DOMAIN f = 1..h
          BY <1>4, <2>1, <3>1
        <4>3. QED
          BY <4>1, <4>2
      <3>3. n \in Nat /\ n + h <= k + l
        BY <3>2
      <3>4. n + 1 = first
        <4>1. 1 \in 1..h /\ n + 1 \in 1..(k + l) /\ first \in 1..(k + l)
          BY <3>3
        <4>2. journal'[n + 1] = f[1] /\ journal'[first] = journal[first]
          BY <1>4, <3>2, <4>1
        <4>3. journal'[n + 1].id = journal'[first].id
          BY <2>3, <4>2
        <4>4. PICK m1 \in 1..(k + l) : m1 = n + 1
          BY <4>1
        <4>5. m1 = first
          BY <1>4, <1>7, <4>1, <4>3, <4>4 DEF Single
        <4>6. QED
          BY <4>4, <4>5
      <3>5. CASE n + h <= k
        <4>1. \A j \in 1..h : n + j \in 1..k
          BY <3>3, <3>5
        <4>2. \A j \in 1..h : journal[n + j] = f[j]
          BY <1>4, <3>2, <4>1
        <4>3. InJournal(f)
          BY <1>2, <1>11, <3>1, <3>3, <3>5, <4>2, InJournalIs
        <4>4. QED
          BY <1>11, <4>3 DEF Other
      <3>6. CASE n + h > k
        <4>1. h = 2 /\ n + 2 = k + 1
          BY <3>3, <3>4, <3>6
        <4>2. journal'[k + 1] = f[2]
          BY <3>2, <4>1
        <4>3. journal'[k + 1] = e[1]
          BY <1>4
        <4>4. f[2].id = <<f[1].id[1], 2>>
          BY <2>1, <3>1, <4>1
        <4>5. e[1].id = <<e[1].id[1], 1>>
          BY <1>1
        <4>6. <<f[1].id[1], 2>> = <<e[1].id[1], 1>>
          BY <4>2, <4>3, <4>4, <4>5
        <4>7. QED
          BY <4>6
      <3>7. QED
        BY <3>3, <3>5, <3>6
    <2>5. Known(f[i])' # {}
      <3>1. m \in DOMAIN journal' /\ journal'[m].id = f[i].id
        BY <1>4, <2>2
      <3>2. QED
        BY <3>1 DEF Known
    <2>6. QED
      BY <2>1, <2>4, <2>5 DEF Other
  <1>12. QED
    BY <1>4, <1>7, <1>8, <1>9, <1>10, <1>11

LEMMA RepeatedAccepted ==
    ASSUME journal \in Seq(EventRecords), Single, Numbered, NEW e, Batch(e), Repeated(e), Equivalent(e)
    PROVE  InJournal(e)
  <1>1. /\ e \in Seq(EventRecords) /\ Len(e) \in 1..2 /\ DOMAIN e = 1..Len(e)
        /\ \A i \in 1..Len(e) : e[i].id = <<e[1].id[1], i>>
    BY DEF Batch
  <1>2. \A i \in 1..Len(e) : \E m \in 1..Len(journal) : journal[m] = e[i]
    BY <1>1 DEF Equivalent, Known
  <1>3. PICK m \in 1..Len(journal) : journal[m] = e[1]
    BY <1>1, <1>2
  <1>4. PICK n \in Nat : n = m - 1
    OBVIOUS
  <1>5. n + 1 = m /\ Len(journal) \in Nat
    BY <1>4
  <1>6. CASE Len(e) = 1
    <2>1. n + Len(e) <= Len(journal) /\ \A i \in 1..Len(e) : journal[n + i] = e[i]
      BY <1>3, <1>5, <1>6
    <2>2. QED
      BY <2>1, InJournalIs
  <1>7. CASE Len(e) = 2
    <2>1. PICK o \in 1..Len(journal) : journal[o] = e[2]
      BY <1>2, <1>7
    <2>2. PICK x : \/ journal[o].id = <<x, 1>>
                   \/ journal[o].id = <<x, 2>> /\ o > 1 /\ journal[o - 1].id = <<x, 1>>
      BY DEF Numbered
    <2>3. e[2].id = <<e[1].id[1], 2>> /\ e[1].id = <<e[1].id[1], 1>>
      BY <1>1, <1>7
    <2>4. o > 1 /\ journal[o - 1].id = journal[m].id
      BY <1>3, <2>1, <2>2, <2>3
    <2>5. o - 1 \in 1..Len(journal)
      BY <1>5, <2>4
    <2>6. o - 1 = m
      BY <2>4, <2>5 DEF Single
    <2>7. n + Len(e) <= Len(journal) /\ \A i \in 1..Len(e) : journal[n + i] = e[i]
      BY <1>3, <1>5, <1>7, <2>1, <2>6
    <2>8. QED
      BY <2>7, InJournalIs
  <1>8. QED
    BY <1>1, <1>6, <1>7

LEMMA RefusedIsOther ==
    ASSUME journal \in Seq(EventRecords), NEW e, Batch(e), ~Accepts(e)
    PROVE  Other(e)
  <1>1. DOMAIN e = 1..Len(e) /\ Len(e) \in 1..2
    BY DEF Batch
  <1>2. \E i \in DOMAIN e : Known(e[i]) # {}
    BY DEF Accepts, Fresh
  <1>3. ASSUME InJournal(e) PROVE FALSE
    <2>1. PICK n \in Nat : n + Len(e) <= Len(journal) /\ \A i \in 1..Len(e) : journal[n + i] = e[i]
      BY <1>3, InJournalIs
    <2>2. ASSUME NEW i \in 1..Len(e) PROVE n + i \in Known(e[i]) /\ journal[n + i] = e[i]
      <3>1. n + i \in DOMAIN journal
        BY <1>1, <2>1
      <3>2. QED
        BY <2>1, <3>1 DEF Known
    <2>3. Repeated(e) /\ Equivalent(e)
      BY <1>1, <2>2 DEF Repeated, Equivalent
    <2>4. QED
      BY <2>3 DEF Accepts
  <1>4. QED
    BY <1>2, <1>3 DEF Other

---------------------------------------------------------------------------
(* The invariant.                                                             *)

Guarded ==
    /\ \A p \in Calls : call[p].pc = "accepted" => backend = "file" /\ guard = p
    /\ guard # Unset => call[guard].pc = "accepted"
CallAnswers == \A p \in Calls :
    /\ call[p].pc \in {"accepted", "done"} => InJournal(call[p].events)
    /\ call[p].pc = "refused" => Other(call[p].events) \/ Unfit(call[p].events)
Recording ==
    /\ record # Unset => Valid(record)
    /\ backend = "sql" => covered = Len(journal) /\ Faithful(record, trace) /\ (journal # <<>> => record # Unset)
\* The file backend's record is behind by the batch of the call that holds the guard.
Pending ==
    IF guard = Unset THEN Faithful(record, trace)
    ELSE \E s \in Seq(Entries) : /\ Faithful(record, s)
                                 /\ trace = s \o EntriesOf(call[guard].events, call[guard].received)
Projecting == backend = "file" /\ exact => Pending

PresenceInv ==
    PresenceTypes /\ Single /\ Numbered /\ Guarded /\ CallAnswers /\ Fit /\ Recording /\ Projecting

Stable == \A f : Batch(f) => (InJournal(f) => InJournal(f)') /\ (Other(f) => Other(f)')

LEMMA SameJournal ==
    ASSUME journal' = journal
    PROVE  Stable /\ (Single => Single') /\ (Numbered => Numbered')
  BY DEF Stable, InJournal, Other, Known, Single, Numbered

LEMMA AnswerKept ==
    ASSUME PresenceTypes, CallAnswers, Stable, backend' = backend, NEW p \in Calls, call'[p] = call[p]
    PROVE  /\ call'[p].pc \in {"accepted", "done"} => InJournal(call[p].events)'
           /\ call'[p].pc = "refused" => Other(call[p].events)' \/ Unfit(call[p].events)'
  <1>1. PICK e : e = call[p].events
    OBVIOUS
  <1>2. call'[p].events = e
    BY <1>1
  <1>3. call[p].pc # "new" => Batch(e)
    BY <1>1 DEF PresenceTypes
  <1>4. ASSUME call[p].pc \in {"accepted", "done"} PROVE InJournal(call[p].events)'
    <2>1. InJournal(e) /\ Batch(e)
      BY <1>1, <1>3, <1>4 DEF CallAnswers
    <2>2. InJournal(e)'
      BY <2>1 DEF Stable
    <2>3. QED
      BY <1>2, <2>2 DEF InJournal
  <1>5. ASSUME call[p].pc = "refused" PROVE Other(call[p].events)' \/ Unfit(call[p].events)'
    <2>1. CASE Other(e)
      <3>1. Other(e)'
        BY <1>3, <1>5, <2>1 DEF Stable
      <3>2. QED
        BY <1>2, <3>1 DEF Other, InJournal, Known
    <2>2. CASE Unfit(e)
      BY <1>2, <2>2 DEF Unfit
    <2>3. QED
      BY <1>1, <1>5, <2>1, <2>2 DEF CallAnswers
  <1>6. QED
    BY <1>4, <1>5

\* A call goes on to another place, with the batch it had.
LEMMA EndsIs ==
    ASSUME PresenceTypes, NEW p \in Calls, NEW pc \in Pcs \ {"new"}, call[p].pc # "new", Ends(p, pc)
    PROVE  /\ call' \in [Calls -> CallRecords] /\ call'[p].pc = pc /\ call'[p].events = call[p].events
           /\ call'[p].received = call[p].received /\ \A q \in Calls : q # p => call'[q] = call[q]
           /\ \A q \in Calls : IF call'[q].pc = "new" THEN call'[q].events = <<>> ELSE Batch(call'[q].events)
  <1>1. call \in [Calls -> CallRecords] /\ call' = [call EXCEPT ![p].pc = pc]
    BY DEF PresenceTypes, Ends
  <1>2. call[p] \in CallRecords
    BY <1>1
  <1>3. /\ call'[p] = [call[p] EXCEPT !.pc = pc] /\ \A q \in Calls : q # p => call'[q] = call[q]
        /\ DOMAIN call' = Calls
    BY <1>1
  <1>4. PICK c \in CallRecords : c = call[p]
    BY <1>2
  <1>5. /\ call'[p] \in CallRecords /\ call'[p].pc = pc /\ call'[p].events = call[p].events
        /\ call'[p].received = call[p].received
    BY <1>3, <1>4 DEF CallRecords
  <1>6. call' \in [Calls -> CallRecords]
    BY <1>1, <1>3, <1>5
  <1>7. \A q \in Calls : IF call'[q].pc = "new" THEN call'[q].events = <<>> ELSE Batch(call'[q].events)
    <2>1. Batch(call[p].events)
      BY DEF PresenceTypes
    <2>2. ASSUME NEW q \in Calls, q # p
          PROVE  IF call'[q].pc = "new" THEN call'[q].events = <<>> ELSE Batch(call'[q].events)
      BY <1>3, <2>2 DEF PresenceTypes
    <2>3. QED
      BY <1>5, <2>1, <2>2
  <1>8. QED
    BY <1>3, <1>5, <1>6, <1>7

\* What the cursor leaves to project: all of a batch that is new, nothing of one
\* that is known.
LEMMA UncoveredOf ==
    ASSUME journal \in Seq(EventRecords), covered = Len(journal), NEW e, Batch(e)
    PROVE  /\ Fresh(e) => Uncovered(e) = DOMAIN e /\ Uncovered(e) # {}
           /\ Repeated(e) => Uncovered(e) = {}
  <1>1. DOMAIN e = 1..Len(e) /\ Len(e) \in 1..2
    BY DEF Batch
  <1>2. ASSUME Fresh(e) PROVE Uncovered(e) = DOMAIN e /\ Uncovered(e) # {}
    <2>1. Uncovered(e) = DOMAIN e
      BY <1>2 DEF Fresh, Uncovered
    <2>2. 1 \in DOMAIN e
      BY <1>1
    <2>3. QED
      BY <2>1, <2>2
  <1>3. ASSUME Repeated(e), NEW n \in DOMAIN e PROVE ~(\A k \in Known(e[n]) : k > covered)
    <2>1. PICK k \in Known(e[n]) : TRUE
      BY <1>3 DEF Repeated
    <2>2. k \in 1..Len(journal) /\ Len(journal) \in Nat
      BY DEF Known
    <2>3. ~(k > covered)
      BY <2>2
    <2>4. QED
      BY <2>3
  <1>4. QED
    BY <1>2, <1>3 DEF Uncovered

LEMMA NotedIs ==
    ASSUME NEW p \in Calls
    PROVE  Noted(p) = IF Fresh(call[p].events) THEN trace \o EntriesOf(call[p].events, call[p].received) ELSE trace
  BY DEF Noted, EntriesOf, EntryOf

\* What an acceptance leaves in the journal.
LEMMA AcceptanceIs ==
    ASSUME PresenceInv, NEW e, Batch(e), Accepts(e), journal' = Accepted(e)
    PROVE  /\ journal' \in Seq(EventRecords) /\ Single' /\ Numbered' /\ InJournal(e)' /\ Stable
           /\ Fresh(e) => journal' = journal \o e
           /\ ~Fresh(e) => journal' = journal /\ Repeated(e)
  <1>1. journal \in Seq(EventRecords) /\ Single /\ Numbered
    BY DEF PresenceInv, PresenceTypes
  <1>2. CASE Fresh(e)
    <2>1. journal' = journal \o e
      BY <1>2 DEF Accepted
    <2>2. QED
      BY <1>1, <1>2, <2>1, FreshAccepted DEF Stable
  <1>3. CASE ~Fresh(e)
    <2>1. journal' = journal /\ Repeated(e) /\ Equivalent(e)
      BY <1>3 DEF Accepted, Accepts
    <2>2. InJournal(e)
      BY <1>1, <2>1, RepeatedAccepted
    <2>3. QED
      BY <1>1, <1>3, <2>1, <2>2, SameJournal DEF InJournal
  <1>4. QED
    BY <1>2, <1>3

---------------------------------------------------------------------------
(* The steps.                                                                 *)

LEMMA InitialPresence == ASSUME PresenceInit PROVE PresenceInv
  <1>1. PresenceTypes
    BY PresenceAssumption DEF PresenceInit, PresenceTypes, CallRecords, Pcs
  <1>2. Len(journal) = 0 /\ 1..0 = {}
    BY DEF PresenceInit
  <1>3. Single /\ Numbered /\ Guarded /\ CallAnswers /\ Fit
    BY <1>2 DEF PresenceInit, Single, Numbered, Guarded, CallAnswers, Fit
  <1>4. Recording /\ Projecting
    BY <1>2 DEF PresenceInit, Recording, Projecting, Pending, Faithful
  <1>5. QED
    BY <1>1, <1>3, <1>4 DEF PresenceInv

LEMMA PrepareKeeps ==
    ASSUME PresenceInv, NEW p \in Calls, NEW input \in Inputs[p], Prepare(p, input)
    PROVE  PresenceInv'
  <1>1. PresenceTypes /\ Guarded /\ CallAnswers /\ Fit
    BY DEF PresenceInv
  <1>2. /\ call[p].pc = "new"
        /\ journal' = journal /\ record' = record /\ guard' = guard /\ trace' = trace /\ faults' = faults
        /\ exact' = exact
        /\ backend' = backend /\ covered' = covered /\ world' = world
    BY DEF Prepare
  <1>3. PICK e : e = Envelopes(p, input)
    OBVIOUS
  <1>4. world.now \in Nat /\ world.head \in 1..2
    BY <1>1 DEF PresenceTypes
  <1>5. Batch(e)
    BY <1>3, <1>4, BatchOf
  <1>6. PICK c : c = [pc |-> "sent", received |-> world.now, events |-> e]
    OBVIOUS
  <1>7. c \in CallRecords /\ c.pc = "sent" /\ c.events = e
    BY <1>4, <1>5, <1>6 DEF CallRecords, Pcs, Batch
  <1>8. call' = [call EXCEPT ![p] = c]
    BY <1>3, <1>6 DEF Prepare
  <1>9. /\ call' \in [Calls -> CallRecords] /\ call'[p] = c /\ \A q \in Calls : q # p => call'[q] = call[q]
    BY <1>1, <1>7, <1>8 DEF PresenceTypes
  <1>10. Stable /\ Single' /\ Numbered'
    BY <1>2, SameJournal DEF PresenceInv
  <1>11. PresenceTypes'
    <2>1. \A q \in Calls : IF call'[q].pc = "new" THEN call'[q].events = <<>> ELSE Batch(call'[q].events)
      BY <1>1, <1>5, <1>7, <1>9 DEF PresenceTypes
    <2>2. QED
      BY <1>1, <1>2, <1>9, <2>1 DEF PresenceTypes
  <1>12. Guarded'
    <2>1. guard # p
      BY <1>1, <1>2, PresenceAssumption DEF Guarded
    <2>2. guard # Unset => guard \in Calls
      BY <1>1 DEF PresenceTypes
    <2>3. QED
      BY <1>1, <1>2, <1>7, <1>9, <2>1, <2>2 DEF Guarded
  <1>13. CallAnswers'
    <2>1. ASSUME NEW q \in Calls, q # p
          PROVE  /\ call'[q].pc \in {"accepted", "done"} => InJournal(call[q].events)'
                 /\ call'[q].pc = "refused" => Other(call[q].events)' \/ Unfit(call[q].events)'
      BY <1>1, <1>2, <1>9, <1>10, <2>1, AnswerKept
    <2>2. QED
      BY <1>7, <1>9, <2>1 DEF CallAnswers
  <1>14. Fit'
    BY <1>1, <1>2 DEF Fit
  <1>15. Recording'
    BY <1>2 DEF PresenceInv, Recording
  <1>16. Projecting'
    <2>1. ASSUME backend = "file" /\ exact PROVE Pending'
      <3>1. Pending
        BY <2>1 DEF PresenceInv, Projecting
      <3>2. CASE guard = Unset
        BY <1>2, <3>1, <3>2 DEF Pending
      <3>3. CASE guard # Unset
        <4>1. guard \in Calls /\ guard # p
          BY <1>1, <1>2, <3>3 DEF PresenceTypes, Guarded
        <4>2. call'[guard] = call[guard]
          BY <1>9, <4>1
        <4>3. QED
          BY <1>2, <3>1, <3>3, <4>2 DEF Pending
      <3>4. QED
        BY <3>2, <3>3
    <2>2. QED
      BY <1>2, <2>1 DEF Projecting
  <1>17. QED
    BY <1>10, <1>11, <1>12, <1>13, <1>14, <1>15, <1>16 DEF PresenceInv

LEMMA AnswersAfter ==
    ASSUME PresenceTypes, CallAnswers, Stable, backend' = backend, NEW p \in Calls,
           \A q \in Calls : q # p => call'[q] = call[q], call'[p].events = call[p].events,
           call'[p].pc \in {"accepted", "done"} => InJournal(call[p].events)',
           call'[p].pc = "refused" => Other(call[p].events)' \/ Unfit(call[p].events)'
    PROVE  CallAnswers'
  <1>1. ASSUME NEW q \in Calls, q # p
        PROVE  /\ call'[q].pc \in {"accepted", "done"} => InJournal(call[q].events)'
               /\ call'[q].pc = "refused" => Other(call[q].events)' \/ Unfit(call[q].events)'
    BY <1>1, AnswerKept
  <1>2. QED
    BY <1>1 DEF CallAnswers

\* What the database accepts beside a fit journal, is fit.
LEMMA FitAfter ==
    ASSUME PresenceInv, backend' = backend, NEW e, Batch(e), Fresh(e) => e[1].safe,
           Fresh(e) => journal' = journal \o e, ~Fresh(e) => journal' = journal
    PROVE  Fit'
  <1>1. journal \in Seq(EventRecords) /\ e \in Seq(EventRecords) /\ Len(e) \in 1..2 /\ Fit
    BY DEF PresenceInv, PresenceTypes, Batch
  <1>2. CASE Fresh(e)
    <2>1. SUFFICES ASSUME backend = "sql", NEW n \in 1..Len(journal') PROVE journal'[n].safe
      BY DEF Fit
    <2>2. PICK k \in Nat, l \in 1..2 : k = Len(journal) /\ l = Len(e)
      BY <1>1
    <2>3. Len(journal') = k + l
      BY <1>1, <1>2, <2>2
    <2>4. CASE n \in 1..k
      <3>1. journal'[n] = journal[n]
        BY <1>1, <1>2, <2>2, <2>4
      <3>2. QED
        BY <1>1, <2>1, <2>2, <2>4, <3>1 DEF Fit
    <2>5. CASE n \notin 1..k
      <3>1. n - k \in 1..l /\ journal'[n] = e[n - k]
        BY <1>1, <1>2, <2>2, <2>3, <2>5
      <3>2. e[n - k].safe = e[1].safe
        BY <2>2, <3>1 DEF Batch
      <3>3. QED
        BY <1>2, <3>1, <3>2
    <2>6. QED
      BY <2>4, <2>5
  <1>3. CASE ~Fresh(e)
    BY <1>1, <1>3 DEF Fit
  <1>4. QED
    BY <1>2, <1>3

LEMMA CaptureSqlKeeps ==
    ASSUME PresenceInv, NEW p \in Calls, CaptureSql(p)
    PROVE  PresenceInv'
  <1>1. PresenceTypes /\ Guarded /\ CallAnswers /\ Recording
    BY DEF PresenceInv
  <1>2. PICK e : e = call[p].events
    OBVIOUS
  <1>3. /\ call[p].pc = "sent" /\ backend = "sql"
        /\ backend' = backend /\ guard' = guard /\ world' = world /\ exact' = exact
    BY DEF CaptureSql
  <1>4. Batch(e)
    BY <1>1, <1>2, <1>3 DEF PresenceTypes
  <1>5. PICK at \in Nat : at = call[p].received
    BY <1>1 DEF PresenceTypes, CallRecords
  <1>6. /\ journal \in Seq(EventRecords) /\ covered = Len(journal) /\ Faithful(record, trace)
        /\ trace \in Seq(Entries) /\ record \in PresenceRecords \cup {Unset}
        /\ (journal # <<>> => record # Unset) /\ (record # Unset => Valid(record))
    BY <1>1, <1>3 DEF PresenceTypes, Recording
  <1>7. guard = Unset
    <2>1. guard # Unset => guard \in Calls
      BY <1>1 DEF PresenceTypes
    <2>2. QED
      BY <1>1, <1>3, <2>1 DEF Guarded
  <1>8. PICK projected :
            projected = IF Uncovered(e) = {} THEN record ELSE ProjectRecords(e, Uncovered(e), at)
    OBVIOUS
  <1>9. IF Accepts(e) /\ Valid(projected)
        THEN /\ journal' = Accepted(e) /\ trace' = Noted(p) /\ record' = projected
             /\ covered' = IF Uncovered(e) = {} THEN covered ELSE Len(journal')
             /\ Answer(p)
        ELSE Ends(p, "refused") /\ UNCHANGED <<journal, trace, record, covered, faults>>
    BY <1>2, <1>5, <1>8 DEF CaptureSql
  <1>10. ASSUME NEW pc \in Pcs \ {"new", "accepted"}, Ends(p, pc)
         PROVE  /\ call' \in [Calls -> CallRecords] /\ call'[p].pc = pc /\ call'[p].events = e
                /\ \A q \in Calls : q # p => call'[q] = call[q]
                /\ \A q \in Calls : IF call'[q].pc = "new" THEN call'[q].events = <<>> ELSE Batch(call'[q].events)
                /\ Guarded'
    <2>1. /\ call' \in [Calls -> CallRecords] /\ call'[p].pc = pc /\ call'[p].events = e
          /\ \A q \in Calls : q # p => call'[q] = call[q]
          /\ \A q \in Calls : IF call'[q].pc = "new" THEN call'[q].events = <<>> ELSE Batch(call'[q].events)
      BY <1>1, <1>2, <1>3, <1>10, EndsIs
    <2>2. Guarded'
      BY <1>1, <1>3, <1>7, <1>10, <2>1 DEF Guarded
    <2>3. QED
      BY <2>1, <2>2
  <1>11. ASSUME Accepts(e)
         PROVE  /\ projected \in PresenceRecords /\ projected # Unset
                /\ Fresh(e) => /\ Uncovered(e) # {} /\ (Valid(projected) <=> e[1].safe)
                               /\ Faithful(projected, trace \o EntriesOf(e, at))
                               /\ trace \o EntriesOf(e, at) \in Seq(Entries)
                /\ ~Fresh(e) => projected = record /\ Uncovered(e) = {} /\ Valid(projected)
    <2>1. CASE Fresh(e)
      <3>1. Uncovered(e) = DOMAIN e /\ Uncovered(e) # {}
        BY <1>4, <1>6, <2>1, UncoveredOf
      <3>2. projected = ProjectRecords(e, DOMAIN e, at)
        BY <1>8, <3>1
      <3>3. QED
        BY <1>4, <1>6, <2>1, <3>1, <3>2, BatchProjected
    <2>2. CASE ~Fresh(e)
      <3>1. Repeated(e)
        BY <1>11, <2>2 DEF Accepts
      <3>2. Uncovered(e) = {} /\ projected = record
        BY <1>4, <1>6, <1>8, <3>1, UncoveredOf
      <3>3. journal # <<>>
        <4>1. 1 \in DOMAIN e
          BY <1>4 DEF Batch
        <4>2. PICK n : n \in DOMAIN journal
          BY <3>1, <4>1 DEF Repeated, Known
        <4>3. QED
          BY <1>6, <4>2
      <3>4. QED
        BY <1>6, <2>2, <3>2, <3>3
    <2>3. QED
      BY <2>1, <2>2
  <1>12. CASE Accepts(e) /\ Valid(projected)
    <2>1. /\ projected \in PresenceRecords /\ projected # Unset
          /\ Fresh(e) => Uncovered(e) # {} /\ e[1].safe /\ Faithful(projected, trace \o EntriesOf(e, at))
                         /\ trace \o EntriesOf(e, at) \in Seq(Entries)
          /\ ~Fresh(e) => projected = record /\ Uncovered(e) = {}
      BY <1>11, <1>12
    <2>2. /\ journal' = Accepted(e) /\ trace' = Noted(p) /\ record' = projected
          /\ covered' = IF Uncovered(e) = {} THEN covered ELSE Len(journal')
          /\ Answer(p)
      BY <1>9, <1>12
    <2>3. /\ journal' \in Seq(EventRecords) /\ Single' /\ Numbered' /\ InJournal(e)' /\ Stable
          /\ (Fresh(e) => journal' = journal \o e) /\ (~Fresh(e) => journal' = journal)
      BY <1>4, <1>12, <2>2, AcceptanceIs
    <2>4. faults \in Nat
      BY <1>1 DEF PresenceTypes
    <2>5. PICK pc \in {"done", "sent"} :
             Ends(p, pc) /\ faults' \in Nat /\ (faults' = 0 => faults = 0 /\ pc = "done")
      <3>1. CASE Ends(p, "done") /\ UNCHANGED faults
        BY <2>4, <3>1
      <3>2. CASE faults' = faults + 1 /\ Ends(p, "sent")
        BY <2>4, <3>2
      <3>3. QED
        BY <2>2, <3>1, <3>2 DEF Answer
    <2>6. /\ call' \in [Calls -> CallRecords] /\ call'[p].pc = pc /\ call'[p].events = e
          /\ \A q \in Calls : q # p => call'[q] = call[q]
          /\ \A q \in Calls : IF call'[q].pc = "new" THEN call'[q].events = <<>> ELSE Batch(call'[q].events)
          /\ Guarded'
      BY <1>10, <2>5 DEF Pcs
    <2>7. /\ trace' \in Seq(Entries) /\ Faithful(record', trace') /\ covered' = Len(journal')
      <3>1. CASE Fresh(e)
        <4>1. trace' = trace \o EntriesOf(e, at)
          BY <1>2, <1>5, <2>2, <3>1, NotedIs
        <4>2. QED
          BY <2>1, <2>2, <3>1, <4>1
      <3>2. CASE ~Fresh(e)
        <4>1. trace' = trace
          BY <1>2, <2>2, <3>2, NotedIs
        <4>2. QED
          BY <1>6, <2>1, <2>2, <2>3, <3>2, <4>1
      <3>3. QED
        BY <3>1, <3>2
    <2>8. PresenceTypes'
      BY <1>1, <1>3, <2>1, <2>2, <2>3, <2>5, <2>6, <2>7 DEF PresenceTypes
    <2>9. CallAnswers'
      <3>1. call'[p].events = e /\ InJournal(call[p].events)'
        BY <2>3, <2>6 DEF InJournal
      <3>2. QED
        BY <1>1, <1>2, <1>3, <2>3, <2>5, <2>6, <3>1, AnswersAfter
    <2>10. Fit'
      BY <1>3, <1>4, <1>6, <2>1, <2>3, FitAfter
    <2>11. Recording' /\ Projecting'
      BY <1>3, <1>12, <2>1, <2>2, <2>7 DEF Recording, Projecting
    <2>12. QED
      BY <2>3, <2>6, <2>8, <2>9, <2>10, <2>11 DEF PresenceInv
  <1>13. CASE ~(Accepts(e) /\ Valid(projected))
    <2>1. Ends(p, "refused") /\ UNCHANGED <<journal, trace, record, covered, faults>>
      BY <1>9, <1>13
    <2>2. /\ call' \in [Calls -> CallRecords] /\ call'[p].pc = "refused" /\ call'[p].events = e
          /\ \A q \in Calls : q # p => call'[q] = call[q]
          /\ \A q \in Calls : IF call'[q].pc = "new" THEN call'[q].events = <<>> ELSE Batch(call'[q].events)
          /\ Guarded'
      BY <1>10, <2>1 DEF Pcs
    <2>3. Stable /\ Single' /\ Numbered'
      BY <2>1, SameJournal DEF PresenceInv
    <2>4. Other(e)' \/ Unfit(e)'
      <3>1. CASE ~Accepts(e)
        <4>1. Other(e)
          BY <1>4, <1>6, <3>1, RefusedIsOther
        <4>2. QED
          BY <1>4, <2>3, <4>1 DEF Stable
      <3>2. CASE Accepts(e)
        <4>1. ~e[1].safe
          BY <1>11, <1>13, <3>2
        <4>2. 1 \in DOMAIN e
          BY <1>4 DEF Batch
        <4>3. QED
          BY <1>3, <4>1, <4>2 DEF Unfit
      <3>3. QED
        BY <3>1, <3>2
    <2>5. CallAnswers'
      <3>1. Other(call[p].events)' \/ Unfit(call[p].events)'
        <4>1. call'[p].events = e
          BY <2>2
        <4>2. QED
          BY <2>4, <4>1 DEF Other, Unfit, InJournal, Known
      <3>2. QED
        BY <1>1, <1>2, <1>3, <2>2, <2>3, <3>1, AnswersAfter
    <2>6. PresenceTypes'
      BY <1>1, <1>3, <2>1, <2>2 DEF PresenceTypes
    <2>7. Fit'
      BY <1>3, <2>1 DEF PresenceInv, Fit
    <2>8. Recording' /\ Projecting'
      BY <1>3, <1>6, <2>1 DEF Recording, Projecting
    <2>9. QED
      BY <2>2, <2>3, <2>5, <2>6, <2>7, <2>8 DEF PresenceInv
  <1>14. QED
    BY <1>12, <1>13

LEMMA AppendFileKeeps ==
    ASSUME PresenceInv, NEW p \in Calls, AppendFile(p)
    PROVE  PresenceInv'
  <1>1. PresenceTypes /\ Guarded /\ CallAnswers /\ Recording /\ Projecting
    BY DEF PresenceInv
  <1>2. PICK e : e = call[p].events
    OBVIOUS
  <1>3. /\ call[p].pc = "sent" /\ backend = "file" /\ guard = Unset
        /\ backend' = backend /\ covered' = covered /\ record' = record /\ world' = world /\ faults' = faults
        /\ IF Accepts(e)
           THEN /\ journal' = Accepted(e) /\ trace' = Noted(p) /\ guard' = p /\ Ends(p, "accepted")
                /\ exact' = (exact /\ Fresh(e))
           ELSE Ends(p, "refused") /\ UNCHANGED <<journal, trace, exact, guard>>
    BY <1>2 DEF AppendFile
  <1>4. Batch(e)
    BY <1>1, <1>2, <1>3 DEF PresenceTypes
  <1>5. PICK at \in Nat : at = call[p].received
    BY <1>1 DEF PresenceTypes, CallRecords
  <1>6. journal \in Seq(EventRecords) /\ trace \in Seq(Entries)
    BY <1>1 DEF PresenceTypes
  <1>7. ASSUME NEW q \in Calls PROVE call[q].pc # "accepted"
    BY <1>1, <1>3, PresenceAssumption DEF Guarded
  <1>8. CASE Accepts(e)
    <2>1. /\ journal' = Accepted(e) /\ trace' = Noted(p) /\ guard' = p /\ Ends(p, "accepted")
          /\ exact' = (exact /\ Fresh(e))
      BY <1>3, <1>8
    <2>2. /\ call' \in [Calls -> CallRecords] /\ call'[p].pc = "accepted" /\ call'[p].events = e
          /\ call'[p].received = at /\ \A q \in Calls : q # p => call'[q] = call[q]
          /\ \A q \in Calls : IF call'[q].pc = "new" THEN call'[q].events = <<>> ELSE Batch(call'[q].events)
      BY <1>1, <1>2, <1>3, <1>5, <2>1, EndsIs DEF Pcs
    <2>3. journal' \in Seq(EventRecords) /\ Single' /\ Numbered' /\ InJournal(e)' /\ Stable
      BY <1>4, <1>8, <2>1, AcceptanceIs
    <2>4. trace' = IF Fresh(e) THEN trace \o EntriesOf(e, at) ELSE trace
      BY <1>2, <1>5, <2>1, NotedIs
    <2>5. trace \o EntriesOf(e, at) \in Seq(Entries)
      <3>1. EntriesOf(e, at) \in Seq(Entries)
        BY <1>4, EntriesTyped
      <3>2. QED
        BY <1>6, <3>1
    <2>6. PresenceTypes'
      BY <1>1, <1>3, <1>6, <2>1, <2>2, <2>3, <2>4, <2>5 DEF PresenceTypes, Fresh
    <2>7. Guarded'
      BY <1>3, <1>7, <2>1, <2>2 DEF Guarded
    <2>8. CallAnswers'
      <3>1. InJournal(call[p].events)'
        BY <2>2, <2>3 DEF InJournal
      <3>2. QED
        BY <1>1, <1>2, <1>3, <2>2, <2>3, <3>1, AnswersAfter
    <2>9. Fit'
      BY <1>3 DEF Fit
    <2>10. Recording'
      BY <1>1, <1>3 DEF Recording
    <2>11. Projecting'
      <3>1. SUFFICES ASSUME exact, Fresh(e) PROVE Pending'
        BY <2>1 DEF Projecting
      <3>2. Faithful(record, trace)
        BY <1>1, <1>3, <3>1 DEF Projecting, Pending
      <3>3. Faithful(record', trace) /\ trace' = trace \o EntriesOf(call'[p].events, call'[p].received)
        BY <1>3, <2>2, <2>4, <3>1, <3>2
      <3>4. QED
        BY <1>6, <2>1, <3>3, PresenceAssumption DEF Pending
    <2>12. QED
      BY <2>3, <2>6, <2>7, <2>8, <2>9, <2>10, <2>11 DEF PresenceInv
  <1>9. CASE ~Accepts(e)
    <2>1. Ends(p, "refused") /\ UNCHANGED <<journal, trace, exact, guard>>
      BY <1>3, <1>9
    <2>2. /\ call' \in [Calls -> CallRecords] /\ call'[p].pc = "refused" /\ call'[p].events = e
          /\ \A q \in Calls : q # p => call'[q] = call[q]
          /\ \A q \in Calls : IF call'[q].pc = "new" THEN call'[q].events = <<>> ELSE Batch(call'[q].events)
      BY <1>1, <1>2, <1>3, <2>1, EndsIs DEF Pcs
    <2>3. Stable /\ Single' /\ Numbered'
      BY <2>1, SameJournal DEF PresenceInv
    <2>4. Other(e)'
      <3>1. Other(e)
        BY <1>4, <1>6, <1>9, RefusedIsOther
      <3>2. QED
        BY <1>4, <2>3, <3>1 DEF Stable
    <2>5. CallAnswers'
      <3>1. Other(call[p].events)'
        BY <2>2, <2>4 DEF Other, InJournal, Known
      <3>2. QED
        BY <1>1, <1>2, <1>3, <2>2, <2>3, <3>1, AnswersAfter
    <2>6. PresenceTypes'
      BY <1>1, <1>3, <2>1, <2>2 DEF PresenceTypes
    <2>7. Fit'
      BY <1>3 DEF Fit
    <2>8. Guarded' /\ Recording'
      BY <1>1, <1>3, <1>7, <2>1, <2>2 DEF Guarded, Recording
    <2>9. Projecting'
      <3>1. SUFFICES ASSUME exact PROVE Pending'
        BY <2>1 DEF Projecting
      <3>2. Faithful(record, trace)
        BY <1>1, <1>3, <3>1 DEF Projecting, Pending
      <3>3. QED
        BY <1>3, <2>1, <3>2 DEF Pending
    <2>10. QED
      BY <2>2, <2>3, <2>5, <2>6, <2>7, <2>8, <2>9 DEF PresenceInv
  <1>10. QED
    BY <1>8, <1>9

\* The call that holds the guard leaves it.
LEMMA GuardLeft ==
    ASSUME PresenceInv, NEW p \in Calls, call[p].pc = "accepted", NEW pc \in {"done", "sent"}, Ends(p, pc),
           guard' = Unset, record' \in PresenceRecords \cup {Unset}, record' # Unset => Valid(record'),
           faults' \in Nat, exact' \in BOOLEAN, exact' => Faithful(record', trace),
           UNCHANGED <<backend, journal, covered, world, trace>>
    PROVE  PresenceInv'
  <1>1. PresenceTypes /\ Guarded /\ CallAnswers /\ Fit
    BY DEF PresenceInv
  <1>2. backend = "file" /\ guard = p
    BY <1>1 DEF Guarded
  <1>3. /\ call' \in [Calls -> CallRecords] /\ call'[p].pc = pc /\ call'[p].events = call[p].events
        /\ \A q \in Calls : q # p => call'[q] = call[q]
        /\ \A q \in Calls : IF call'[q].pc = "new" THEN call'[q].events = <<>> ELSE Batch(call'[q].events)
    BY <1>1, EndsIs DEF Pcs
  <1>4. Stable /\ Single' /\ Numbered'
    BY SameJournal DEF PresenceInv
  <1>5. PresenceTypes'
    BY <1>1, <1>3 DEF PresenceTypes
  <1>6. Guarded'
    BY <1>1, <1>2, <1>3 DEF Guarded
  <1>7. CallAnswers'
    <2>1. PICK e : e = call[p].events
      OBVIOUS
    <2>2. Batch(e) /\ InJournal(e)
      BY <1>1, <2>1 DEF PresenceTypes, CallAnswers
    <2>3. InJournal(e)'
      BY <1>4, <2>2 DEF Stable
    <2>4. InJournal(call[p].events)'
      <3>1. call'[p].events = e
        BY <1>3, <2>1
      <3>2. QED
        BY <2>3, <3>1 DEF InJournal
    <2>5. QED
      BY <1>1, <1>3, <1>4, <2>4, AnswersAfter
  <1>8. Fit'
    BY <1>1 DEF Fit
  <1>9. Recording'
    BY <1>2 DEF Recording
  <1>10. Projecting'
    <2>1. SUFFICES ASSUME exact' PROVE Pending'
      BY DEF Projecting
    <2>2. Faithful(record', trace)
      BY <2>1
    <2>3. Faithful(record', trace')
      BY <2>2
    <2>4. QED
      BY <2>3 DEF Pending
  <1>11. QED
    BY <1>4, <1>5, <1>6, <1>7, <1>8, <1>9, <1>10 DEF PresenceInv

LEMMA ProjectFileKeeps ==
    ASSUME PresenceInv, NEW p \in Calls, ProjectFile(p)
    PROVE  PresenceInv'
  <1>1. PresenceTypes /\ Guarded /\ Recording /\ Projecting
    BY DEF PresenceInv
  <1>2. PICK e : e = call[p].events
    OBVIOUS
  <1>3. PICK at \in Nat : at = call[p].received
    BY <1>1 DEF PresenceTypes, CallRecords
  <1>4. PICK projected : projected = ProjectRecords(e, DOMAIN e, at)
    OBVIOUS
  <1>5. /\ call[p].pc = "accepted" /\ guard' = Unset /\ UNCHANGED <<backend, journal, covered, world, trace>>
        /\ \/ /\ record' = (IF Valid(projected) THEN projected ELSE record)
              /\ exact' = (exact /\ Valid(projected)) /\ Answer(p)
           \/ faults' = faults + 1 /\ Ends(p, "done") /\ exact' = FALSE /\ UNCHANGED record
    BY <1>2, <1>3, <1>4 DEF ProjectFile
  <1>6. Batch(e) /\ backend = "file" /\ guard = p /\ faults \in Nat /\ record \in PresenceRecords \cup {Unset}
    BY <1>1, <1>2, <1>5 DEF PresenceTypes, Guarded
  <1>7. CASE /\ record' = (IF Valid(projected) THEN projected ELSE record)
             /\ exact' = (exact /\ Valid(projected)) /\ Answer(p)
    <2>1. /\ projected \in PresenceRecords
          /\ \A s \in Seq(Entries) : Faithful(record, s) => Faithful(projected, s \o EntriesOf(e, at))
      BY <1>4, <1>6, BatchProjected
    <2>2. /\ record' \in PresenceRecords \cup {Unset} /\ (record' # Unset => Valid(record'))
          /\ exact' \in BOOLEAN /\ (exact' => exact /\ record' = projected)
      BY <1>1, <1>6, <1>7, <2>1 DEF Recording, PresenceTypes, Valid
    <2>3. PICK pc \in {"done", "sent"} : Ends(p, pc) /\ faults' \in Nat
      <3>1. CASE Ends(p, "done") /\ UNCHANGED faults
        BY <1>6, <3>1
      <3>2. CASE faults' = faults + 1 /\ Ends(p, "sent")
        BY <1>6, <3>2
      <3>3. QED
        BY <1>7, <3>1, <3>2 DEF Answer
    <2>4. ASSUME exact' PROVE Faithful(record', trace)
      <3>1. guard # Unset
        BY <1>6, PresenceAssumption
      <3>2. PICK s \in Seq(Entries) : Faithful(record, s) /\ trace = s \o EntriesOf(e, at)
        BY <1>1, <1>2, <1>3, <1>6, <2>2, <2>4, <3>1 DEF Projecting, Pending
      <3>3. QED
        BY <2>1, <2>2, <2>4, <3>2
    <2>5. QED
      BY <1>5, <2>2, <2>3, <2>4, GuardLeft
  <1>8. CASE faults' = faults + 1 /\ Ends(p, "done") /\ exact' = FALSE /\ UNCHANGED record
    <2>1. /\ faults' \in Nat /\ exact' \in BOOLEAN /\ ~exact'
          /\ record' \in PresenceRecords \cup {Unset} /\ (record' # Unset => Valid(record'))
      <3>1. faults' \in Nat
        BY <1>6, <1>8
      <3>2. exact' \in BOOLEAN /\ ~exact'
        BY <1>8
      <3>3. record' \in PresenceRecords \cup {Unset}
        BY <1>6, <1>8
      <3>4. record # Unset => Valid(record)
        BY <1>1 DEF Recording
      <3>5. record' # Unset => Valid(record')
        BY <1>8, <3>4 DEF Valid
      <3>6. QED
        BY <3>1, <3>2, <3>3, <3>5
    <2>2. PICK pc \in {"done", "sent"} : pc = "done"
      OBVIOUS
    <2>3. Ends(p, pc)
      BY <1>8, <2>2
    <2>4. QED
      BY <1>5, <2>1, <2>3, GuardLeft
  <1>9. QED
    BY <1>5, <1>7, <1>8

LEMMA CrashFileKeeps ==
    ASSUME PresenceInv, NEW p \in Calls, CrashFile(p)
    PROVE  PresenceInv'
  <1>1. /\ call[p].pc = "accepted" /\ faults' = faults + 1 /\ guard' = Unset /\ Ends(p, "sent")
        /\ exact' = FALSE
        /\ UNCHANGED <<backend, journal, covered, record, world, trace>>
    BY DEF CrashFile
  <1>2. faults \in Nat /\ record \in PresenceRecords \cup {Unset} /\ (record # Unset => Valid(record))
    BY DEF PresenceInv, PresenceTypes, Recording
  <1>3. /\ faults' \in Nat /\ exact' \in BOOLEAN /\ ~exact'
        /\ record' \in PresenceRecords \cup {Unset} /\ (record' # Unset => Valid(record'))
    <2>1. faults' \in Nat
      BY <1>1, <1>2
    <2>2. exact' \in BOOLEAN /\ ~exact'
      BY <1>1
    <2>3. record' \in PresenceRecords \cup {Unset}
      BY <1>1, <1>2
    <2>4. record' # Unset => Valid(record')
      BY <1>1, <1>2 DEF Valid
    <2>5. QED
      BY <2>1, <2>2, <2>3, <2>4
  <1>4. PICK pc \in {"done", "sent"} : pc = "sent"
    OBVIOUS
  <1>5. Ends(p, pc)
    BY <1>1, <1>4
  <1>6. QED
    BY <1>1, <1>3, <1>5, GuardLeft

LEMMA ExplicitWaitingKeeps ==
    ASSUME PresenceInv, ExplicitWaiting(AwaitedId)
    PROVE  PresenceInv'
  <1>1. PresenceTypes /\ Guarded /\ CallAnswers /\ Fit /\ Recording /\ Projecting
    BY DEF PresenceInv
  <1>2. PICK x : x = [id |-> AwaitedId, type |-> "waiting", head |-> record.head, at |-> world.now]
    OBVIOUS
  <1>3. /\ record # Unset /\ guard = Unset /\ Valid(record') /\ record' = WaitingRecord(AwaitedId)
        /\ trace' = Append(trace, x)
        /\ UNCHANGED <<backend, journal, covered, guard, call, world, exact, faults>>
    BY <1>2 DEF ExplicitWaiting
  <1>4. PICK r \in PresenceRecords : r = record
    BY <1>1, <1>3 DEF PresenceTypes
  <1>5. PICK now \in Nat : now = world.now
    BY <1>1 DEF PresenceTypes
  <1>6. record' = [status |-> "waiting", source |-> "host", activity |-> AwaitedId, decision |-> r.decision,
                   gaps |-> r.gaps, lease |-> now + Lease, head |-> r.head, safe |-> r.safe]
    BY <1>3, <1>4, <1>5 DEF WaitingRecord, PresenceRecords
  <1>7. /\ r.decision \in Ids \cup {Unset} /\ r.gaps \in Nat /\ r.head \in 0..2 /\ now + Lease \in Nat
        /\ r.safe \in BOOLEAN
    BY PresenceAssumption DEF PresenceRecords
  <1>8. record' \in PresenceRecords /\ record' # Unset
    <2>1. record' \in PresenceRecords
      BY <1>6, <1>7 DEF PresenceRecords
    <2>2. QED
      BY <2>1, PresenceAssumption
  <1>9. x \in Entries /\ x.type = "waiting" /\ x.id = AwaitedId /\ x.head = r.head /\ x.at = now /\ x # Unset
    <2>1. x \in Entries
      BY <1>2, <1>4, <1>5, <1>7 DEF Entries
    <2>2. QED
      BY <1>2, <1>4, <1>5, <2>1, PresenceAssumption
  <1>10. trace \in Seq(Entries) /\ trace' \in Seq(Entries)
    BY <1>1, <1>3, <1>9 DEF PresenceTypes
  <1>11. Faithful(record, trace) => Faithful(record', trace')
    <2>1. SUFFICES ASSUME Faithful(record, trace) PROVE Faithful(record', Append(trace, x))
      BY <1>3
    <2>2. Says(r, trace)
      BY <1>3, <1>4, <2>1 DEF Faithful
    <2>3. LastIn(Append(trace, x), SettlesIn(Append(trace, x))) = x
      BY <1>9, <1>10, SettledOfMore DEF Keeps
    <2>4. StatusOf(x) = "waiting"
      BY <1>9 DEF StatusOf
    <2>5. LastIn(Append(trace, x), Tools) = x
      BY <1>9, <1>10, LastOfMore DEF Tools
    <2>6. RunningIn(Append(trace, x)) = AwaitedId
      BY <1>9, <2>5 DEF RunningIn
    <2>7. Cardinality(GapsIn(Append(trace, x))) = r.gaps
      BY <1>9, <1>10, <2>2, GapsOfMore DEF Says
    <2>8. Append(trace, x) # <<>> /\ Append(trace, x)[Len(Append(trace, x))] = x
      BY <1>9, <1>10, OneMoreEntry
    <2>9. LeaseOf("waiting", now) = now + Lease
      BY DEF LeaseOf
    <2>10. Says(record', Append(trace, x))
      BY <1>6, <1>9, <2>3, <2>4, <2>6, <2>7, <2>8, <2>9 DEF Says
    <2>11. QED
      BY <1>8, <2>8, <2>10 DEF Faithful
  <1>12. PresenceTypes'
    BY <1>1, <1>3, <1>8, <1>10 DEF PresenceTypes
  <1>13. Stable /\ Single' /\ Numbered'
    BY <1>3, SameJournal DEF PresenceInv
  <1>14. Guarded' /\ Fit'
    BY <1>1, <1>3 DEF Guarded, Fit
  <1>15. CallAnswers'
    <2>1. UNCHANGED <<backend, journal, call>>
      BY <1>3
    <2>2. CallAnswers
      BY <1>1
    <2>3. QED
      BY <2>1, <2>2 DEF CallAnswers, Other, Unfit, InJournal, Known
  <1>16. Recording'
    BY <1>1, <1>3, <1>8, <1>11 DEF Recording
  <1>17. Projecting'
    BY <1>1, <1>3, <1>11 DEF Projecting, Pending
  <1>18. QED
    BY <1>12, <1>13, <1>14, <1>15, <1>16, <1>17 DEF PresenceInv

LEMMA WorldKeeps ==
    ASSUME PresenceInv, world' \in [now : Nat, head : 1..2, session : {"plain", "odd"}],
           UNCHANGED <<backend, journal, covered, record, guard, call, trace, exact, faults>>
    PROVE  PresenceInv'
  <1>1. PresenceTypes'
    BY DEF PresenceInv, PresenceTypes
  <1>2. Single' /\ Numbered' /\ Guarded' /\ Fit'
    BY DEF PresenceInv, Single, Numbered, Guarded, Fit
  <1>3. CallAnswers'
    BY DEF PresenceInv, CallAnswers, Other, Unfit, InJournal, Known
  <1>4. Recording' /\ Projecting'
    BY DEF PresenceInv, Recording, Projecting, Pending
  <1>5. QED
    BY <1>1, <1>2, <1>3, <1>4 DEF PresenceInv

THEOREM PresenceInvariant == PresenceSpec => []PresenceInv
  <1>1. PresenceInit => PresenceInv
    BY InitialPresence
  <1>2. PresenceInv /\ [PresenceNext]_presenceVars => PresenceInv'
    <2>1. SUFFICES ASSUME PresenceInv, [PresenceNext]_presenceVars PROVE PresenceInv'
      OBVIOUS
    <2>2. world \in [now : Nat, head : 1..2, session : {"plain", "odd"}]
      BY <2>1 DEF PresenceInv, PresenceTypes
    <2>3. CASE \E p \in Calls : \E input \in Inputs[p] : Prepare(p, input)
      BY <2>1, <2>3, PrepareKeeps
    <2>4. CASE \E p \in Calls : CaptureSql(p) \/ AppendFile(p) \/ ProjectFile(p) \/ CrashFile(p)
      BY <2>1, <2>4, CaptureSqlKeeps, AppendFileKeeps, ProjectFileKeeps, CrashFileKeeps
    <2>5. CASE ExplicitWaiting(AwaitedId)
      BY <2>1, <2>5, ExplicitWaitingKeeps
    <2>6. CASE Tick
      <3>1. world' \in [now : Nat, head : 1..2, session : {"plain", "odd"}]
        BY <2>2, <2>6 DEF Tick
      <3>2. QED
        BY <2>1, <2>6, <3>1, WorldKeeps DEF Tick
    <2>7. CASE Commit
      <3>1. world' \in [now : Nat, head : 1..2, session : {"plain", "odd"}]
        BY <2>2, <2>7 DEF Commit
      <3>2. QED
        BY <2>1, <2>7, <3>1, WorldKeeps DEF Commit
    <2>8. CASE UNCHANGED presenceVars
      BY <2>1, <2>2, <2>8, WorldKeeps DEF presenceVars
    <2>9. QED
      BY <2>1, <2>3, <2>4, <2>5, <2>6, <2>7, <2>8 DEF PresenceNext
  <1>3. QED
    BY <1>1, <1>2, PTL DEF PresenceSpec

(* Every call of a host or a tool that was answered has its events in the     *)
(* journal, next to each other and once; one is refused, and then not in it,  *)
(* only when its identifier stands for something else or, by the database,    *)
(* when the projection does not take its session's or route's identifier.     *)
THEOREM CapturesAreAnswered == PresenceSpec => []CaptureAnswered
  <1>1. PresenceInv => CaptureAnswered
    <2>1. SUFFICES ASSUME PresenceInv PROVE CaptureAnswered
      OBVIOUS
    <2>2. DOMAIN journal = 1..Len(journal)
      BY <2>1 DEF PresenceInv, PresenceTypes
    <2>3. Single /\ CallAnswers
      BY <2>1 DEF PresenceInv
    <2>4. \A p \in Calls :
             /\ call[p].pc \in {"accepted", "done"} => InJournal(call[p].events)
             /\ call[p].pc = "refused" =>
                  /\ ~InJournal(call[p].events)
                  /\ \E i \in DOMAIN call[p].events :
                        Known(call[p].events[i]) # {} \/ (backend = "sql" /\ ~call[p].events[i].safe)
      <3>1. ASSUME NEW p \in Calls, call[p].pc = "refused", Unfit(call[p].events) PROVE ~InJournal(call[p].events)
        <4>1. PICK e : e = call[p].events
          OBVIOUS
        <4>2. Batch(e) /\ journal \in Seq(EventRecords) /\ Fit
          BY <2>1, <3>1, <4>1 DEF PresenceInv, PresenceTypes
        <4>3. PICK i \in 1..Len(e) : backend = "sql" /\ ~e[i].safe
          BY <3>1, <4>1, <4>2 DEF Unfit, Batch
        <4>4. ASSUME InJournal(e) PROVE FALSE
          <5>1. PICK n \in Nat : n + Len(e) <= Len(journal) /\ \A j \in 1..Len(e) : journal[n + j] = e[j]
            BY <4>2, <4>4, InJournalIs
          <5>2. n + i \in 1..Len(journal) /\ journal[n + i] = e[i]
            BY <4>2, <5>1 DEF Batch
          <5>3. QED
            BY <4>2, <4>3, <5>2 DEF Fit
        <4>5. QED
          BY <4>1, <4>4
      <3>2. QED
        BY <2>3, <3>1 DEF CallAnswers, Other, Unfit
    <2>5. QED
      BY <2>2, <2>3, <2>4 DEF CaptureAnswered, Single
  <1>2. QED
    BY <1>1, PresenceInvariant, PTL

(* What a reader is shown of a session is what its accepted events say, each  *)
(* counted once: by the database over every loss and repetition, by the file  *)
(* backend until an update is cut off, skipped or refused, or an accepted     *)
(* call is executed again.                                                    *)
THEOREM PresenceIsFaithful == PresenceSpec => []PresenceFaithful
  <1>1. PresenceInv => PresenceFaithful
    <2>1. SUFFICES ASSUME PresenceInv, backend = "sql" \/ (exact /\ guard = Unset)
                   PROVE  IF trace = <<>> THEN Shown = Unset
                          ELSE LET last == trace[Len(trace)]
                                   status == StatusOf(LastOf(Settles))
                                   tool == LastOf(Tools)
                               IN /\ Shown.status = IF status # "completed" /\ world.now > last.at + Lease
                                                    THEN "stale" ELSE status
                                  /\ Shown.activity = IF tool = Unset THEN Unset
                                         ELSE IF tool.type \in {"ToolRequested", "waiting"} THEN tool.id ELSE Unset
                                  /\ Shown.gaps = Cardinality({n \in DOMAIN trace : trace[n].type = "CaptureGap"})
                                  /\ Shown.head = last.head
      BY DEF PresenceFaithful, Tools
    <2>2. PresenceTypes /\ Recording /\ Projecting
      BY <2>1 DEF PresenceInv
    <2>3. Faithful(record, trace) /\ (record # Unset => Valid(record))
      BY <2>1, <2>2 DEF PresenceTypes, Recording, Projecting, Pending
    <2>4. CASE trace = <<>>
      BY <2>3, <2>4 DEF Faithful, Shown
    <2>5. CASE trace # <<>>
      <3>1. record # Unset /\ Says(record, trace) /\ Valid(record) /\ record \in PresenceRecords
        BY <2>2, <2>3, <2>5 DEF Faithful, PresenceTypes
      <3>2. PICK r \in PresenceRecords : r = record
        BY <3>1
      <3>3. PICK now \in Nat : now = world.now
        BY <2>2 DEF PresenceTypes
      <3>4. Shown = EffectiveAt(r, now)
        BY <3>1, <3>2, <3>3 DEF Shown
      <3>5. /\ SettlesIn(trace) = Settles /\ \A types : LastIn(trace, types) = LastOf(types)
            /\ GapsIn(trace) = {n \in DOMAIN trace : trace[n].type = "CaptureGap"}
        BY DEF SettlesIn, Settles, LastIn, LastOf, GapsIn
      <3>6. /\ r.status = StatusOf(LastOf(Settles)) /\ r.activity = RunningIn(trace)
            /\ r.gaps = Cardinality({n \in DOMAIN trace : trace[n].type = "CaptureGap"})
            /\ r.head = trace[Len(trace)].head
            /\ r.lease = LeaseOf(r.status, trace[Len(trace)].at)
        BY <3>1, <3>2, <3>5 DEF Says
      <3>7. /\ EffectiveAt(r, now).activity = r.activity /\ EffectiveAt(r, now).gaps = r.gaps
            /\ EffectiveAt(r, now).head = r.head
            /\ EffectiveAt(r, now).status = IF r.status # "completed" /\ now > r.lease THEN "stale" ELSE r.status
        BY DEF EffectiveAt, PresenceRecords
      <3>8. r.status # "completed" => r.lease = trace[Len(trace)].at + Lease
        BY <3>6 DEF LeaseOf
      <3>9. EffectiveAt(r, now).status =
              IF r.status # "completed" /\ now > trace[Len(trace)].at + Lease THEN "stale" ELSE r.status
        BY <3>7, <3>8
      <3>10. r.activity = IF LastOf(Tools) = Unset THEN Unset
                          ELSE IF LastOf(Tools).type \in {"ToolRequested", "waiting"} THEN LastOf(Tools).id ELSE Unset
        BY <3>5, <3>6 DEF RunningIn
      <3>11. QED
        BY <2>5, <3>3, <3>4, <3>6, <3>7, <3>9, <3>10
    <2>6. QED
      BY <2>4, <2>5
  <1>2. QED
    BY <1>1, PresenceInvariant, PTL

-----------------------------------------------------------------------------
LEMMA LeastOf ==
    ASSUME NEW T \in SUBSET Nat, T # {}
    PROVE  \E x \in T : \A y \in T : x <= y
  <1> DEFINE R == {ss \in Nat \X Nat : ss[1] < ss[2]}
  <1>1. IsWellFoundedOn(R, Nat)
    BY NatLessThanWellFounded DEF OpToRel
  <1>2. PICK x \in T : \A y \in T : ~(<<y, x>> \in R)
    BY <1>1, WFMin
  <1>3. ASSUME NEW y \in T PROVE x <= y
    <2>1. <<y, x>>[1] = y /\ <<y, x>>[2] = x /\ x \in Nat /\ y \in Nat
      OBVIOUS
    <2>2. CASE x <= y
      BY <2>2
    <2>3. CASE y < x
      <3>1. <<y, x>> \in R
        BY <2>1, <2>3
      <3>2. QED
        BY <1>2, <3>1
    <2>4. QED
      BY <2>1, <2>2, <2>3
  <1>4. QED
    BY <1>3

\* Whatever holds of the empty sequence and stays when one more is appended.
LEMMA BySequences ==
    ASSUME NEW S, NEW A \in SUBSET Seq(S), <<>> \in A,
           \A s \in Seq(S), x \in S : s \in A => Append(s, x) \in A
    PROVE  A = Seq(S)
  <1> DEFINE T == {n \in Nat : \E s \in Seq(S) : Len(s) = n /\ s \notin A}
  <1>1. SUFFICES ASSUME T # {} PROVE FALSE
    <2>1. \A s \in Seq(S) : Len(s) \in Nat
      BY LenProperties
    <2>2. QED
      BY <1>1, <2>1
  <1>2. T \in SUBSET Nat
    OBVIOUS
  <1>3. PICK n \in T : \A y \in T : n <= y
    BY <1>1, <1>2, LeastOf
  <1>4. PICK s \in Seq(S) : Len(s) = n /\ s \notin A
    BY <1>3
  <1>5. PICK t \in Seq(S), x \in S : s = Append(t, x)
    BY <1>4, SequenceEmptyOrAppend
  <1>6. Len(t) \in Nat /\ Len(s) = Len(t) + 1
    BY <1>5, AppendProperties, LenProperties
  <1>7. Len(t) \notin T
    <2>1. PICK m \in Nat : m = Len(t)
      BY <1>6
    <2>2. n = m + 1
      BY <1>4, <1>6, <2>1
    <2>3. ~(n <= m)
      BY <2>2
    <2>4. QED
      BY <1>3, <2>1, <2>3
  <1>8. t \in A
    BY <1>6, <1>7
  <1>9. QED
    BY <1>4, <1>5, <1>8

-----------------------------------------------------------------------------
(* FlattenSeq, one sequence after the other.                                  *)

Joins(S, f, g) ==
    /\ g \in [0 .. Len(f) -> Seq(S)] /\ g[0] = <<>>
    /\ \A k \in 1 .. Len(f) : g[k] = g[k - 1] \o f[k]

LEMMA FlattenIs ==
    ASSUME NEW S, NEW f \in Seq(Seq(S)), NEW g, Joins(S, f, g)
    PROVE  FlattenSeq(f) = g[Len(f)]
  <1>1. PICK n \in Nat : n = Len(f)
    BY LenProperties
  <1>2. CASE n = 0
    <2>1. f = <<>>
      BY <1>1, <1>2, EmptySeq
    <2>2. FlattenSeq(f) = f
      BY <1>1, <1>2 DEF FlattenSeq
    <2>3. QED
      BY <1>1, <1>2, <2>1, <2>2 DEF Joins
  <1>3. CASE n # 0
    <2> DEFINE F(r) == [i \in 1 .. n |-> IF i = 1 THEN f[i] ELSE r[i - 1] \o f[i]]
    <2>1. PICK h : h = [i \in 1 .. n |-> g[i]]
      OBVIOUS
    <2>2. h = F(h)
      <3>1. ASSUME NEW i \in 1 .. n PROVE g[i] = IF i = 1 THEN f[i] ELSE h[i - 1] \o f[i]
        <4>1. CASE i = 1
          <5>1. g[1] = g[0] \o f[1] /\ g[0] = <<>>
            <6>1. 1 \in 1 .. Len(f) /\ 1 - 1 = 0
              BY <1>1, <1>3
            <6>2. QED
              BY <6>1 DEF Joins
          <5>2. f[1] \in Seq(S)
            BY <1>1, <1>3, ElementOfSeq
          <5>3. QED
            BY <4>1, <5>1, <5>2, ConcatEmptySeq
        <4>2. CASE i # 1
          <5>1. i - 1 \in 1 .. n
            BY <4>2
          <5>2. h[i - 1] = g[i - 1]
            BY <2>1, <5>1
          <5>3. g[i] = g[i - 1] \o f[i]
            BY <1>1 DEF Joins
          <5>4. QED
            BY <4>2, <5>2, <5>3
        <4>3. QED
          BY <4>1, <4>2
      <3>2. QED
        BY <2>1, <3>1
    <2>3. PICK r : r = (CHOOSE q : q = F(q))
      OBVIOUS
    <2>4. r = F(r)
      <3>1. \E q : q = F(q)
        BY <2>2
      <3>2. (CHOOSE q : q = F(q)) = F(CHOOSE q : q = F(q))
        <4> HIDE DEF F
        <4>1. QED
          BY <3>1
      <3>3. QED
        <4> HIDE DEF F
        <4>1. QED
          BY <2>3, <3>2, Zenon
    <2>5. FlattenSeq(f) = r[n]
      <3>1. n > 0
        BY <1>3
      <3>2. FlattenSeq(f) = (CHOOSE q : q = [i \in 1 .. n |-> IF i = 1 THEN f[i] ELSE q[i - 1] \o f[i]])[n]
        BY <1>1, <3>1 DEF FlattenSeq
      <3>3. (CHOOSE q : q = [i \in 1 .. n |-> IF i = 1 THEN f[i] ELSE q[i - 1] \o f[i]])[n] = r[n]
        BY <2>3
      <3>4. QED
        BY <3>2, <3>3, Zenon
    <2> DEFINE T == {k \in Nat : k \in 1 .. n /\ r[k] # g[k]}
    <2>6. SUFFICES ASSUME T # {} PROVE FALSE
      <3>1. n \in 1 .. n
        BY <1>3
      <3>2. T = {} => r[n] = g[n]
        BY <3>1
      <3>3. QED
        BY <1>1, <2>5, <3>2, Zenon
    <2>7. T \in SUBSET Nat
      OBVIOUS
    <2>8. PICK k \in T : \A y \in T : k <= y
      BY <2>6, <2>7, LeastOf
    <2>9. k \in 1 .. n /\ r[k] # g[k]
      BY <2>8
    <2>10. k # 1
      <3>1. 1 \in 1 .. n
        BY <1>3
      <3>2. r[1] = f[1] /\ g[1] = h[1] /\ h[1] = f[1]
        BY <2>1, <2>2, <2>4, <3>1
      <3>3. QED
        BY <2>9, <3>2
    <2>11. k - 1 \in 1 .. n /\ k - 1 \in Nat /\ ~(k <= k - 1)
      BY <2>9, <2>10
    <2>12. r[k - 1] = g[k - 1]
      BY <2>8, <2>11
    <2>13. r[k] = r[k - 1] \o f[k]
      BY <2>4, <2>9, <2>10
    <2>14. g[k] = g[k - 1] \o f[k]
      BY <1>1, <2>9 DEF Joins
    <2>15. QED
      BY <2>9, <2>12, <2>13, <2>14
  <1>4. QED
    BY <1>2, <1>3

\* One more at the end of what is joined.
LEMMA JoinsMore ==
    ASSUME NEW S, NEW f \in Seq(Seq(S)), NEW x \in Seq(S), NEW g, Joins(S, f, g)
    PROVE  \E h : Joins(S, Append(f, x), h) /\ h[Len(Append(f, x))] = g[Len(f)] \o x
  <1>1. PICK n \in Nat : n = Len(f)
    BY LenProperties
  <1>2. PICK F : F = Append(f, x)
    OBVIOUS
  <1>3. F \in Seq(Seq(S)) /\ Len(F) = n + 1 /\ (\A i \in 1 .. n : F[i] = f[i]) /\ F[n + 1] = x
    BY <1>1, <1>2, AppendProperties
  <1>4. g \in [0 .. n -> Seq(S)] /\ g[0] = <<>> /\ \A k \in 1 .. n : g[k] = g[k - 1] \o f[k]
    BY <1>1 DEF Joins
  <1>5. PICK last \in Seq(S) : last = g[n] \o x
    <2>1. g[n] \in Seq(S)
      BY <1>4
    <2>2. QED
      BY <2>1, ConcatProperties
  <1>6. PICK h : h = [k \in 0 .. (n + 1) |-> IF k = n + 1 THEN last ELSE g[k]]
    OBVIOUS
  <1>7. h \in [0 .. (n + 1) -> Seq(S)] /\ h[n + 1] = last /\ \A k \in 0 .. n : h[k] = g[k]
    BY <1>4, <1>6
  <1>8. ASSUME NEW k \in 1 .. (n + 1) PROVE h[k] = h[k - 1] \o F[k]
    <2>1. CASE k = n + 1
      <3>1. k - 1 = n /\ n \in 0 .. n
        BY <2>1
      <3>2. QED
        BY <1>3, <1>5, <1>7, <2>1, <3>1
    <2>2. CASE k # n + 1
      <3>1. k \in 1 .. n /\ k \in 0 .. n /\ k - 1 \in 0 .. n
        BY <2>2
      <3>2. QED
        BY <1>3, <1>4, <1>7, <3>1
    <2>3. QED
      BY <2>1, <2>2
  <1>9. h[0] = <<>>
    <2>1. 0 \in 0 .. n
      OBVIOUS
    <2>2. QED
      BY <1>4, <1>7, <2>1
  <1>10. Joins(S, F, h)
    BY <1>3, <1>7, <1>8, <1>9 DEF Joins
  <1>11. QED
    BY <1>1, <1>2, <1>3, <1>5, <1>7, <1>10

LEMMA JoinsExist ==
    ASSUME NEW S, NEW f \in Seq(Seq(S))
    PROVE  \E g : Joins(S, f, g)
  <1> DEFINE A == {s \in Seq(Seq(S)) : \E g : Joins(S, s, g)}
  <1>1. <<>> \in A
    <2>1. <<>> \in Seq(Seq(S)) /\ Len(<<>>) = 0 /\ <<>> \in Seq(S)
      BY EmptySeq
    <2>2. PICK g : g = [k \in 0 .. 0 |-> <<>>]
      OBVIOUS
    <2>3. Joins(S, <<>>, g)
      BY <2>1, <2>2 DEF Joins
    <2>4. QED
      BY <2>1, <2>3
  <1>2. ASSUME NEW s \in Seq(Seq(S)), NEW x \in Seq(S), s \in A PROVE Append(s, x) \in A
    <2>1. PICK g : Joins(S, s, g)
      BY <1>2
    <2>2. Append(s, x) \in Seq(Seq(S))
      BY AppendProperties
    <2>3. QED
      BY <2>1, <2>2, JoinsMore
  <1>3. A = Seq(Seq(S))
    <2>1. A \in SUBSET Seq(Seq(S))
      OBVIOUS
    <2> HIDE DEF A
    <2>2. QED
      BY <1>1, <1>2, <2>1, BySequences
  <1>4. QED
    BY <1>3

LEMMA Flatten ==
    ASSUME NEW S
    PROVE  /\ FlattenSeq(<<>>) = <<>>
           /\ \A f \in Seq(Seq(S)) : FlattenSeq(f) \in Seq(S)
           /\ \A f \in Seq(Seq(S)), x \in Seq(S) : FlattenSeq(Append(f, x)) = FlattenSeq(f) \o x
  <1>1. FlattenSeq(<<>>) = <<>>
    <2>1. Len(<<>>) = 0
      BY EmptySeq
    <2>2. QED
      BY <2>1 DEF FlattenSeq
  <1>2. ASSUME NEW f \in Seq(Seq(S)) PROVE FlattenSeq(f) \in Seq(S)
    <2>1. PICK g : Joins(S, f, g)
      BY JoinsExist
    <2>2. Len(f) \in 0 .. Len(f)
      BY LenProperties
    <2>3. QED
      BY <2>1, <2>2, FlattenIs DEF Joins
  <1>3. ASSUME NEW f \in Seq(Seq(S)), NEW x \in Seq(S)
        PROVE  FlattenSeq(Append(f, x)) = FlattenSeq(f) \o x
    <2>1. PICK g : Joins(S, f, g)
      BY JoinsExist
    <2>2. PICK h : Joins(S, Append(f, x), h) /\ h[Len(Append(f, x))] = g[Len(f)] \o x
      BY <2>1, JoinsMore
    <2>3. Append(f, x) \in Seq(Seq(S))
      BY AppendProperties
    <2>4. QED
      BY <2>1, <2>2, <2>3, FlattenIs
  <1>4. QED
    BY <1>1, <1>2, <1>3

\* What a function makes of a sequence, element by element.
LEMMA MapMore ==
    ASSUME NEW S, NEW V, NEW M \in [S -> V], NEW s \in Seq(S), NEW x \in S
    PROVE  /\ [i \in DOMAIN s |-> M[s[i]]] \in Seq(V)
           /\ [i \in DOMAIN Append(s, x) |-> M[Append(s, x)[i]]]
                = Append([i \in DOMAIN s |-> M[s[i]]], M[x])
  <1>1. PICK n \in Nat : n = Len(s) /\ DOMAIN s = 1 .. n
    BY LenProperties
  <1>2. PICK t : t = Append(s, x)
    OBVIOUS
  <1>3. t \in Seq(S) /\ Len(t) = n + 1 /\ (\A i \in 1 .. n : t[i] = s[i]) /\ t[n + 1] = x
        /\ DOMAIN t = 1 .. (n + 1)
    BY <1>1, <1>2, AppendProperties, LenProperties
  <1>4. \A i \in 1 .. n : s[i] \in S
    BY <1>1, ElementOfSeq
  <1>5. PICK u : u = [i \in DOMAIN s |-> M[s[i]]]
    OBVIOUS
  <1>6. u \in Seq(V) /\ Len(u) = n /\ \A i \in 1 .. n : u[i] = M[s[i]]
    <2>1. u \in [1 .. n -> V] /\ \A i \in 1 .. n : u[i] = M[s[i]]
      BY <1>1, <1>4, <1>5
    <2>2. u \in Seq(V) /\ Len(u) = n
      BY <2>1
    <2>3. QED
      BY <2>1, <2>2
  <1>7. PICK v : v = [i \in DOMAIN t |-> M[t[i]]]
    OBVIOUS
  <1>8. v \in Seq(V) /\ Len(v) = n + 1 /\ \A i \in 1 .. (n + 1) : v[i] = M[t[i]]
    <2>1. \A i \in 1 .. (n + 1) : t[i] \in S
      BY <1>3, ElementOfSeq
    <2>2. v \in [1 .. (n + 1) -> V] /\ \A i \in 1 .. (n + 1) : v[i] = M[t[i]]
      BY <1>3, <1>7, <2>1
    <2>3. v \in Seq(V) /\ Len(v) = n + 1
      BY <2>2
    <2>4. QED
      BY <2>2, <2>3
  <1>9. PICK w : w = Append(u, M[x])
    OBVIOUS
  <1>10. w \in Seq(V) /\ Len(w) = n + 1 /\ (\A i \in 1 .. n : w[i] = u[i]) /\ w[n + 1] = M[x]
    BY <1>6, <1>9, AppendProperties
  <1>11. ASSUME NEW i \in 1 .. (n + 1) PROVE v[i] = w[i]
    <2>1. CASE i = n + 1
      BY <1>3, <1>8, <1>10, <2>1
    <2>2. CASE i # n + 1
      <3>1. i \in 1 .. n
        BY <2>2
      <3>2. QED
        BY <1>3, <1>6, <1>8, <1>10, <3>1
    <2>3. QED
      BY <2>1, <2>2
  <1>12. v = w
    BY <1>8, <1>10, <1>11, SeqEqual
  <1>13. QED
    BY <1>2, <1>5, <1>6, <1>7, <1>9, <1>12

-----------------------------------------------------------------------------
(* What is kept of a document: the handlers of the user, in their order.      *)

ForeignPart == [x \in HookHandlers |-> IF Ours(x) THEN <<>> ELSE <<x>>]

LEMMA ForeignMore ==
    /\ Foreign(<<>>) = <<>>
    /\ \A s \in Seq(HookHandlers) : Foreign(s) \in Seq(HookHandlers)
    /\ \A s \in Seq(HookHandlers), x \in HookHandlers :
          Foreign(Append(s, x)) = Foreign(s) \o (IF Ours(x) THEN <<>> ELSE <<x>>)
  <1>1. PICK M : M = ForeignPart
    OBVIOUS
  <1>2. M \in [HookHandlers -> Seq(HookHandlers)]
        /\ \A x \in HookHandlers : M[x] = IF Ours(x) THEN <<>> ELSE <<x>>
    <2>1. \A x \in HookHandlers : <<x>> \in Seq(HookHandlers) /\ <<>> \in Seq(HookHandlers)
      BY EmptySeq
    <2>2. QED
      BY <1>1, <2>1 DEF ForeignPart
  <1>3. ASSUME NEW s \in Seq(HookHandlers)
        PROVE  Foreign(s) = FlattenSeq([i \in DOMAIN s |-> M[s[i]]])
    <2>1. \A i \in DOMAIN s : s[i] \in HookHandlers
      BY LenProperties
    <2>2. [i \in DOMAIN s |-> M[s[i]]] = [i \in DOMAIN s |-> IF Ours(s[i]) THEN <<>> ELSE <<s[i]>>]
      BY <1>2, <2>1
    <2>3. QED
      BY <2>2 DEF Foreign
  <1>4. Foreign(<<>>) = <<>>
    <2>1. FlattenSeq(<<>>) = <<>>
      BY Flatten
    <2>2. [j \in DOMAIN <<>> |-> IF Ours(<<>>[j]) THEN <<>> ELSE << <<>>[j] >>] = <<>>
      OBVIOUS
    <2>3. QED
      BY <2>1, <2>2 DEF Foreign
  <1>5. ASSUME NEW s \in Seq(HookHandlers) PROVE Foreign(s) \in Seq(HookHandlers)
    <2>1. PICK f : f = [i \in DOMAIN s |-> M[s[i]]]
      OBVIOUS
    <2>2. f \in Seq(Seq(HookHandlers))
      <3>1. PICK x \in HookHandlers : TRUE
        BY AdapterAssumption DEF Events
      <3>2. PICK V : V = Seq(HookHandlers)
        OBVIOUS
      <3>3. M \in [HookHandlers -> V]
        BY <1>2, <3>2
      <3>4. f \in Seq(V)
        BY <2>1, <3>1, <3>3, MapMore
      <3>5. QED
        BY <3>2, <3>4
    <2>3. QED
      BY <1>3, <2>1, <2>2, Flatten
  <1>6. ASSUME NEW s \in Seq(HookHandlers), NEW x \in HookHandlers
        PROVE  Foreign(Append(s, x)) = Foreign(s) \o (IF Ours(x) THEN <<>> ELSE <<x>>)
    <2>1. PICK f : f = [i \in DOMAIN s |-> M[s[i]]]
      OBVIOUS
    <2>2. PICK t : t = Append(s, x)
      OBVIOUS
    <2>3. t \in Seq(HookHandlers)
      BY <2>2, AppendProperties
    <2>4. f \in Seq(Seq(HookHandlers)) /\ [i \in DOMAIN t |-> M[t[i]]] = Append(f, M[x])
      <3>1. PICK V : V = Seq(HookHandlers)
        OBVIOUS
      <3>2. M \in [HookHandlers -> V]
        BY <1>2, <3>1
      <3>3. f \in Seq(V) /\ [i \in DOMAIN Append(s, x) |-> M[Append(s, x)[i]]] = Append(f, M[x])
        BY <2>1, <3>2, MapMore
      <3>4. QED
        BY <2>2, <3>1, <3>3
    <2>5. M[x] \in Seq(HookHandlers)
      BY <1>2
    <2>6. FlattenSeq(Append(f, M[x])) = FlattenSeq(f) \o M[x]
      BY <2>4, <2>5, Flatten
    <2>7. Foreign(t) = FlattenSeq(f) \o M[x] /\ Foreign(s) = FlattenSeq(f)
      BY <1>3, <2>1, <2>3, <2>4, <2>6
    <2>8. QED
      BY <1>2, <2>2, <2>7
  <1>7. QED
    BY <1>4, <1>5, <1>6

LEMMA ForeignAgain ==
    ASSUME NEW s \in Seq(HookHandlers)
    PROVE  Foreign(Foreign(s)) = Foreign(s)
  <1> DEFINE A == {t \in Seq(HookHandlers) : Foreign(Foreign(t)) = Foreign(t)}
  <1>1. <<>> \in A
    BY ForeignMore, EmptySeq
  <1>2. ASSUME NEW t \in Seq(HookHandlers), NEW x \in HookHandlers, t \in A PROVE Append(t, x) \in A
    <2>1. PICK u \in Seq(HookHandlers) : u = Foreign(t)
      BY ForeignMore
    <2>2. Foreign(u) = u
      BY <1>2, <2>1
    <2>3. Append(t, x) \in Seq(HookHandlers)
      BY AppendProperties
    <2>4. Foreign(Append(t, x)) = u \o (IF Ours(x) THEN <<>> ELSE <<x>>)
      BY <2>1, ForeignMore
    <2>5. CASE Ours(x)
      <3>1. Foreign(Append(t, x)) = u
        BY <2>4, <2>5, ConcatEmptySeq
      <3>2. QED
        BY <2>2, <2>3, <3>1
    <2>6. CASE ~Ours(x)
      <3>1. Foreign(Append(t, x)) = u \o <<x>> /\ u \o <<x>> = Append(u, x)
        BY <2>4, <2>6, AppendIsConcat
      <3>2. Foreign(Append(u, x)) = u \o <<x>>
        BY <2>2, <2>6, ForeignMore
      <3>3. QED
        BY <2>3, <3>1, <3>2
    <2>7. QED
      BY <2>5, <2>6
  <1>3. A \in SUBSET Seq(HookHandlers)
    OBVIOUS
  <1>4. A = Seq(HookHandlers)
    <2> HIDE DEF A
    <2>1. QED
      BY <1>1, <1>2, <1>3, BySequences
  <1>5. QED
    BY <1>4

LEMMA StrippedIs ==
    ASSUME NEW g \in HookGroups
    PROVE  /\ g.hooks \in Seq(HookHandlers) /\ Stripped(g) \in HookGroups
           /\ Stripped(g).hooks = Foreign(g.hooks)
  <1>1. g.hooks \in Seq(HookHandlers)
    BY DEF HookGroups
  <1>2. PICK f \in Seq(HookHandlers) : f = Foreign(g.hooks)
    BY <1>1, ForeignMore
  <1>3. Stripped(g) = [g EXCEPT !.hooks = f]
    BY <1>2 DEF Stripped
  <1>4. QED
    BY <1>1, <1>2, <1>3 DEF HookGroups

UserPart == [g \in HookGroups |-> Foreign(g.hooks)]

LEMMA UsersMore ==
    /\ UsersOf(<<>>) = <<>>
    /\ \A s \in Seq(HookGroups) : UsersOf(s) \in Seq(HookHandlers)
    /\ \A s \in Seq(HookGroups), x \in HookGroups :
          UsersOf(Append(s, x)) = UsersOf(s) \o Foreign(x.hooks)
  <1>1. PICK M : M = UserPart
    OBVIOUS
  <1>2. M \in [HookGroups -> Seq(HookHandlers)] /\ \A x \in HookGroups : M[x] = Foreign(x.hooks)
    <2>1. \A x \in HookGroups : Foreign(x.hooks) \in Seq(HookHandlers)
      BY ForeignMore, StrippedIs
    <2>2. QED
      BY <1>1, <2>1 DEF UserPart
  <1>3. ASSUME NEW s \in Seq(HookGroups)
        PROVE  UsersOf(s) = FlattenSeq([i \in DOMAIN s |-> M[s[i]]])
    <2>1. \A i \in DOMAIN s : s[i] \in HookGroups
      BY LenProperties
    <2>2. [i \in DOMAIN s |-> M[s[i]]] = [i \in DOMAIN s |-> Foreign(s[i].hooks)]
      BY <1>2, <2>1
    <2>3. QED
      BY <2>2 DEF UsersOf
  <1>4. UsersOf(<<>>) = <<>>
    <2>1. FlattenSeq(<<>>) = <<>>
      BY Flatten
    <2>2. [j \in DOMAIN <<>> |-> Foreign(<<>>[j].hooks)] = <<>>
      OBVIOUS
    <2>3. QED
      BY <2>1, <2>2 DEF UsersOf
  <1>5. ASSUME NEW s \in Seq(HookGroups), NEW x \in HookGroups
        PROVE  UsersOf(Append(s, x)) = UsersOf(s) \o Foreign(x.hooks) /\ UsersOf(s) \in Seq(HookHandlers)
    <2>1. PICK f : f = [i \in DOMAIN s |-> M[s[i]]]
      OBVIOUS
    <2>2. PICK t : t = Append(s, x)
      OBVIOUS
    <2>3. t \in Seq(HookGroups)
      BY <2>2, AppendProperties
    <2>4. f \in Seq(Seq(HookHandlers)) /\ [i \in DOMAIN t |-> M[t[i]]] = Append(f, M[x])
      <3>1. PICK V : V = Seq(HookHandlers)
        OBVIOUS
      <3>2. M \in [HookGroups -> V]
        BY <1>2, <3>1
      <3>3. f \in Seq(V) /\ [i \in DOMAIN Append(s, x) |-> M[Append(s, x)[i]]] = Append(f, M[x])
        BY <2>1, <3>2, MapMore
      <3>4. QED
        BY <2>2, <3>1, <3>3
    <2>5. M[x] \in Seq(HookHandlers)
      BY <1>2
    <2>6. FlattenSeq(Append(f, M[x])) = FlattenSeq(f) \o M[x] /\ FlattenSeq(f) \in Seq(HookHandlers)
      BY <2>4, <2>5, Flatten
    <2>7. UsersOf(t) = FlattenSeq(f) \o M[x] /\ UsersOf(s) = FlattenSeq(f)
      BY <1>3, <2>1, <2>3, <2>4, <2>6
    <2>8. QED
      BY <1>2, <2>2, <2>6, <2>7
  <1>6. PICK x \in HookGroups : TRUE
    <2>1. [meta |-> FALSE, hooks |-> <<>>] \in HookGroups
      BY EmptySeq DEF HookGroups
    <2>2. QED
      BY <2>1
  <1>7. QED
    BY <1>4, <1>5, <1>6

KeptPart(e) ==
    [g \in HookGroups |-> IF Generated(e, g) /\ EmptiedBy(g) THEN <<>> ELSE <<Stripped(g)>>]

LEMMA KeptMore ==
    ASSUME NEW e
    PROVE  /\ KeptGroups(e, <<>>) = <<>>
           /\ \A s \in Seq(HookGroups) : KeptGroups(e, s) \in Seq(HookGroups)
           /\ \A s \in Seq(HookGroups), x \in HookGroups :
                 KeptGroups(e, Append(s, x))
                   = KeptGroups(e, s) \o (IF Generated(e, x) /\ EmptiedBy(x) THEN <<>> ELSE <<Stripped(x)>>)
  <1>1. PICK M : M = KeptPart(e)
    OBVIOUS
  <1>2. M \in [HookGroups -> Seq(HookGroups)]
        /\ \A x \in HookGroups : M[x] = IF Generated(e, x) /\ EmptiedBy(x) THEN <<>> ELSE <<Stripped(x)>>
    <2>1. \A x \in HookGroups : <<Stripped(x)>> \in Seq(HookGroups) /\ <<>> \in Seq(HookGroups)
      <3>1. \A x \in HookGroups : Stripped(x) \in HookGroups
        BY StrippedIs
      <3>2. QED
        BY <3>1, EmptySeq
    <2>2. QED
      BY <1>1, <2>1 DEF KeptPart
  <1>3. ASSUME NEW s \in Seq(HookGroups)
        PROVE  KeptGroups(e, s) = FlattenSeq([i \in DOMAIN s |-> M[s[i]]])
    <2>1. \A i \in DOMAIN s : s[i] \in HookGroups
      BY LenProperties
    <2>2. [i \in DOMAIN s |-> M[s[i]]]
            = [i \in DOMAIN s |-> IF Generated(e, s[i]) /\ EmptiedBy(s[i]) THEN <<>> ELSE <<Stripped(s[i])>>]
      BY <1>2, <2>1
    <2>3. QED
      BY <2>2 DEF KeptGroups
  <1>4. KeptGroups(e, <<>>) = <<>>
    <2>1. FlattenSeq(<<>>) = <<>>
      BY Flatten
    <2>2. [j \in DOMAIN <<>> |-> IF Generated(e, <<>>[j]) /\ EmptiedBy(<<>>[j]) THEN <<>>
                                 ELSE <<Stripped(<<>>[j])>>] = <<>>
      OBVIOUS
    <2>3. QED
      BY <2>1, <2>2 DEF KeptGroups
  <1>5. ASSUME NEW s \in Seq(HookGroups), NEW x \in HookGroups
        PROVE  /\ KeptGroups(e, Append(s, x)) = KeptGroups(e, s) \o M[x]
               /\ KeptGroups(e, s) \in Seq(HookGroups)
    <2>1. PICK f : f = [i \in DOMAIN s |-> M[s[i]]]
      OBVIOUS
    <2>2. PICK t : t = Append(s, x)
      OBVIOUS
    <2>3. t \in Seq(HookGroups)
      BY <2>2, AppendProperties
    <2>4. f \in Seq(Seq(HookGroups)) /\ [i \in DOMAIN t |-> M[t[i]]] = Append(f, M[x])
      <3>1. PICK V : V = Seq(HookGroups)
        OBVIOUS
      <3>2. M \in [HookGroups -> V]
        BY <1>2, <3>1
      <3>3. f \in Seq(V) /\ [i \in DOMAIN Append(s, x) |-> M[Append(s, x)[i]]] = Append(f, M[x])
        BY <2>1, <3>2, MapMore
      <3>4. QED
        BY <2>2, <3>1, <3>3
    <2>5. M[x] \in Seq(HookGroups)
      BY <1>2
    <2>6. FlattenSeq(Append(f, M[x])) = FlattenSeq(f) \o M[x] /\ FlattenSeq(f) \in Seq(HookGroups)
      BY <2>4, <2>5, Flatten
    <2>7. KeptGroups(e, t) = FlattenSeq(f) \o M[x] /\ KeptGroups(e, s) = FlattenSeq(f)
      BY <1>3, <2>1, <2>3, <2>4, <2>6
    <2>8. QED
      BY <2>2, <2>6, <2>7
  <1>6. PICK x \in HookGroups : TRUE
    <2>1. [meta |-> FALSE, hooks |-> <<>>] \in HookGroups
      BY EmptySeq DEF HookGroups
    <2>2. QED
      BY <2>1
  <1>7. ASSUME NEW s \in Seq(HookGroups), NEW y \in HookGroups
        PROVE  KeptGroups(e, Append(s, y))
                 = KeptGroups(e, s) \o (IF Generated(e, y) /\ EmptiedBy(y) THEN <<>> ELSE <<Stripped(y)>>)
    BY <1>2, <1>5
  <1>8. QED
    BY <1>4, <1>5, <1>6, <1>7

\* Taking our handlers away leaves those of the user as they are.
LEMMA KeptUsers ==
    ASSUME NEW e, NEW s \in Seq(HookGroups)
    PROVE  UsersOf(KeptGroups(e, s)) = UsersOf(s)
  <1> DEFINE A == {t \in Seq(HookGroups) : UsersOf(KeptGroups(e, t)) = UsersOf(t)}
  <1>1. <<>> \in A
    BY KeptMore, UsersMore, EmptySeq
  <1>2. ASSUME NEW t \in Seq(HookGroups), NEW x \in HookGroups, t \in A PROVE Append(t, x) \in A
    <2>1. PICK k \in Seq(HookGroups) : k = KeptGroups(e, t)
      BY KeptMore
    <2>2. PICK u \in Seq(HookHandlers) : u = UsersOf(t)
      BY UsersMore
    <2>3. UsersOf(k) = u
      BY <1>2, <2>1, <2>2
    <2>4. UsersOf(Append(t, x)) = u \o Foreign(x.hooks)
      BY <2>2, UsersMore
    <2>5. PICK y \in HookGroups : y = Stripped(x)
      BY StrippedIs
    <2>6. y.hooks = Foreign(x.hooks)
      BY <2>5, StrippedIs
    <2>7. Append(t, x) \in Seq(HookGroups)
      BY AppendProperties
    <2>8. CASE Generated(e, x) /\ EmptiedBy(x)
      <3>1. KeptGroups(e, Append(t, x)) = k \o <<>>
        BY <2>1, <2>8, KeptMore
      <3>2. KeptGroups(e, Append(t, x)) = k
        BY <3>1, ConcatEmptySeq
      <3>3. Foreign(x.hooks) = <<>>
        BY <2>5, <2>6, <2>8 DEF EmptiedBy
      <3>4. u \o <<>> = u
        BY ConcatEmptySeq
      <3>5. QED
        BY <2>3, <2>4, <2>7, <3>2, <3>3, <3>4
    <2>9. CASE ~(Generated(e, x) /\ EmptiedBy(x))
      <3>1. KeptGroups(e, Append(t, x)) = k \o <<y>>
        BY <2>1, <2>5, <2>9, KeptMore
      <3>2. k \o <<y>> = Append(k, y)
        BY AppendIsConcat
      <3>3. UsersOf(Append(k, y)) = u \o Foreign(y.hooks)
        BY <2>3, UsersMore
      <3>4. Foreign(y.hooks) = Foreign(x.hooks)
        BY <2>6, StrippedIs, ForeignAgain
      <3>5. QED
        BY <2>4, <2>7, <3>1, <3>2, <3>3, <3>4
    <2>10. QED
      BY <2>8, <2>9
  <1>3. A \in SUBSET Seq(HookGroups)
    OBVIOUS
  <1>4. A = Seq(HookGroups)
    <2> HIDE DEF A
    <2>1. QED
      BY <1>1, <1>2, <1>3, BySequences
  <1>5. QED
    BY <1>4

-----------------------------------------------------------------------------
(* The documents a plan makes.                                                *)

Documented(d) == \E D \in SUBSET HostEvents : d \in HookDocuments(D)

LEMMA RemoveKeeps ==
    ASSUME NEW d, Documented(d)
    PROVE  Documented(RemoveOwned(d)) /\ Users(RemoveOwned(d)) = Users(d)
  <1>1. PICK D \in SUBSET HostEvents : d \in [D -> Seq(HookGroups)]
    BY DEF Documented, HookDocuments
  <1>2. PICK r : r = RemoveOwned(d)
    OBVIOUS
  <1>3. PICK K : /\ K \in SUBSET D /\ r = [e \in K |-> KeptGroups(e, d[e])]
                 /\ \A e \in D \ K : KeptGroups(e, d[e]) = <<>>
    BY <1>1, <1>2 DEF RemoveOwned
  <1>4. \A e \in D : d[e] \in Seq(HookGroups) /\ KeptGroups(e, d[e]) \in Seq(HookGroups)
                     /\ UsersOf(KeptGroups(e, d[e])) = UsersOf(d[e])
    BY <1>1, KeptMore, KeptUsers
  <1>5. r \in [K -> Seq(HookGroups)] /\ \A e \in K : UsersOf(r[e]) = UsersOf(d[e])
    BY <1>3, <1>4
  <1>6. \A e \in D \ K : UsersOf(d[e]) = <<>>
    <2>1. UsersOf(<<>>) = <<>>
      BY UsersMore
    <2>2. QED
      BY <1>3, <1>4, <2>1
  <1>7. {e \in DOMAIN r : UsersOf(r[e]) # <<>>} = {e \in DOMAIN d : UsersOf(d[e]) # <<>>}
    BY <1>1, <1>3, <1>5, <1>6
  <1>8. Users(r) = Users(d)
    <2>1. PICK E : E = {e \in DOMAIN r : UsersOf(r[e]) # <<>>}
      OBVIOUS
    <2>2. \A e \in E : UsersOf(r[e]) = UsersOf(d[e])
      BY <1>5, <2>1
    <2>3. Users(r) = [e \in E |-> UsersOf(r[e])] /\ Users(d) = [e \in E |-> UsersOf(d[e])]
      BY <1>7, <2>1 DEF Users
    <2>4. QED
      BY <2>2, <2>3
  <1>9. K \in SUBSET HostEvents
    BY <1>1, <1>3
  <1>10. QED
    BY <1>2, <1>5, <1>8, <1>9 DEF Documented, HookDocuments

LEMMA AppendedKeeps ==
    ASSUME NEW d, Documented(d)
    PROVE  Documented(Appended(d)) /\ Users(Appended(d)) = Users(d)
  <1>1. PICK D \in SUBSET HostEvents : d \in [D -> Seq(HookGroups)]
    BY DEF Documented, HookDocuments
  <1>2. PICK a : a = Appended(d)
    OBVIOUS
  <1>3. ASSUME NEW e \in Events
        PROVE  ExpectedGroup(e) \in HookGroups /\ Foreign(ExpectedGroup(e).hooks) = <<>>
    <2>1. PICK x : x = ExpectedHandler(e)
      OBVIOUS
    <2>2. x \in HookHandlers /\ Ours(x)
      BY <2>1, AdapterAssumption DEF ExpectedHandler, Ours
    <2>3. <<x>> = Append(<<>>, x) /\ <<>> \in Seq(HookHandlers)
      BY EmptySeq
    <2>4. <<x>> \in Seq(HookHandlers)
      BY <2>2
    <2>5. Foreign(Append(<<>>, x)) = Foreign(<<>>) \o <<>> /\ Foreign(<<>>) = <<>>
      BY <2>2, <2>3, ForeignMore
    <2>6. <<>> \o <<>> = <<>>
      BY <2>3, ConcatEmptySeq
    <2>7. Foreign(<<x>>) = <<>>
      BY <2>3, <2>5, <2>6
    <2>8. ExpectedGroup(e) = [meta |-> FALSE, hooks |-> <<x>>]
      BY <2>1 DEF ExpectedGroup
    <2>9. QED
      BY <2>4, <2>7, <2>8 DEF HookGroups
  <1>4. PICK old : /\ old \in [D \cup Events -> Seq(HookGroups)]
                   /\ \A e \in D \cup Events : old[e] = IF e \in D THEN d[e] ELSE <<>>
    <2>1. <<>> \in Seq(HookGroups)
      BY EmptySeq
    <2>2. PICK o : o = [e \in D \cup Events |-> IF e \in D THEN d[e] ELSE <<>>]
      OBVIOUS
    <2>3. o \in [D \cup Events -> Seq(HookGroups)]
          /\ \A e \in D \cup Events : o[e] = IF e \in D THEN d[e] ELSE <<>>
      BY <1>1, <2>1, <2>2
    <2>4. QED
      BY <2>3
  <1>5. a = [e \in D \cup Events |-> old[e] \o (IF e \in Events THEN <<ExpectedGroup(e)>> ELSE <<>>)]
    <2>1. DOMAIN d = D
      BY <1>1
    <2>2. \A e \in D \cup Events : (IF e \in DOMAIN d THEN d[e] ELSE <<>>) = old[e]
      BY <1>4, <2>1
    <2>3. QED
      BY <1>2, <2>1, <2>2 DEF Appended
  <1>6. ASSUME NEW e \in D \cup Events
        PROVE  a[e] \in Seq(HookGroups) /\ UsersOf(a[e]) = UsersOf(old[e])
    <2>1. PICK s \in Seq(HookGroups) : s = old[e]
      BY <1>4
    <2>2. CASE e \in Events
      <3>1. PICK g \in HookGroups : g = ExpectedGroup(e) /\ Foreign(g.hooks) = <<>>
        BY <1>3, <2>2
      <3>2. a[e] = s \o <<g>> /\ s \o <<g>> = Append(s, g)
        BY <1>5, <2>1, <2>2, <3>1, AppendIsConcat
      <3>3. a[e] \in Seq(HookGroups)
        BY <3>2, AppendProperties
      <3>4. UsersOf(a[e]) = UsersOf(s) \o <<>>
        BY <3>1, <3>2, UsersMore
      <3>5. UsersOf(s) \in Seq(HookHandlers)
        BY UsersMore
      <3>6. UsersOf(s) \o <<>> = UsersOf(s)
        BY <3>5, ConcatEmptySeq
      <3>7. QED
        BY <2>1, <3>3, <3>4, <3>6
    <2>3. CASE e \notin Events
      <3>1. a[e] = s \o <<>> /\ s \o <<>> = s
        BY <1>5, <2>1, <2>3, ConcatEmptySeq
      <3>2. QED
        BY <2>1, <3>1
    <2>4. QED
      BY <2>2, <2>3
  <1>7. \A e \in D : UsersOf(a[e]) = UsersOf(d[e])
    BY <1>4, <1>6
  <1>8. \A e \in Events \ D : UsersOf(a[e]) = <<>>
    <2>1. UsersOf(<<>>) = <<>>
      BY UsersMore
    <2>2. QED
      BY <1>4, <1>6, <2>1
  <1>9. DOMAIN a = D \cup Events /\ DOMAIN d = D
    BY <1>1, <1>5
  <1>10. {e \in DOMAIN a : UsersOf(a[e]) # <<>>} = {e \in DOMAIN d : UsersOf(d[e]) # <<>>}
    BY <1>7, <1>8, <1>9
  <1>11. Users(a) = Users(d)
    <2>1. PICK E : E = {e \in DOMAIN d : UsersOf(d[e]) # <<>>}
      OBVIOUS
    <2>2. \A e \in E : UsersOf(a[e]) = UsersOf(d[e])
      BY <1>7, <1>9, <2>1
    <2>3. Users(a) = [e \in E |-> UsersOf(a[e])] /\ Users(d) = [e \in E |-> UsersOf(d[e])]
      BY <1>10, <2>1 DEF Users
    <2>4. QED
      BY <2>2, <2>3
  <1>12. D \cup Events \in SUBSET HostEvents
    BY <1>1 DEF HostEvents
  <1>13. a \in [D \cup Events -> Seq(HookGroups)]
    BY <1>5, <1>6
  <1>14. QED
    BY <1>2, <1>11, <1>12, <1>13 DEF Documented, HookDocuments

\* No plan touches what is the user's.
LEMMA DesiredKeeps ==
    ASSUME NEW action, NEW d
    PROVE  /\ Documented(d) \/ d = Nothing => Documented(DesiredNative(action, d))
           /\ Documented(d) => Users(DesiredNative(action, d)) = Users(d)
  <1>1. PICK old : old = IF d = Nothing THEN Empty ELSE d
    OBVIOUS
  <1>2. DesiredNative(action, d) = IF action = "uninstall" THEN RemoveOwned(old)
                                   ELSE IF Configured(old) THEN old ELSE Appended(RemoveOwned(old))
    BY <1>1 DEF DesiredNative
  <1>3. Documented(Empty)
    <2>1. Empty \in HookDocuments({})
      BY DEF Empty, HookDocuments
    <2>2. QED
      BY <2>1 DEF Documented
  <1>4. ASSUME Documented(old)
        PROVE  Documented(DesiredNative(action, d)) /\ Users(DesiredNative(action, d)) = Users(old)
    <2>1. Documented(RemoveOwned(old)) /\ Users(RemoveOwned(old)) = Users(old)
      BY <1>4, RemoveKeeps
    <2>2. Documented(Appended(RemoveOwned(old))) /\ Users(Appended(RemoveOwned(old))) = Users(old)
      BY <2>1, AppendedKeeps
    <2>3. QED
      BY <1>2, <1>4, <2>1, <2>2
  <1>5. Documented(d) => d # Nothing
    BY AdapterAssumption DEF Documented
  <1>6. QED
    BY <1>1, <1>3, <1>4, <1>5

-----------------------------------------------------------------------------
(* What a review of a document finds.                                         *)

\* Nothing of ours is left in a group, and a matcher of the user's stays.
NoneOurs(s) == \A i \in DOMAIN s : s[i].hooks \in Seq(HookHandlers) /\ \A j \in DOMAIN s[i].hooks : ~Ours(s[i].hooks[j])

LEMMA ForeignIsForeign ==
    ASSUME NEW s \in Seq(HookHandlers)
    PROVE  \A j \in DOMAIN Foreign(s) : ~Ours(Foreign(s)[j])
  <1> DEFINE A == {t \in Seq(HookHandlers) : \A j \in DOMAIN Foreign(t) : ~Ours(Foreign(t)[j])}
  <1>1. <<>> \in A
    <2>1. Foreign(<<>>) = <<>> /\ DOMAIN <<>> = {}
      BY ForeignMore
    <2>2. QED
      BY <2>1, EmptySeq
  <1>2. ASSUME NEW t \in Seq(HookHandlers), NEW x \in HookHandlers, t \in A PROVE Append(t, x) \in A
    <2>1. PICK u \in Seq(HookHandlers) : u = Foreign(t)
      BY ForeignMore
    <2>2. \A j \in DOMAIN u : ~Ours(u[j])
      BY <1>2, <2>1
    <2>3. Append(t, x) \in Seq(HookHandlers)
      BY AppendProperties
    <2>4. Foreign(Append(t, x)) = u \o (IF Ours(x) THEN <<>> ELSE <<x>>)
      BY <2>1, ForeignMore
    <2>5. CASE Ours(x)
      <3>1. Foreign(Append(t, x)) = u
        BY <2>4, <2>5, ConcatEmptySeq
      <3>2. QED
        BY <2>2, <2>3, <3>1
    <2>6. CASE ~Ours(x)
      <3>1. Foreign(Append(t, x)) = u \o <<x>> /\ u \o <<x>> = Append(u, x)
        BY <2>4, <2>6, AppendIsConcat
      <3>2. \A j \in DOMAIN Append(u, x) : ~Ours(Append(u, x)[j])
        <4>1. PICK n \in Nat : n = Len(u)
          BY LenProperties
        <4>2. PICK v : v = Append(u, x)
          OBVIOUS
        <4>3. DOMAIN v = 1 .. (n + 1) /\ DOMAIN u = 1 .. n /\ v[n + 1] = x /\ \A j \in 1 .. n : v[j] = u[j]
          BY <4>1, <4>2, AppendProperties, LenProperties
        <4>4. ASSUME NEW j \in 1 .. (n + 1) PROVE ~Ours(v[j])
          <5>1. CASE j = n + 1
            BY <2>6, <4>3, <5>1
          <5>2. CASE j # n + 1
            <6>1. j \in 1 .. n
              BY <5>2
            <6>2. QED
              BY <2>2, <4>3, <6>1
          <5>3. QED
            BY <5>1, <5>2
        <4>5. QED
          BY <4>2, <4>3, <4>4
      <3>3. QED
        BY <2>3, <3>1, <3>2
    <2>7. QED
      BY <2>5, <2>6
  <1>3. A \in SUBSET Seq(HookHandlers)
    OBVIOUS
  <1>4. A = Seq(HookHandlers)
    <2> HIDE DEF A
    <2>1. QED
      BY <1>1, <1>2, <1>3, BySequences
  <1>5. QED
    BY <1>4

MatchedPart == [g \in HookGroups |-> IF g.meta THEN <<Stripped(g)>> ELSE <<>>]

LEMMA MatchedMore ==
    /\ Matched(<<>>) = <<>>
    /\ \A s \in Seq(HookGroups) : Matched(s) \in Seq(HookGroups)
    /\ \A s \in Seq(HookGroups), x \in HookGroups :
          Matched(Append(s, x)) = Matched(s) \o (IF x.meta THEN <<Stripped(x)>> ELSE <<>>)
  <1>1. PICK M : M = MatchedPart
    OBVIOUS
  <1>2. M \in [HookGroups -> Seq(HookGroups)]
        /\ \A x \in HookGroups : M[x] = IF x.meta THEN <<Stripped(x)>> ELSE <<>>
    <2>1. \A x \in HookGroups : <<Stripped(x)>> \in Seq(HookGroups) /\ <<>> \in Seq(HookGroups)
      <3>1. \A x \in HookGroups : Stripped(x) \in HookGroups
        BY StrippedIs
      <3>2. QED
        BY <3>1, EmptySeq
    <2>2. QED
      BY <1>1, <2>1 DEF MatchedPart
  <1>3. ASSUME NEW s \in Seq(HookGroups)
        PROVE  Matched(s) = FlattenSeq([i \in DOMAIN s |-> M[s[i]]])
    <2>1. \A i \in DOMAIN s : s[i] \in HookGroups
      BY LenProperties
    <2>2. [i \in DOMAIN s |-> M[s[i]]] = [i \in DOMAIN s |-> IF s[i].meta THEN <<Stripped(s[i])>> ELSE <<>>]
      BY <1>2, <2>1
    <2>3. QED
      BY <2>2 DEF Matched
  <1>4. Matched(<<>>) = <<>>
    <2>1. FlattenSeq(<<>>) = <<>>
      BY Flatten
    <2>2. [j \in DOMAIN <<>> |-> IF <<>>[j].meta THEN <<Stripped(<<>>[j])>> ELSE <<>>] = <<>>
      OBVIOUS
    <2>3. QED
      BY <2>1, <2>2 DEF Matched
  <1>5. ASSUME NEW s \in Seq(HookGroups), NEW x \in HookGroups
        PROVE  /\ Matched(Append(s, x)) = Matched(s) \o M[x]
               /\ Matched(s) \in Seq(HookGroups)
    <2>1. PICK f : f = [i \in DOMAIN s |-> M[s[i]]]
      OBVIOUS
    <2>2. PICK t : t = Append(s, x)
      OBVIOUS
    <2>3. t \in Seq(HookGroups)
      BY <2>2, AppendProperties
    <2>4. f \in Seq(Seq(HookGroups)) /\ [i \in DOMAIN t |-> M[t[i]]] = Append(f, M[x])
      <3>1. PICK V : V = Seq(HookGroups)
        OBVIOUS
      <3>2. M \in [HookGroups -> V]
        BY <1>2, <3>1
      <3>3. f \in Seq(V) /\ [i \in DOMAIN Append(s, x) |-> M[Append(s, x)[i]]] = Append(f, M[x])
        BY <2>1, <3>2, MapMore
      <3>4. QED
        BY <2>2, <3>1, <3>3
    <2>5. M[x] \in Seq(HookGroups)
      BY <1>2
    <2>6. FlattenSeq(Append(f, M[x])) = FlattenSeq(f) \o M[x] /\ FlattenSeq(f) \in Seq(HookGroups)
      BY <2>4, <2>5, Flatten
    <2>7. Matched(t) = FlattenSeq(f) \o M[x] /\ Matched(s) = FlattenSeq(f)
      BY <1>3, <2>1, <2>3, <2>4, <2>6
    <2>8. QED
      BY <2>2, <2>6, <2>7
  <1>6. PICK x \in HookGroups : TRUE
    <2>1. [meta |-> FALSE, hooks |-> <<>>] \in HookGroups
      BY EmptySeq DEF HookGroups
    <2>2. QED
      BY <2>1
  <1>7. ASSUME NEW s \in Seq(HookGroups), NEW y \in HookGroups
        PROVE  Matched(Append(s, y)) = Matched(s) \o (IF y.meta THEN <<Stripped(y)>> ELSE <<>>)
    BY <1>2, <1>5
  <1>8. QED
    BY <1>4, <1>5, <1>6, <1>7

\* We generate no group with a matcher.
LEMMA GeneratedIs ==
    ASSUME NEW e, NEW g \in HookGroups, Generated(e, g)
    PROVE  g.meta = FALSE
  <1>1. PICK h : ExpectedGroup(e) = [meta |-> FALSE, hooks |-> h]
    BY DEF ExpectedGroup
  <1>2. [[meta |-> FALSE, hooks |-> h] EXCEPT !.hooks[1].kind = "old"].meta = FALSE
    OBVIOUS
  <1>3. g = [meta |-> FALSE, hooks |-> h] \/ g = [[meta |-> FALSE, hooks |-> h] EXCEPT !.hooks[1].kind = "old"]
    BY <1>1 DEF Generated
  <1>4. QED
    BY <1>2, <1>3

\* Of the groups that are kept nothing is ours, and those with a matcher are all there.
LEMMA KeptClean ==
    ASSUME NEW e, NEW s \in Seq(HookGroups)
    PROVE  NoneOurs(KeptGroups(e, s)) /\ Matched(KeptGroups(e, s)) = Matched(s)
  <1> DEFINE A == {t \in Seq(HookGroups) :
                      NoneOurs(KeptGroups(e, t)) /\ Matched(KeptGroups(e, t)) = Matched(t)}
  <1>1. <<>> \in A
    <2>1. KeptGroups(e, <<>>) = <<>> /\ DOMAIN <<>> = {}
      BY KeptMore
    <2>2. NoneOurs(<<>>)
      BY <2>1 DEF NoneOurs
    <2>3. QED
      BY <2>1, <2>2, EmptySeq
  <1>2. ASSUME NEW t \in Seq(HookGroups), NEW x \in HookGroups, t \in A PROVE Append(t, x) \in A
    <2>1. PICK k \in Seq(HookGroups) : k = KeptGroups(e, t)
      BY KeptMore
    <2>2. PICK u \in Seq(HookGroups) : u = Matched(t)
      BY MatchedMore
    <2>3. NoneOurs(k) /\ Matched(k) = u
      BY <1>2, <2>1, <2>2
    <2>4. Matched(Append(t, x)) = u \o (IF x.meta THEN <<Stripped(x)>> ELSE <<>>)
      BY <2>2, MatchedMore
    <2>5. PICK y \in HookGroups : y = Stripped(x)
      BY StrippedIs
    <2>6. y.hooks = Foreign(x.hooks) /\ y.meta = x.meta
      <3>1. y.hooks = Foreign(x.hooks)
        BY <2>5, StrippedIs
      <3>2. y.meta = x.meta
        BY <2>5 DEF Stripped, HookGroups
      <3>3. QED
        BY <3>1, <3>2
    <2>7. Append(t, x) \in Seq(HookGroups)
      BY AppendProperties
    <2>8. CASE Generated(e, x) /\ EmptiedBy(x)
      <3>1. KeptGroups(e, Append(t, x)) = k \o <<>>
        BY <2>1, <2>8, KeptMore
      <3>2. KeptGroups(e, Append(t, x)) = k
        BY <3>1, ConcatEmptySeq
      <3>3. x.meta = FALSE
        BY <2>8, GeneratedIs
      <3>4. Matched(Append(t, x)) = u
        BY <2>4, <3>3, ConcatEmptySeq
      <3>5. QED
        BY <2>3, <2>7, <3>2, <3>4
    <2>9. CASE ~(Generated(e, x) /\ EmptiedBy(x))
      <3>1. KeptGroups(e, Append(t, x)) = k \o <<y>>
        BY <2>1, <2>5, <2>9, KeptMore
      <3>2. k \o <<y>> = Append(k, y)
        BY AppendIsConcat
      <3>3. Matched(Append(k, y)) = u \o (IF y.meta THEN <<Stripped(y)>> ELSE <<>>)
        BY <2>3, MatchedMore
      <3>4. Stripped(y) = y
        <4>1. Foreign(y.hooks) = y.hooks
          BY <2>6, StrippedIs, ForeignAgain
        <4>2. y = [meta |-> y.meta, hooks |-> y.hooks]
          BY DEF HookGroups
        <4>3. Stripped(y) = [y EXCEPT !.hooks = y.hooks]
          BY <4>1 DEF Stripped
        <4>4. QED
          BY <4>2, <4>3
      <3>5. Matched(Append(k, y)) = Matched(Append(t, x))
        BY <2>4, <2>5, <2>6, <3>3, <3>4
      <3>6. NoneOurs(Append(k, y))
        <4>1. PICK n \in Nat : n = Len(k)
          BY LenProperties
        <4>2. PICK v : v = Append(k, y)
          OBVIOUS
        <4>3. DOMAIN v = 1 .. (n + 1) /\ DOMAIN k = 1 .. n /\ v[n + 1] = y /\ \A j \in 1 .. n : v[j] = k[j]
          BY <4>1, <4>2, AppendProperties, LenProperties
        <4>4. y.hooks \in Seq(HookHandlers) /\ \A j \in DOMAIN y.hooks : ~Ours(y.hooks[j])
          BY <2>6, StrippedIs, ForeignIsForeign
        <4>5. ASSUME NEW i \in 1 .. (n + 1)
              PROVE  v[i].hooks \in Seq(HookHandlers) /\ \A j \in DOMAIN v[i].hooks : ~Ours(v[i].hooks[j])
          <5>1. CASE i = n + 1
            BY <4>3, <4>4, <5>1
          <5>2. CASE i # n + 1
            <6>1. i \in 1 .. n
              BY <5>2
            <6>2. QED
              BY <2>3, <4>3, <6>1 DEF NoneOurs
          <5>3. QED
            BY <5>1, <5>2
        <4>6. QED
          BY <4>2, <4>3, <4>5 DEF NoneOurs
      <3>7. QED
        BY <2>7, <3>1, <3>2, <3>5, <3>6
    <2>10. QED
      BY <2>8, <2>9
  <1>3. A \in SUBSET Seq(HookGroups)
    OBVIOUS
  <1>4. A = Seq(HookGroups)
    <2> HIDE DEF A
    <2>1. QED
      BY <1>1, <1>2, <1>3, BySequences
  <1>5. QED
    BY <1>4

Clean(d) == \A e \in DOMAIN d : d[e] \in Seq(HookGroups) /\ NoneOurs(d[e])

LEMMA RemoveCleans ==
    ASSUME NEW d, Documented(d)
    PROVE  /\ Clean(RemoveOwned(d))
           /\ \A e \in DOMAIN d : Matched(d[e]) # <<>> =>
                 e \in DOMAIN RemoveOwned(d) /\ Matched(RemoveOwned(d)[e]) = Matched(d[e])
  <1>1. PICK D \in SUBSET HostEvents : d \in [D -> Seq(HookGroups)]
    BY DEF Documented, HookDocuments
  <1>2. PICK r : r = RemoveOwned(d)
    OBVIOUS
  <1>3. PICK K : /\ K \in SUBSET D /\ r = [e \in K |-> KeptGroups(e, d[e])]
                 /\ \A e \in D \ K : KeptGroups(e, d[e]) = <<>>
    BY <1>1, <1>2 DEF RemoveOwned
  <1>4. \A e \in D : KeptGroups(e, d[e]) \in Seq(HookGroups) /\ NoneOurs(KeptGroups(e, d[e]))
                     /\ Matched(KeptGroups(e, d[e])) = Matched(d[e])
    BY <1>1, KeptMore, KeptClean
  <1>5. Clean(r)
    BY <1>3, <1>4 DEF Clean
  <1>6. ASSUME NEW e \in D, Matched(d[e]) # <<>> PROVE e \in K /\ Matched(r[e]) = Matched(d[e])
    <2>1. e \in K
      BY <1>3, <1>4, <1>6, MatchedMore
    <2>2. QED
      BY <1>3, <1>4, <2>1
  <1>7. DOMAIN d = D /\ DOMAIN r = K
    BY <1>1, <1>3
  <1>8. QED
    BY <1>2, <1>5, <1>6, <1>7

\* An occurrence is a place of a handler with that id.
LEMMA OccursAt ==
    ASSUME NEW d, NEW id, NEW x
    PROVE  x \in Occurrences(d, id) <=>
              \E e \in DOMAIN d : \E i \in DOMAIN d[e] : \E j \in DOMAIN d[e][i].hooks :
                 x = [event |-> e, group |-> i, hook |-> j] /\ d[e][i].hooks[j].id = id
  BY DEF Occurrences, Handlers

LEMMA CleanHasNone ==
    ASSUME NEW d, Clean(d), NEW id \in Events
    PROVE  Occurrences(d, id) = {}
  <1>1. ASSUME NEW x \in Occurrences(d, id) PROVE FALSE
    <2>1. PICK e \in DOMAIN d : \E i \in DOMAIN d[e] : \E j \in DOMAIN d[e][i].hooks :
                 x = [event |-> e, group |-> i, hook |-> j] /\ d[e][i].hooks[j].id = id
      BY <1>1, OccursAt
    <2>2. PICK i \in DOMAIN d[e] : \E j \in DOMAIN d[e][i].hooks : d[e][i].hooks[j].id = id
      BY <2>1
    <2>3. PICK j \in DOMAIN d[e][i].hooks : d[e][i].hooks[j].id = id
      BY <2>2
    <2>4. ~Ours(d[e][i].hooks[j])
      BY DEF Clean, NoneOurs
    <2>5. QED
      BY <2>3, <2>4 DEF Ours
  <1>2. QED
    BY <1>1

\* To each event of ours a group of its own is added, and nothing else.
LEMMA AppendedIs ==
    ASSUME NEW d, Documented(d)
    PROVE  /\ DOMAIN Appended(d) = DOMAIN d \cup Events
           /\ \A e \in DOMAIN d \ Events : Appended(d)[e] = d[e]
           /\ \A e \in Events : ExpectedGroup(e) \in HookGroups
           /\ \A e \in Events \cap DOMAIN d : Appended(d)[e] = Append(d[e], ExpectedGroup(e))
           /\ \A e \in Events \ DOMAIN d : Appended(d)[e] = <<ExpectedGroup(e)>>
           /\ \A e \in DOMAIN d : d[e] \in Seq(HookGroups)
  <1>1. PICK D \in SUBSET HostEvents : d \in [D -> Seq(HookGroups)]
    BY DEF Documented, HookDocuments
  <1>2. PICK a : a = Appended(d)
    OBVIOUS
  <1>3. a = [e \in D \cup Events |->
               (IF e \in D THEN d[e] ELSE <<>>) \o (IF e \in Events THEN <<ExpectedGroup(e)>> ELSE <<>>)]
    BY <1>1, <1>2 DEF Appended
  <1>4. ASSUME NEW e \in Events PROVE ExpectedGroup(e) \in HookGroups
    <2>1. PICK x : x = ExpectedHandler(e)
      OBVIOUS
    <2>2. x \in HookHandlers
      BY <2>1, AdapterAssumption
    <2>3. <<x>> \in Seq(HookHandlers)
      BY <2>2
    <2>4. ExpectedGroup(e) = [meta |-> FALSE, hooks |-> <<x>>]
      BY <2>1 DEF ExpectedGroup
    <2>5. QED
      BY <2>3, <2>4 DEF HookGroups
  <1>5. ASSUME NEW e \in D \ Events PROVE a[e] = d[e]
    <2>1. a[e] = d[e] \o <<>>
      BY <1>3
    <2>2. d[e] \in Seq(HookGroups)
      BY <1>1
    <2>3. QED
      BY <2>1, <2>2, ConcatEmptySeq
  <1>6. ASSUME NEW e \in Events \cap D PROVE a[e] = Append(d[e], ExpectedGroup(e))
    <2>1. a[e] = d[e] \o <<ExpectedGroup(e)>>
      BY <1>3
    <2>2. d[e] \in Seq(HookGroups)
      BY <1>1
    <2>3. QED
      BY <1>4, <2>1, <2>2, AppendIsConcat
  <1>7. ASSUME NEW e \in Events \ D PROVE a[e] = <<ExpectedGroup(e)>>
    <2>1. a[e] = <<>> \o <<ExpectedGroup(e)>>
      BY <1>3
    <2>2. PICK g \in HookGroups : g = ExpectedGroup(e)
      BY <1>4
    <2>3. <<g>> \in Seq(HookGroups)
      BY <2>2
    <2>4. <<>> \o <<g>> = <<g>>
      BY <2>3, ConcatEmptySeq
    <2>5. QED
      BY <2>1, <2>2, <2>4
  <1>8. DOMAIN a = D \cup Events /\ DOMAIN d = D /\ \A e \in D : d[e] \in Seq(HookGroups)
    BY <1>1, <1>3
  <1>9. QED
    BY <1>2, <1>4, <1>5, <1>6, <1>7, <1>8

LEMMA AppendedConfigures ==
    ASSUME NEW d, Documented(d), Clean(d)
    PROVE  /\ Configured(Appended(d))
           /\ \A e \in DOMAIN d : e \in DOMAIN Appended(d) /\ Matched(Appended(d)[e]) = Matched(d[e])
  <1>1. PICK a : a = Appended(d)
    OBVIOUS
  <1>2. PICK s : s = [e \in Events |-> IF e \in DOMAIN d THEN d[e] ELSE <<>>]
    OBVIOUS
  <1>3. PICK G : G = [e \in Events |-> ExpectedGroup(e)]
    OBVIOUS
  <1>4. ASSUME NEW e \in Events
        PROVE  /\ s[e] \in Seq(HookGroups) /\ NoneOurs(s[e]) /\ G[e] \in HookGroups
               /\ a[e] = Append(s[e], G[e]) /\ G[e] = ExpectedGroup(e)
    <2>1. CASE e \in DOMAIN d
      BY <1>1, <1>2, <1>3, <2>1, AppendedIs DEF Clean
    <2>2. CASE e \notin DOMAIN d
      <3>1. s[e] = <<>> /\ DOMAIN <<>> = {} /\ <<>> \in Seq(HookGroups)
        BY <1>2, <2>2, EmptySeq
      <3>2. PICK g \in HookGroups : g = ExpectedGroup(e)
        BY AppendedIs
      <3>3. G[e] = g /\ a[e] = <<g>>
        BY <1>1, <1>3, <2>2, <3>2, AppendedIs
      <3>4. <<g>> = Append(<<>>, g)
        OBVIOUS
      <3>5. NoneOurs(<<>>)
        BY <3>1 DEF NoneOurs
      <3>6. QED
        BY <3>1, <3>2, <3>3, <3>4, <3>5
    <2>3. QED
      BY <2>1, <2>2
  <1>5. ASSUME NEW e \in Events
        PROVE  /\ Len(s[e]) \in Nat /\ DOMAIN a[e] = 1 .. (Len(s[e]) + 1) /\ a[e][Len(s[e]) + 1] = ExpectedGroup(e)
               /\ \A i \in 1 .. Len(s[e]) : \A j \in DOMAIN a[e][i].hooks : ~Ours(a[e][i].hooks[j])
    <2>1. PICK t \in Seq(HookGroups), g \in HookGroups :
             t = s[e] /\ g = ExpectedGroup(e) /\ a[e] = Append(t, g) /\ NoneOurs(t)
      BY <1>4
    <2>2. PICK n \in Nat : n = Len(t)
      BY LenProperties
    <2>3. PICK v : v = Append(t, g)
      OBVIOUS
    <2>4. DOMAIN v = 1 .. (n + 1) /\ DOMAIN t = 1 .. n /\ v[n + 1] = g /\ \A j \in 1 .. n : v[j] = t[j]
      BY <2>2, <2>3, AppendProperties, LenProperties
    <2>5. \A i \in 1 .. n : \A j \in DOMAIN v[i].hooks : ~Ours(v[i].hooks[j])
      BY <2>1, <2>4 DEF NoneOurs
    <2>6. QED
      BY <2>1, <2>2, <2>3, <2>4, <2>5
  <1>6. \A e \in Events : /\ ExpectedGroup(e).meta = FALSE /\ DOMAIN ExpectedGroup(e).hooks = {1}
                          /\ ExpectedGroup(e).hooks[1] = ExpectedHandler(e) /\ ExpectedHandler(e).id = e
    <2>1. ASSUME NEW e, NEW h, h = ExpectedHandler(e)
          PROVE  /\ ExpectedGroup(e).meta = FALSE /\ DOMAIN ExpectedGroup(e).hooks = {1}
                 /\ ExpectedGroup(e).hooks[1] = h
      <3>1. ExpectedGroup(e) = [meta |-> FALSE, hooks |-> <<h>>]
        BY <2>1 DEF ExpectedGroup
      <3>2. DOMAIN <<h>> = {1} /\ <<h>>[1] = h
        OBVIOUS
      <3>3. QED
        BY <3>1, <3>2
    <2>2. \A e : ExpectedHandler(e).id = e
      BY DEF ExpectedHandler
    <2>3. QED
      BY <2>1, <2>2
  <1>7. ASSUME NEW id \in Events PROVE Present(a, id)
    <2>1. PICK n \in Nat : n = Len(s[id])
      BY <1>5
    <2>2. PICK x : x = [event |-> id, group |-> n + 1, hook |-> 1]
      OBVIOUS
    <2>3. id \in DOMAIN a /\ n + 1 \in DOMAIN a[id] /\ a[id][n + 1] = ExpectedGroup(id)
      <3>1. id \in DOMAIN a
        BY <1>1, AppendedIs
      <3>2. DOMAIN a[id] = 1 .. (n + 1) /\ a[id][n + 1] = ExpectedGroup(id)
        BY <1>5, <2>1
      <3>3. QED
        BY <3>1, <3>2
    <2>4. x \in Occurrences(a, id)
      <3>1. 1 \in DOMAIN a[id][n + 1].hooks /\ a[id][n + 1].hooks[1].id = id
        BY <1>6, <2>3
      <3>2. QED
        BY <2>2, <2>3, <3>1, OccursAt
    <2>5. ASSUME NEW y \in Occurrences(a, id) PROVE y = x
      <3>1. PICK e \in DOMAIN a : \E i \in DOMAIN a[e] : \E j \in DOMAIN a[e][i].hooks :
                 y = [event |-> e, group |-> i, hook |-> j] /\ a[e][i].hooks[j].id = id
        BY <2>5, OccursAt
      <3>2. PICK i \in DOMAIN a[e] : \E j \in DOMAIN a[e][i].hooks :
                 y = [event |-> e, group |-> i, hook |-> j] /\ a[e][i].hooks[j].id = id
        BY <3>1
      <3>3. PICK j \in DOMAIN a[e][i].hooks :
                 y = [event |-> e, group |-> i, hook |-> j] /\ a[e][i].hooks[j].id = id
        BY <3>2
      <3>4. Ours(a[e][i].hooks[j])
        BY <3>3 DEF Ours
      <3>5. e \in Events
        <4>1. ASSUME e \notin Events PROVE FALSE
          <5>1. e \in DOMAIN d /\ a[e] = d[e]
            BY <1>1, <4>1, AppendedIs
          <5>2. ~Ours(a[e][i].hooks[j])
            BY <5>1 DEF Clean, NoneOurs
          <5>3. QED
            BY <3>4, <5>2
        <4>2. QED
          BY <4>1
      <3>6. PICK m \in Nat : m = Len(s[e])
        BY <1>5, <3>5
      <3>7. i = m + 1
        <4>1. i \in 1 .. (m + 1) /\ i \notin 1 .. m
          BY <1>5, <3>4, <3>5, <3>6
        <4>2. QED
          BY <4>1
      <3>8. a[e][i] = ExpectedGroup(e)
        BY <1>5, <3>5, <3>6, <3>7
      <3>9. j = 1 /\ e = id
        BY <1>6, <3>3, <3>5, <3>8
      <3>10. QED
        BY <2>1, <2>2, <3>3, <3>6, <3>7, <3>9
    <2>6. Occurrences(a, id) = {x}
      BY <2>4, <2>5
    <2>7. x.event = id /\ x.group = n + 1 /\ x.hook = 1
      BY <2>2
    <2>8. ~a[id][x.group].meta /\ a[id][x.group].hooks[x.hook] = ExpectedHandler(id)
      BY <1>6, <2>3, <2>7
    <2>9. QED
      BY <2>4, <2>6, <2>7, <2>8 DEF Present
  <1>8. ASSUME NEW e \in DOMAIN d PROVE e \in DOMAIN a /\ Matched(a[e]) = Matched(d[e])
    <2>1. e \in DOMAIN a
      BY <1>1, AppendedIs
    <2>2. CASE e \notin Events
      BY <1>1, <2>1, <2>2, AppendedIs
    <2>3. CASE e \in Events
      <3>1. PICK t \in Seq(HookGroups), g \in HookGroups : t = d[e] /\ g = ExpectedGroup(e) /\ a[e] = Append(t, g)
        BY <1>1, <2>3, AppendedIs
      <3>2. Matched(Append(t, g)) = Matched(t) \o <<>> /\ Matched(t) \in Seq(HookGroups)
        BY <1>6, <2>3, <3>1, MatchedMore
      <3>3. Matched(a[e]) = Matched(t)
        BY <3>1, <3>2, ConcatEmptySeq
      <3>4. QED
        BY <2>1, <3>1, <3>3
    <2>4. QED
      BY <2>2, <2>3
  <1>9. QED
    BY <1>1, <1>7, <1>8 DEF Configured

LEMMA RoundTrip ==
    ASSUME NEW doc, Documented(doc)
    PROVE  HooksRoundTrip(doc)
  <1>1. PICK old : old = doc
    OBVIOUS
  <1>2. Documented(old) /\ old # Nothing
    BY <1>1, AdapterAssumption DEF Documented
  <1>3. PICK r : r = RemoveOwned(old)
    OBVIOUS
  <1>4. /\ Documented(r) /\ Clean(r)
        /\ \A e \in DOMAIN old : Matched(old[e]) # <<>> => e \in DOMAIN r /\ Matched(r[e]) = Matched(old[e])
    BY <1>2, <1>3, RemoveKeeps, RemoveCleans
  <1>5. PICK n : n = DesiredNative("install", old)
    OBVIOUS
  <1>6. n = IF Configured(old) THEN old ELSE Appended(r)
    BY <1>2, <1>3, <1>5 DEF DesiredNative
  <1>7. /\ Configured(n)
        /\ \A e \in DOMAIN old : Matched(old[e]) # <<>> => e \in DOMAIN n /\ Matched(n[e]) = Matched(old[e])
    <2>1. CASE Configured(old)
      BY <1>6, <2>1
    <2>2. CASE ~Configured(old)
      <3>1. n = Appended(r)
        BY <1>6, <2>2
      <3>2. /\ Configured(n)
            /\ \A e \in DOMAIN r : e \in DOMAIN n /\ Matched(n[e]) = Matched(r[e])
        BY <1>4, <3>1, AppendedConfigures
      <3>3. QED
        BY <1>4, <3>2
    <2>3. QED
      BY <2>1, <2>2
  <1>8. Documented(n) /\ Users(n) = Users(old) /\ n # Nothing
    <2>1. Documented(n) /\ Users(n) = Users(old)
      BY <1>2, <1>5, DesiredKeeps
    <2>2. QED
      BY <2>1, AdapterAssumption DEF Documented
  <1>9. DesiredNative("install", n) = n
    BY <1>7, <1>8 DEF DesiredNative
  <1>10. PICK u : u = DesiredNative("uninstall", n)
    OBVIOUS
  <1>11. u = RemoveOwned(n)
    BY <1>8, <1>10 DEF DesiredNative
  <1>12. /\ Clean(u) /\ Users(u) = Users(n)
         /\ \A e \in DOMAIN n : Matched(n[e]) # <<>> => e \in DOMAIN u /\ Matched(u[e]) = Matched(n[e])
    BY <1>8, <1>11, RemoveKeeps, RemoveCleans
  <1>13. \A e \in Events : Occurrences(u, e) = {}
    BY <1>12, CleanHasNone
  <1>14. \A e \in DOMAIN old : Matched(old[e]) # <<>> => e \in DOMAIN u /\ Matched(u[e]) = Matched(old[e])
    BY <1>7, <1>12
  <1>15. QED
    BY <1>1, <1>5, <1>7, <1>8, <1>9, <1>10, <1>12, <1>13, <1>14 DEF HooksRoundTrip

-----------------------------------------------------------------------------
(* The transaction.  Only the holder of the lock is past planning, and what   *)
(* it removes at the end is what was reviewed: either its replacement has the *)
(* name, or the user wrote since and that is in the configuration.            *)

Steps == {"rest", "lock", "current", "create", "created", "link", "named", "remove", "away",
          "aside", "place", "placed", "verify", "drop"}

IsDocument(d) == IF host = "native" THEN Documented(d) ELSE d \in Descriptors
IsFile(f) == \E i \in Nat : \E d : IsDocument(d) /\ f = [ino |-> i, doc |-> d]
MaybeFile(f) == f = Nothing \/ IsFile(f)

NamesTyped ==
    /\ name = [config |-> name.config, backup |-> name.backup, temp |-> name.temp]
    /\ MaybeFile(name.config) /\ MaybeFile(name.backup) /\ MaybeFile(name.temp)

AdapterTyped ==
    /\ host \in {"native", "generic"}
    /\ latest = Nothing \/ IsDocument(latest)
    /\ inst = [p \in Installers |-> [pc |-> inst[p].pc, plan |-> inst[p].plan]]

SoundPlan(plan) ==
    /\ MaybeFile(plan.prior)
    /\ plan.desired = Nothing \/ IsDocument(plan.desired)
    /\ host = "native" => plan.desired = DesiredNative(plan.action, Doc(plan.prior))

Planned ==
    \A p \in Installers :
        /\ inst[p].pc # "rest" => SoundPlan(inst[p].plan)
        /\ inst[p].pc = "create" => inst[p].plan.desired # Nothing

Exclusive ==
    \A p \in Installers : inst[p].pc \notin {"rest", "lock"} => lock = p

\* What is beside the backup once the new content has the name.
Replaced(plan) ==
    \/ Doc(name.config) = plan.desired
    \/ latest = Nothing \/ Doc(name.config) = latest \/ fate = "lost"
    \/ latest = plan.prior.doc \/ name.backup # plan.prior

\* What goes with the backup: what was reviewed, or a late write besides.
Droppable(plan) ==
    \/ name.backup = plan.prior \/ fate \in {"late", "lost"}
    \/ latest = Nothing \/ Doc(name.config) = latest

Replacing ==
    \A p \in Installers :
        /\ inst[p].pc \in {"verify", "drop"} /\ host = "native" => Replaced(inst[p].plan)
        /\ inst[p].pc = "drop" => Droppable(inst[p].plan)

AdapterInv == AdapterTyped /\ NamesTyped /\ Planned /\ Exclusive /\ Replacing /\ UserContentKept

\* Neither a document nor a file is Nothing.
LEMMA FilesAreSomething ==
    /\ ~IsDocument(Nothing) /\ ~IsFile(Nothing)
    /\ \A f : IsFile(f) => IsDocument(f.doc) /\ Doc(f) = f.doc /\ f = [ino |-> f.ino, doc |-> f.doc]
                           /\ f.ino \in Nat
    /\ \A i \in Nat : \A d : IsDocument(d) => IsFile([ino |-> i, doc |-> d])
  <1>1. ~IsDocument(Nothing)
    BY AdapterAssumption DEF IsDocument, Documented
  <1>2. ~IsFile(Nothing)
    <2>1. ASSUME NEW i \in Nat, NEW d, IsDocument(d) PROVE [ino |-> i, doc |-> d] # Nothing
      <3>1. CASE host = "native"
        <4>1. PICK D \in SUBSET HostEvents : d \in HookDocuments(D)
          BY <2>1, <3>1 DEF IsDocument, Documented
        <4>2. [ino |-> i, doc |-> d] \in [ino : Nat, doc : HookDocuments(D)]
          BY <4>1
        <4>3. QED
          BY <4>2, AdapterAssumption
      <3>2. CASE host # "native"
        <4>1. [ino |-> i, doc |-> d] \in [ino : Nat, doc : Descriptors]
          BY <2>1, <3>2 DEF IsDocument
        <4>2. QED
          BY <4>1, AdapterAssumption
      <3>3. QED
        BY <3>1, <3>2
    <2>2. QED
      BY <2>1 DEF IsFile
  <1>3. ASSUME NEW f, IsFile(f)
        PROVE  IsDocument(f.doc) /\ Doc(f) = f.doc /\ f = [ino |-> f.ino, doc |-> f.doc] /\ f.ino \in Nat
    <2>0. PICK i \in Nat : \E d : IsDocument(d) /\ f = [ino |-> i, doc |-> d]
      BY <1>3 DEF IsFile
    <2>1. PICK d : IsDocument(d) /\ f = [ino |-> i, doc |-> d]
      BY <2>0
    <2>2. f # Nothing
      BY <1>2, <1>3
    <2>3. f.doc = d /\ f.ino = i
      BY <2>1
    <2>4. QED
      BY <2>1, <2>2, <2>3 DEF Doc
  <1>4. \A i \in Nat : \A d : IsDocument(d) => IsFile([ino |-> i, doc |-> d])
    BY DEF IsFile
  <1>5. QED
    BY <1>1, <1>2, <1>3, <1>4

\* What a plan wants is a document.
LEMMA DesiredIs ==
    ASSUME NEW action, NEW f, MaybeFile(f), host \in {"native", "generic"}
    PROVE  Desired(action, f) = Nothing \/ IsDocument(Desired(action, f))
  <1>1. Doc(f) = Nothing \/ IsDocument(Doc(f))
    BY FilesAreSomething DEF MaybeFile, Doc
  <1>2. CASE host = "generic"
    <2>1. DesiredGeneric(action, Doc(f)) \in {"descriptor", Nothing, Doc(f)}
      BY DEF DesiredGeneric
    <2>2. IsDocument("descriptor")
      BY <1>2 DEF IsDocument, Descriptors
    <2>3. QED
      BY <1>1, <1>2, <2>1, <2>2 DEF Desired
  <1>3. CASE host = "native"
    <2>1. Documented(DesiredNative(action, Doc(f)))
      BY <1>1, <1>3, DesiredKeeps DEF IsDocument
    <2>2. QED
      BY <1>3, <2>1 DEF Desired, IsDocument
  <1>4. QED
    BY <1>2, <1>3

Holds(f, d) == f # Nothing /\ IF host = "generic" THEN f.doc = d ELSE Users(f.doc) = Users(d)

LEMMA KeptIs ==
    UserContentKept <=> \/ latest = Nothing \/ fate = "lost"
                        \/ Holds(name.config, latest) \/ Holds(name.backup, latest)
  BY DEF UserContentKept, Holds

LEMMA HostStays ==
    ASSUME host' = host
    PROVE  /\ \A d : IsDocument(d)' <=> IsDocument(d)
           /\ \A f : MaybeFile(f)' <=> MaybeFile(f)
           /\ \A plan : SoundPlan(plan)' <=> SoundPlan(plan)
           /\ \A f, d : Holds(f, d)' <=> Holds(f, d)
  <1>1. \A d : IsDocument(d)' <=> IsDocument(d)
    BY DEF IsDocument
  <1>2. \A f : MaybeFile(f)' <=> MaybeFile(f)
    BY <1>1 DEF MaybeFile, IsFile
  <1>3. \A plan : SoundPlan(plan)' <=> SoundPlan(plan)
    BY <1>1, <1>2 DEF SoundPlan
  <1>4. \A f, d : Holds(f, d)' <=> Holds(f, d)
    BY DEF Holds
  <1>5. QED
    BY <1>1, <1>2, <1>3, <1>4

\* A step of one installer.
LEMMA InstallerMoves ==
    ASSUME AdapterInv, NEW p \in Installers, NEW pc, NEW plan,
           inst' = [inst EXCEPT ![p] = [pc |-> pc, plan |-> plan]], host' = host,
           pc # "rest" => SoundPlan(plan), pc = "create" => plan.desired # Nothing,
           pc \notin {"rest", "lock"} => lock' = p,
           lock' = lock \/ lock \in {p, Nothing},
           latest' = Nothing \/ latest' = latest,
           NamesTyped', UserContentKept',
           (name' = name /\ latest' = latest /\ fate' = fate) \/ inst[p].pc \notin {"rest", "lock"},
           pc \in {"verify", "drop"} /\ host = "native" => Replaced(plan)',
           pc = "drop" => Droppable(plan)'
    PROVE  AdapterInv'
  <1>1. inst = [q \in Installers |-> [pc |-> inst[q].pc, plan |-> inst[q].plan]]
    BY DEF AdapterInv, AdapterTyped
  <1>2. /\ inst'[p].pc = pc /\ inst'[p].plan = plan
        /\ \A q \in Installers \ {p} : inst'[q] = inst[q]
        /\ inst' = [q \in Installers |-> [pc |-> inst'[q].pc, plan |-> inst'[q].plan]]
    <2>1. PICK r : r = inst'
      OBVIOUS
    <2>2. r = [q \in Installers |-> IF q = p THEN [pc |-> pc, plan |-> plan] ELSE inst[q]]
      BY <1>1, <2>1
    <2>3. \A q \in Installers : r[q] = IF q = p THEN [pc |-> pc, plan |-> plan] ELSE inst[q]
      BY <2>2
    <2>4. \A q \in Installers : inst[q] = [pc |-> inst[q].pc, plan |-> inst[q].plan]
      BY <1>1
    <2>5. \A q \in Installers : r[q] = [pc |-> r[q].pc, plan |-> r[q].plan]
      BY <2>3, <2>4
    <2>6. r = [q \in Installers |-> [pc |-> r[q].pc, plan |-> r[q].plan]]
      BY <2>2, <2>5
    <2>7. QED
      BY <2>1, <2>3, <2>6
  <1>3. AdapterTyped'
    BY <1>2, HostStays DEF AdapterInv, AdapterTyped
  <1>4. Planned'
    <2>1. ASSUME NEW q \in Installers, inst'[q].pc # "rest" PROVE SoundPlan(inst'[q].plan)
      <3>1. CASE q = p
        BY <1>2, <2>1, <3>1
      <3>2. CASE q # p
        BY <1>2, <2>1, <3>2 DEF AdapterInv, Planned
      <3>3. QED
        BY <3>1, <3>2
    <2>2. PICK r : r = inst'
      OBVIOUS
    <2>3. \A q \in Installers : r[q].pc # "rest" => SoundPlan(r[q].plan)'
      BY <2>1, <2>2, HostStays
    <2>4. ASSUME NEW q \in Installers, r[q].pc = "create" PROVE r[q].plan.desired # Nothing
      <3>1. CASE q = p
        BY <1>2, <2>2, <2>4, <3>1
      <3>2. CASE q # p
        BY <1>2, <2>2, <2>4, <3>2 DEF AdapterInv, Planned
      <3>3. QED
        BY <3>1, <3>2
    <2>5. QED
      BY <2>2, <2>3, <2>4 DEF Planned, SoundPlan, MaybeFile, IsFile, IsDocument
  <1>5. Exclusive'
    <2>1. ASSUME NEW q \in Installers, inst'[q].pc \notin {"rest", "lock"} PROVE lock' = q
      <3>1. CASE q = p
        BY <1>2, <2>1, <3>1
      <3>2. CASE q # p
        <4>1. lock = q /\ q # Nothing
          BY <1>2, <2>1, <3>2, AdapterAssumption DEF AdapterInv, Exclusive
        <4>2. QED
          BY <3>2, <4>1
      <3>3. QED
        BY <3>1, <3>2
    <2>2. QED
      BY <2>1 DEF Exclusive
  <1>6. Replacing'
    <2>1. ASSUME NEW q \in Installers, q # p, inst'[q].pc \in {"verify", "drop"}
          PROVE  /\ inst[q].pc = inst'[q].pc /\ name' = name /\ latest' = latest /\ fate' = fate
                 /\ inst'[q].plan = inst[q].plan
      <3>1. inst'[q] = inst[q]
        BY <1>2, <2>1
      <3>2. lock = q
        BY <2>1, <3>1 DEF AdapterInv, Exclusive
      <3>3. inst[p].pc \in {"rest", "lock"}
        BY <2>1, <3>2 DEF AdapterInv, Exclusive
      <3>4. QED
        BY <3>1, <3>3
    <2>2. PICK r : r = inst'
      OBVIOUS
    <2>3. ASSUME NEW q \in Installers
          PROVE  /\ r[q].pc \in {"verify", "drop"} /\ host' = "native" => Replaced(r[q].plan)'
                 /\ r[q].pc = "drop" => Droppable(r[q].plan)'
      <3>1. CASE q = p
        BY <1>2, <2>2, <3>1
      <3>2. CASE q # p
        <4>1. PICK o : o = r[q].plan
          OBVIOUS
        <4>2. r[q].pc \in {"verify", "drop"} /\ host' = "native" => Replaced(o)
          BY <2>1, <2>2, <3>2, <4>1 DEF AdapterInv, Replacing
        <4>3. r[q].pc \in {"verify", "drop"} /\ host' = "native" => Replaced(o)'
          BY <2>1, <2>2, <3>2, <4>2 DEF Replaced
        <4>4. r[q].pc = "drop" => Droppable(o)'
          <5>1. r[q].pc = "drop" => Droppable(o)
            BY <2>1, <2>2, <3>2, <4>1 DEF AdapterInv, Replacing
          <5>2. QED
            BY <2>1, <2>2, <3>2, <5>1 DEF Droppable
        <4>5. QED
          BY <4>1, <4>3, <4>4
      <3>3. QED
        BY <3>1, <3>2
    <2>4. QED
      BY <2>2, <2>3 DEF Replacing, Replaced, Droppable
  <1>7. QED
    BY <1>3, <1>4, <1>5, <1>6 DEF AdapterInv

LEMMA GotoIs ==
    ASSUME AdapterInv, NEW p \in Installers, NEW pc, Goto(p, pc)
    PROVE  inst' = [inst EXCEPT ![p] = [pc |-> pc, plan |-> inst[p].plan]]
  <1>1. inst[p] = [pc |-> inst[p].pc, plan |-> inst[p].plan]
    BY DEF AdapterInv, AdapterTyped
  <1>2. [inst[p] EXCEPT !.pc = pc] = [pc |-> pc, plan |-> inst[p].plan]
    BY <1>1
  <1>3. QED
    BY <1>2 DEF Goto

\* The names as they are, with the same content.
LEMMA SameNames ==
    ASSUME AdapterInv, UNCHANGED <<host, name, latest, fate>>
    PROVE  NamesTyped' /\ UserContentKept'
  <1>1. NamesTyped'
    BY HostStays DEF AdapterInv, NamesTyped
  <1>2. UserContentKept'
    BY DEF AdapterInv, UserContentKept
  <1>3. QED
    BY <1>1, <1>2

\* A step past the lock that changes no name.
LEMMA GoesOn ==
    ASSUME AdapterInv, NEW p \in Installers, NEW pc, Goto(p, pc), UNCHANGED <<host, name, latest, fate>>,
           inst[p].pc # "rest", lock' = p, pc = "create" => inst[p].plan.desired # Nothing,
           lock' = lock \/ lock = Nothing,
           NEW plan, plan = inst[p].plan,
           pc \in {"verify", "drop"} /\ host = "native" => Replaced(plan)',
           pc = "drop" => name.backup = plan.prior
    PROVE  AdapterInv'
  <1>1. inst' = [inst EXCEPT ![p] = [pc |-> pc, plan |-> plan]]
    BY GotoIs
  <1>2. SoundPlan(plan)
    BY DEF AdapterInv, Planned
  <1>3. NamesTyped' /\ UserContentKept'
    BY SameNames
  <1>4. pc = "drop" => Droppable(plan)'
    BY DEF Droppable
  <1>5. QED
    BY <1>1, <1>2, <1>3, <1>4, InstallerMoves

\* The end of an operation.
LEMMA TransactionEnds ==
    ASSUME AdapterInv, NEW p \in Installers, End(p), Unlock(p), host' = host,
           latest' = Nothing \/ latest' = latest, NamesTyped', UserContentKept',
           (name' = name /\ latest' = latest /\ fate' = fate) \/ inst[p].pc \notin {"rest", "lock"}
    PROVE  AdapterInv'
  <1>1. inst' = [inst EXCEPT ![p] = [pc |-> "rest", plan |-> Nothing]]
    BY DEF End
  <1>2. lock' = lock \/ lock \in {p, Nothing}
    BY DEF Unlock
  <1>3. PICK pc, plan : pc = "rest" /\ plan = Nothing
    OBVIOUS
  <1>4. inst' = [inst EXCEPT ![p] = [pc |-> pc, plan |-> plan]]
    BY <1>1, <1>3
  <1>5. pc # "create" /\ pc \in {"rest", "lock"} /\ pc \notin {"verify", "drop"} /\ pc # "drop"
    BY <1>3
  <1>6. QED
    BY <1>2, <1>3, <1>4, <1>5, InstallerMoves

\* An end that changes no name: an operation without effect, or a death.
LEMMA GivesUp ==
    ASSUME AdapterInv, NEW p \in Installers, End(p), Unlock(p), UNCHANGED <<host, name, latest, fate>>
    PROVE  AdapterInv'
  <1>1. NamesTyped' /\ UserContentKept'
    BY SameNames
  <1>2. QED
    BY <1>1, TransactionEnds

\* The two names may trade places.
LEMMA NamesMove ==
    ASSUME AdapterInv, NEW c, NEW b, NEW t,
           name' = [config |-> c, backup |-> b, temp |-> t], UNCHANGED <<host, latest, fate>>,
           MaybeFile(c), MaybeFile(b), MaybeFile(t),
           \/ c = name.config /\ b = name.backup
           \/ c = name.backup /\ b = name.config
           \/ name.config = Nothing /\ b = name.backup
    PROVE  NamesTyped' /\ UserContentKept'
  <1>1. name'.config = c /\ name'.backup = b /\ name'.temp = t
    OBVIOUS
  <1>2. NamesTyped'
    BY <1>1, HostStays DEF NamesTyped
  <1>3. latest = Nothing \/ fate = "lost" \/ Holds(name.config, latest) \/ Holds(name.backup, latest)
    BY KeptIs DEF AdapterInv
  <1>4. latest' = Nothing \/ fate' = "lost" \/ Holds(c, latest) \/ Holds(b, latest)
    BY <1>3 DEF Holds
  <1>5. PICK l : l = latest
    OBVIOUS
  <1>6. UserContentKept'
    BY <1>1, <1>4 DEF UserContentKept, Holds
  <1>7. QED
    BY <1>2, <1>6

LEMMA NamesAre ==
    ASSUME AdapterInv
    PROVE  /\ MaybeFile(name.config) /\ MaybeFile(name.backup) /\ MaybeFile(name.temp) /\ MaybeFile(Nothing)
           /\ name = [config |-> name.config, backup |-> name.backup, temp |-> name.temp]
           /\ [name EXCEPT !.temp = Nothing] = [config |-> name.config, backup |-> name.backup, temp |-> Nothing]
           /\ \/ /\ name.config = Nothing
                 /\ [Restored EXCEPT !.temp = Nothing] = [config |-> name.backup, backup |-> Nothing, temp |-> Nothing]
              \/ [Restored EXCEPT !.temp = Nothing] = [config |-> name.config, backup |-> name.backup, temp |-> Nothing]
  <1>1. /\ name = [config |-> name.config, backup |-> name.backup, temp |-> name.temp]
        /\ MaybeFile(name.config) /\ MaybeFile(name.backup) /\ MaybeFile(name.temp) /\ MaybeFile(Nothing)
    BY DEF AdapterInv, NamesTyped, MaybeFile
  <1>2. PICK c, b, t : name = [config |-> c, backup |-> b, temp |-> t]
    BY <1>1
  <1>3. CASE name.config = Nothing
    <2>1. Restored = [config |-> b, backup |-> Nothing, temp |-> t]
      BY <1>2, <1>3 DEF Restored
    <2>2. QED
      BY <1>1, <1>2, <1>3, <2>1
  <1>4. CASE name.config # Nothing
    <2>1. Restored = name
      BY <1>4 DEF Restored
    <2>2. QED
      BY <1>1, <1>2, <2>1
  <1>5. QED
    BY <1>3, <1>4

\* An error: what was moved away may be put back, nothing else changes.
LEMMA Aborts ==
    ASSUME AdapterInv, NEW p \in Installers, inst[p].pc \notin {"rest", "lock"},
           Abort(p, name) \/ Abort(p, Restored), UNCHANGED <<host, latest, fate>>
    PROVE  AdapterInv'
  <1>1. \/ name' = [config |-> name.config, backup |-> name.backup, temp |-> Nothing]
        \/ /\ name.config = Nothing
           /\ name' = [config |-> name.backup, backup |-> Nothing, temp |-> Nothing]
    BY NamesAre DEF Abort
  <1>2. NamesTyped' /\ UserContentKept'
    <2>1. PICK c, b : c = name.config /\ b = name.backup
      OBVIOUS
    <2>2. CASE name' = [config |-> name.config, backup |-> name.backup, temp |-> Nothing]
      <3>1. name' = [config |-> c, backup |-> b, temp |-> Nothing]
        BY <2>1, <2>2
      <3>2. QED
        BY <2>1, <3>1, NamesAre, NamesMove
    <2>3. CASE name.config = Nothing /\ name' = [config |-> name.backup, backup |-> Nothing, temp |-> Nothing]
      <3>1. name' = [config |-> b, backup |-> c, temp |-> Nothing]
        BY <2>1, <2>3
      <3>2. QED
        BY <2>1, <3>1, NamesAre, NamesMove
    <2>4. QED
      BY <1>1, <2>2, <2>3
  <1>3. End(p) /\ Unlock(p)
    BY DEF Abort
  <1>4. QED
    BY <1>2, <1>3, TransactionEnds

\* A step of the transaction that moves names and goes on.
LEMMA MovesOn ==
    ASSUME AdapterInv, NEW p \in Installers, inst[p].pc \notin {"rest", "lock"},
           NEW pc, Goto(p, pc), pc \notin {"create", "verify", "drop"}, UNCHANGED <<host, latest, fate, lock>>,
           NamesTyped', UserContentKept'
    PROVE  AdapterInv'
  <1>1. PICK plan : plan = inst[p].plan
    OBVIOUS
  <1>2. inst' = [inst EXCEPT ![p] = [pc |-> pc, plan |-> plan]]
    BY <1>1, GotoIs
  <1>3. SoundPlan(plan)
    BY <1>1 DEF AdapterInv, Planned
  <1>4. lock = p
    BY DEF AdapterInv, Exclusive
  <1>5. QED
    BY <1>2, <1>3, <1>4, InstallerMoves

\* There is a number no file has.
LEMMA NewFileIs ==
    ASSUME AdapterInv, NEW d, IsDocument(d)
    PROVE  IsFile(NewFile(d)) /\ NewFile(d).doc = d
  <1> DEFINE named == {m \in DOMAIN name : name[m] # Nothing}
             planned == {q \in Installers : IF PlanOf(q) = Nothing THEN FALSE ELSE PlanOf(q).prior # Nothing}
             used == {opened} \cup {name[n].ino : n \in named} \cup {PlanOf(p).prior.ino : p \in planned}
  <1>1. IsFiniteSet(named) /\ IsFiniteSet(planned)
    <2>1. DOMAIN name = {"config", "backup", "temp"}
      <3>1. PICK c, b, t : name = [config |-> c, backup |-> b, temp |-> t]
        BY NamesAre
      <3>2. QED
        BY <3>1
    <2>2. IsFiniteSet({"config", "backup", "temp"})
      <3>1. IsFiniteSet({}) /\ IsFiniteSet({} \cup {"config"})
        BY FS_EmptySet, FS_AddElement
      <3>2. IsFiniteSet(({} \cup {"config"}) \cup {"backup"})
        BY <3>1, FS_AddElement
      <3>3. IsFiniteSet((({} \cup {"config"}) \cup {"backup"}) \cup {"temp"})
        BY <3>2, FS_AddElement
      <3>4. (({} \cup {"config"}) \cup {"backup"}) \cup {"temp"} = {"config", "backup", "temp"}
        OBVIOUS
      <3>5. QED
        BY <3>3, <3>4
    <2>3. named \in SUBSET {"config", "backup", "temp"} /\ planned \in SUBSET Installers
      BY <2>1
    <2>4. QED
      BY <2>2, <2>3, AdapterAssumption, FS_Subset
  <1>2. IsFiniteSet(used)
    <2>1. PICK N : N = {name[n].ino : n \in named}
      OBVIOUS
    <2>2. PICK L : L = {PlanOf(p).prior.ino : p \in planned}
      OBVIOUS
    <2>3. IsFiniteSet(N)
      <3>1. PICK f : f = [n \in named |-> name[n].ino]
        OBVIOUS
      <3>2. f \in Surjection(named, N)
        BY <2>1, <3>1 DEF Surjection
      <3>3. QED
        BY <1>1, <3>2, FS_Surjection
    <2>4. IsFiniteSet(L)
      <3>1. PICK f : f = [p \in planned |-> PlanOf(p).prior.ino]
        OBVIOUS
      <3>2. f \in Surjection(planned, L)
        BY <2>2, <3>1 DEF Surjection
      <3>3. QED
        BY <1>1, <3>2, FS_Surjection
    <2>5. IsFiniteSet(N \cup L)
      BY <2>3, <2>4, FS_Union
    <2>6. IsFiniteSet((N \cup L) \cup {opened})
      BY <2>5, FS_AddElement
    <2>7. used = (N \cup L) \cup {opened}
      BY <2>1, <2>2
    <2>8. QED
      BY <2>6, <2>7
  <1>3. PICK U : U = used
    OBVIOUS
  <1>4. PICK n \in Nat : n = Cardinality(U)
    BY <1>2, <1>3, FS_CardinalityType
  <1>5. PICK T : T = (0 .. n) \ U
    OBVIOUS
  <1>6. T # {}
    <2>1. ASSUME T = {} PROVE FALSE
      <3>1. 0 .. n \in SUBSET U
        BY <1>5, <2>1
      <3>2. Cardinality(0 .. n) = n + 1
        <4>1. 0 \in Int /\ n \in Int
          OBVIOUS
        <4>2. Cardinality(0 .. n) = IF 0 > n THEN 0 ELSE n - 0 + 1
          BY <4>1, FS_Interval
        <4>3. QED
          BY <4>2
      <3>3. Cardinality(0 .. n) <= Cardinality(U)
        BY <1>2, <1>3, <3>1, FS_Subset
      <3>4. QED
        BY <1>4, <3>2, <3>3
    <2>2. QED
      BY <2>1
  <1>7. T \in SUBSET Nat
    BY <1>5
  <1>8. Min(T) \in Nat
    <2>1. \E x \in T : \A y \in T : x <= y
      BY <1>6, <1>7, LeastOf
    <2>2. QED
      BY <1>7, <2>1 DEF Min
  <1>9. NewFile(d) = [ino |-> Min(T), doc |-> d]
    BY <1>3, <1>4, <1>5 DEF NewFile
  <1>10. QED
    BY <1>8, <1>9, FilesAreSomething

-----------------------------------------------------------------------------
(* The installers.                                                            *)

LEMMA ApproveKeeps ==
    ASSUME AdapterInv, NEW p \in Installers, NEW action, Approve(p, action)
    PROVE  AdapterInv'
  <1>1. PICK plan : plan = Plan(action)
    OBVIOUS
  <1>2. /\ inst' = [inst EXCEPT ![p] = [pc |-> "lock", plan |-> plan]]
        /\ UNCHANGED <<host, name, latest, fate, lock>>
    BY <1>1 DEF Approve, User
  <1>3. SoundPlan(plan)
    <2>1. plan.action = action /\ plan.prior = name.config /\ plan.desired = Desired(action, name.config)
      BY <1>1 DEF Plan
    <2>2. MaybeFile(name.config) /\ host \in {"native", "generic"}
      BY NamesAre DEF AdapterInv, AdapterTyped
    <2>3. Desired(action, name.config) = Nothing \/ IsDocument(Desired(action, name.config))
      BY <2>2, DesiredIs
    <2>4. host = "native" => Desired(action, name.config) = DesiredNative(action, Doc(name.config))
      BY DEF Desired
    <2>5. QED
      BY <2>1, <2>2, <2>3, <2>4 DEF SoundPlan
  <1>4. NamesTyped' /\ UserContentKept'
    BY <1>2, SameNames
  <1>5. PICK pc : pc = "lock"
    OBVIOUS
  <1>6. /\ inst' = [inst EXCEPT ![p] = [pc |-> pc, plan |-> plan]] /\ host' = host
        /\ pc \notin {"rest", "create", "verify", "drop"} /\ pc \in {"rest", "lock"}
        /\ lock' = lock /\ latest' = latest
        /\ name' = name /\ fate' = fate
    BY <1>2, <1>5
  <1>7. QED
    BY <1>3, <1>4, <1>6, InstallerMoves

LEMMA PreparationKeeps ==
    ASSUME AdapterInv, NEW p \in Installers,
           AcquireInstallLock(p) \/ ExecutePlan(p) \/ Create(p) \/ Created(p) \/ RemoveConfig(p)
    PROVE  AdapterInv'
  <1>1. PICK plan : plan = inst[p].plan
    OBVIOUS
  <1>2. CASE AcquireInstallLock(p)
    <2>1. Goto(p, "current") /\ lock' = p /\ lock = Nothing /\ inst[p].pc # "rest" /\ UNCHANGED <<host, name, latest, fate>>
      BY <1>2 DEF AcquireInstallLock, At, User
    <2>2. QED
      BY <1>1, <2>1, GoesOn
  <1>3. ASSUME inst[p].pc \notin {"rest", "lock"} PROVE lock = p
    BY <1>3 DEF AdapterInv, Exclusive
  <1>4. CASE ExecutePlan(p)
    <2>1. UNCHANGED <<host, name, latest, fate>> /\ lock = p /\ inst[p].pc # "rest"
      BY <1>3, <1>4 DEF ExecutePlan, At, User
    <2>2. \/ End(p) /\ Unlock(p)
          \/ \E pc \in {"remove", "create"} :
                Goto(p, pc) /\ lock' = lock /\ (pc = "create" => inst[p].plan.desired # Nothing)
      BY <1>4 DEF ExecutePlan, PlanOf
    <2>3. ASSUME NEW pc \in {"remove", "create"}, Goto(p, pc), lock' = lock,
                 pc = "create" => inst[p].plan.desired # Nothing
          PROVE  AdapterInv'
      BY <1>1, <2>1, <2>3, GoesOn
    <2>4. QED
      BY <2>1, <2>2, <2>3, GivesUp
  <1>5. CASE RemoveConfig(p)
    <2>1. UNCHANGED <<host, name, latest, fate>> /\ lock = p /\ inst[p].pc # "rest"
      BY <1>3, <1>5 DEF RemoveConfig, At, User
    <2>2. (End(p) /\ Unlock(p)) \/ (Goto(p, "away") /\ lock' = lock)
      BY <1>5 DEF RemoveConfig
    <2>3. QED
      BY <1>1, <2>1, <2>2, GivesUp, GoesOn
  <1>6. CASE Create(p)
    <2>1. UNCHANGED <<host, latest, fate>> /\ inst[p].pc = "create"
      BY <1>6 DEF Create, At, User
    <2>2. CASE End(p) /\ Unlock(p) /\ UNCHANGED name
      BY <2>1, <2>2, GivesUp
    <2>3. CASE /\ name' = [name EXCEPT !.temp = NewFile(PlanOf(p).desired)]
               /\ Goto(p, "created") /\ lock' = lock
      <3>1. PICK f : f = NewFile(PlanOf(p).desired)
        OBVIOUS
      <3>2. MaybeFile(f)
        <4>1. IsDocument(PlanOf(p).desired)
          BY <2>1, <2>3 DEF AdapterInv, Planned, SoundPlan, PlanOf
        <4>2. QED
          BY <3>1, <4>1, NewFileIs DEF MaybeFile
      <3>3. PICK c, b : c = name.config /\ b = name.backup
        OBVIOUS
      <3>4. name' = [config |-> c, backup |-> b, temp |-> f]
        <4>1. PICK t : name = [config |-> c, backup |-> b, temp |-> t]
          BY <3>3, NamesAre
        <4>2. QED
          BY <2>3, <3>1, <4>1
      <3>5. NamesTyped' /\ UserContentKept'
        BY <2>1, <3>2, <3>3, <3>4, NamesAre, NamesMove
      <3>6. QED
        BY <2>1, <2>3, <3>5, MovesOn
    <2>4. QED
      BY <1>6, <2>1, <2>2, <2>3 DEF Create
  <1>7. CASE Created(p)
    <2>1. UNCHANGED <<host, latest, fate>> /\ lock = p /\ inst[p].pc \notin {"rest", "lock"}
      BY <1>3, <1>7 DEF Created, At, User
    <2>2. Abort(p, name) \/ \E pc \in {"link", "away"} : Goto(p, pc) /\ UNCHANGED <<name, lock>>
      BY <1>7 DEF Created
    <2>3. ASSUME NEW pc \in {"link", "away"}, Goto(p, pc), UNCHANGED <<name, lock>> PROVE AdapterInv'
      BY <1>1, <2>1, <2>3, GoesOn
    <2>4. QED
      BY <2>1, <2>2, <2>3, Aborts
  <1>8. QED
    BY <1>2, <1>4, <1>5, <1>6, <1>7

LEMMA NamingKeeps ==
    ASSUME AdapterInv, NEW p \in Installers, Link(p) \/ Named(p)
    PROVE  AdapterInv'
  <1>1. CASE Link(p)
    <2>1. UNCHANGED <<host, latest, fate>> /\ inst[p].pc \notin {"rest", "lock"}
      BY <1>1 DEF Link, At, User
    <2>2. CASE Abort(p, name)
      BY <2>1, <2>2, Aborts
    <2>3. CASE /\ name.config = Nothing /\ name' = [name EXCEPT !.config = name.temp]
               /\ Goto(p, "named") /\ lock' = lock
      <3>1. PICK b, t : b = name.backup /\ t = name.temp
        OBVIOUS
      <3>2. name' = [config |-> t, backup |-> b, temp |-> t]
        <4>1. PICK c : name = [config |-> c, backup |-> b, temp |-> t]
          BY <3>1, NamesAre
        <4>2. QED
          BY <2>3, <3>1, <4>1
      <3>3. NamesTyped' /\ UserContentKept'
        BY <2>1, <2>3, <3>1, <3>2, NamesAre, NamesMove
      <3>4. QED
        BY <2>1, <2>3, <3>3, MovesOn
    <2>4. QED
      BY <1>1, <2>2, <2>3 DEF Link
  <1>2. CASE Named(p)
    <2>1. UNCHANGED <<host, latest, fate>> /\ inst[p].pc \notin {"rest", "lock"} /\ Abort(p, name)
      BY <1>2 DEF Named, At, User
    <2>2. QED
      BY <2>1, Aborts
  <1>3. QED
    BY <1>1, <1>2

LEMMA AwayKeeps ==
    ASSUME AdapterInv, NEW p \in Installers, Away(p)
    PROVE  AdapterInv'
  <1>1. UNCHANGED <<host, latest, fate>> /\ inst[p].pc \notin {"rest", "lock"}
    BY DEF Away, At, User
  <1>2. CASE Abort(p, name)
    BY <1>1, <1>2, Aborts
  <1>3. CASE /\ name.backup = Nothing /\ name' = [name EXCEPT !.backup = name.config, !.config = Nothing]
             /\ Goto(p, "aside") /\ lock' = lock
    <2>1. PICK c, b, t : c = name.config /\ b = name.backup /\ t = name.temp
      OBVIOUS
    <2>2. name' = [config |-> b, backup |-> c, temp |-> t]
      <3>1. name = [config |-> c, backup |-> b, temp |-> t]
        BY <2>1, NamesAre
      <3>2. QED
        BY <1>3, <2>1, <3>1
    <2>3. NamesTyped' /\ UserContentKept'
      BY <1>1, <2>1, <2>2, NamesAre, NamesMove
    <2>4. QED
      BY <1>1, <1>3, <2>3, MovesOn
  <1>4. QED
    BY <1>2, <1>3 DEF Away

LEMMA AsideKeeps ==
    ASSUME AdapterInv, NEW p \in Installers, Aside(p)
    PROVE  AdapterInv'
  <1>1. UNCHANGED <<host, latest, fate>> /\ inst[p].pc \notin {"rest", "lock"} /\ lock = p
    BY DEF Aside, At, User, AdapterInv, Exclusive
  <1>2. CASE Abort(p, Restored)
    BY <1>1, <1>2, Aborts
  <1>3. PICK plan : plan = inst[p].plan
    OBVIOUS
  <1>4. host = "native" => plan.desired # Nothing
    <2>1. SoundPlan(plan)
      BY <1>1, <1>3 DEF AdapterInv, Planned
    <2>2. ASSUME host = "native" PROVE Documented(plan.desired)
      <3>1. Documented(Doc(plan.prior)) \/ Doc(plan.prior) = Nothing
        BY <2>1, <2>2, FilesAreSomething DEF SoundPlan, MaybeFile, Doc, IsDocument
      <3>2. QED
        BY <2>1, <2>2, <3>1, DesiredKeeps DEF SoundPlan
    <2>3. QED
      BY <2>2, FilesAreSomething DEF IsDocument
  <1>5. CASE /\ Goto(p, IF PlanOf(p).desired = Nothing THEN "verify" ELSE "place")
             /\ UNCHANGED <<name, lock>>
    <2>1. CASE plan.desired = Nothing
      <3>1. Goto(p, "verify") /\ host # "native"
        BY <1>3, <1>4, <1>5, <2>1 DEF PlanOf
      <3>2. QED
        BY <1>1, <1>3, <1>5, <3>1, GoesOn
    <2>2. CASE plan.desired # Nothing
      <3>1. Goto(p, "place")
        BY <1>3, <1>5, <2>2 DEF PlanOf
      <3>2. QED
        BY <1>1, <1>3, <1>5, <3>1, GoesOn
    <2>3. QED
      BY <2>1, <2>2
  <1>6. QED
    BY <1>2, <1>5 DEF Aside

LEMMA PlacingKeeps ==
    ASSUME AdapterInv, NEW p \in Installers, Place(p) \/ Placed(p)
    PROVE  AdapterInv'
  <1>1. CASE Place(p)
    <2>1. UNCHANGED <<host, latest, fate>> /\ inst[p].pc \notin {"rest", "lock"}
      BY <1>1 DEF Place, At, User
    <2>2. CASE Abort(p, Restored)
      BY <2>1, <2>2, Aborts
    <2>3. CASE /\ name.config = Nothing
               /\ name' = [name EXCEPT !.config = name.temp, !.temp = Nothing]
               /\ Goto(p, "placed") /\ lock' = lock
      <3>1. PICK b, t : b = name.backup /\ t = name.temp
        OBVIOUS
      <3>2. name' = [config |-> t, backup |-> b, temp |-> Nothing]
        <4>1. PICK c : name = [config |-> c, backup |-> b, temp |-> t]
          BY <3>1, NamesAre
        <4>2. QED
          BY <2>3, <3>1, <4>1
      <3>3. NamesTyped' /\ UserContentKept'
        BY <2>1, <2>3, <3>1, <3>2, NamesAre, NamesMove
      <3>4. QED
        BY <2>1, <2>3, <3>3, MovesOn
    <2>4. QED
      BY <1>1, <2>2, <2>3 DEF Place
  <1>2. CASE Placed(p)
    <2>1. UNCHANGED <<host, latest, fate>> /\ inst[p].pc \notin {"rest", "lock"} /\ lock = p
      BY <1>2 DEF Placed, At, User, AdapterInv, Exclusive
    <2>2. CASE Abort(p, name)
      BY <2>1, <2>2, Aborts
    <2>3. CASE Doc(name.config) = PlanOf(p).desired /\ Goto(p, "verify") /\ UNCHANGED <<name, lock>>
      <3>1. PICK plan : plan = inst[p].plan
        OBVIOUS
      <3>2. Doc(name.config) = plan.desired
        BY <2>3, <3>1 DEF PlanOf
      <3>3. Doc(name'.config) = plan.desired
        BY <2>3, <3>2
      <3>4. Replaced(plan)'
        BY <3>3 DEF Replaced, Doc
      <3>5. QED
        BY <2>1, <2>3, <3>1, <3>4, GoesOn
    <2>4. QED
      BY <1>2, <2>2, <2>3 DEF Placed
  <1>3. QED
    BY <1>1, <1>2

LEMMA VerifyKeeps ==
    ASSUME AdapterInv, NEW p \in Installers, Verify(p)
    PROVE  AdapterInv'
  <1>1. UNCHANGED <<host, latest, fate>> /\ inst[p].pc = "verify" /\ lock = p
    BY DEF Verify, At, User, AdapterInv, Exclusive
  <1>2. CASE Abort(p, name)
    BY <1>1, <1>2, Aborts
  <1>3. CASE Verified(p) /\ Goto(p, "drop") /\ UNCHANGED <<name, lock>>
    <2>1. PICK plan : plan = inst[p].plan
      OBVIOUS
    <2>2. name.backup = plan.prior
      BY <1>3, <2>1 DEF Verified, PlanOf
    <2>3. host = "native" => Replaced(plan)
      BY <1>1, <2>1 DEF AdapterInv, Replacing
    <2>4. host = "native" => Replaced(plan)'
      BY <1>1, <1>3, <2>3 DEF Replaced
    <2>5. QED
      BY <1>1, <1>3, <2>1, <2>2, <2>4, GoesOn
  <1>4. QED
    BY <1>2, <1>3 DEF Verify

\* With the backup goes nothing but what the plan replaces.
LEMMA DropBackupKeeps ==
    ASSUME AdapterInv, NEW p \in Installers, DropBackup(p)
    PROVE  AdapterInv'
  <1>1. /\ host' = host /\ inst[p].pc = "drop" /\ name' = [name EXCEPT !.backup = Nothing]
        /\ latest' = (IF GivenUp(p) THEN Nothing ELSE latest) /\ End(p) /\ Unlock(p)
        /\ fate' = (IF fate = "late" THEN "lost" ELSE fate)
    BY DEF DropBackup, At
  <1>2. PICK plan : plan = inst[p].plan
    OBVIOUS
  <1>3. PICK c, t : c = name.config /\ t = name.temp
    OBVIOUS
  <1>4. SoundPlan(plan) /\ Droppable(plan) /\ (host = "native" => Replaced(plan))
    BY <1>1, <1>2 DEF AdapterInv, Planned, Replacing
  <1>5. name' = [config |-> c, backup |-> Nothing, temp |-> t]
    <2>1. PICK b : name = [config |-> c, backup |-> b, temp |-> t]
      BY <1>3, NamesAre
    <2>2. QED
      BY <1>1, <2>1
  <1>6. NamesTyped'
    <2>1. name'.config = c /\ name'.backup = Nothing /\ name'.temp = t
      BY <1>5
    <2>2. MaybeFile(c) /\ MaybeFile(t) /\ MaybeFile(Nothing)
      BY <1>3, NamesAre
    <2>3. QED
      BY <1>1, <1>5, <2>1, <2>2, HostStays DEF NamesTyped
  <1>7. ASSUME latest # Nothing, ~GivenUp(p), fate \notin {"late", "lost"}, Doc(c) # latest
        PROVE  Holds(c, latest)
    <2>0. name.backup = plan.prior
      BY <1>3, <1>4, <1>7 DEF Droppable
    <2>1. Holds(c, latest) \/ Holds(plan.prior, latest)
      BY <1>3, <1>7, <2>0, KeptIs DEF AdapterInv
    <2>2. GivenUp(p) <=> latest = plan.prior.doc /\ (host = "generic" \/ Doc(c) # plan.desired)
      BY <1>2, <1>3 DEF GivenUp, PlanOf
    <2>3. CASE host = "generic"
      BY <1>7, <2>1, <2>2, <2>3 DEF Holds
    <2>4. CASE Holds(plan.prior, latest) /\ host # "generic"
      <3>1. host = "native" /\ plan.prior # Nothing /\ Users(plan.prior.doc) = Users(latest)
        BY <2>4 DEF Holds, AdapterInv, AdapterTyped
      <3>2. Doc(plan.prior) = plan.prior.doc /\ Documented(plan.prior.doc)
        BY <1>4, <3>1, FilesAreSomething DEF SoundPlan, MaybeFile, IsDocument
      <3>3. plan.desired = DesiredNative(plan.action, plan.prior.doc)
        BY <1>4, <3>1, <3>2 DEF SoundPlan
      <3>4. Documented(plan.desired) /\ Users(plan.desired) = Users(plan.prior.doc)
        BY <3>2, <3>3, DesiredKeeps
      <3>5. plan.desired # Nothing
        BY <3>1, <3>4, FilesAreSomething DEF IsDocument
      <3>6. \/ Doc(c) = plan.desired \/ Doc(c) = latest \/ latest = plan.prior.doc
        BY <1>3, <1>4, <1>7, <2>0, <3>1 DEF Replaced
      <3>7. Doc(c) = plan.desired \/ Doc(c) = latest
        BY <1>7, <2>2, <3>6
      <3>8. c # Nothing /\ Doc(c) = c.doc
        BY <1>7, <3>5, <3>7 DEF Doc
      <3>9. Users(c.doc) = Users(latest)
        BY <3>1, <3>4, <3>7, <3>8
      <3>10. QED
        BY <3>1, <3>8, <3>9 DEF Holds
    <2>5. QED
      BY <2>1, <2>3, <2>4
  <1>8. UserContentKept'
    <2>1. ASSUME Doc(c) = latest, latest # Nothing PROVE Holds(c, latest)
      BY <2>1 DEF Doc, Holds
    <2>2. latest' = Nothing \/ fate' = "lost" \/ (latest' = latest /\ Holds(c, latest))
      BY <1>1, <1>7, <2>1
    <2>3. name'.config = c
      BY <1>5
    <2>4. QED
      BY <1>1, <2>2, <2>3 DEF UserContentKept, Holds
  <1>9. latest' = Nothing \/ latest' = latest
    BY <1>1
  <1>10. QED
    BY <1>1, <1>6, <1>8, <1>9, TransactionEnds

-----------------------------------------------------------------------------
(* The user and the agent.                                                    *)

LEMMA UserMoves ==
    ASSUME AdapterInv, UNCHANGED <<host, lock, inst>>, latest' = Nothing \/ IsDocument(latest'),
           NamesTyped', UserContentKept',
           \A p \in Installers : \A plan : inst[p].pc = "drop" /\ Droppable(plan) => Droppable(plan)',
           \A plan : Replaced(plan) => Replaced(plan)'
    PROVE  AdapterInv'
  <1>1. AdapterTyped'
    <2>1. PICK l : l = latest'
      OBVIOUS
    <2>2. IsDocument(l)' <=> IsDocument(l)
      BY HostStays
    <2>3. l = Nothing \/ IsDocument(l)'
      BY <2>1, <2>2
    <2>4. QED
      BY <2>1, <2>3 DEF AdapterInv, AdapterTyped, IsDocument
  <1>2. Planned'
    <2>1. ASSUME NEW p \in Installers, NEW plan, plan = inst[p].plan, inst[p].pc # "rest"
          PROVE  SoundPlan(plan)'
      BY <2>1, HostStays DEF AdapterInv, Planned
    <2>2. PICK r : r = inst
      OBVIOUS
    <2>3. \A p \in Installers : r[p].pc # "rest" => SoundPlan(r[p].plan)'
      BY <2>1, <2>2
    <2>4. \A p \in Installers : r[p].pc = "create" => r[p].plan.desired # Nothing
      BY <2>2 DEF AdapterInv, Planned
    <2>5. QED
      BY <2>2, <2>3, <2>4 DEF Planned, SoundPlan, MaybeFile, IsFile, IsDocument
  <1>3. Exclusive'
    BY DEF AdapterInv, Exclusive
  <1>4. Replacing'
    <2>1. PICK r : r = inst
      OBVIOUS
    <2>2. \A p \in Installers : r[p].pc \in {"verify", "drop"} /\ host = "native" => Replaced(r[p].plan)
      BY <2>1 DEF AdapterInv, Replacing
    <2>3. \A p \in Installers : r[p].pc \in {"verify", "drop"} /\ host = "native" => Replaced(r[p].plan)'
      BY <2>2
    <2>4. \A p \in Installers : r[p].pc = "drop" => Droppable(r[p].plan)'
      BY <2>1 DEF AdapterInv, Replacing
    <2>5. QED
      BY <2>1, <2>3, <2>4 DEF Replacing, Replaced, Droppable
  <1>5. QED
    BY <1>1, <1>2, <1>3, <1>4 DEF AdapterInv

LEMMA OpenKeeps ==
    ASSUME AdapterInv, Open
    PROVE  AdapterInv'
  <1>1. UNCHANGED <<host, name, latest, fate, lock, inst>>
    BY DEF Open
  <1>2. NamesTyped' /\ UserContentKept'
    BY <1>1, SameNames
  <1>3. latest = Nothing \/ IsDocument(latest)
    BY DEF AdapterInv, AdapterTyped
  <1>4. \A plan : Replaced(plan) => Replaced(plan)'
    BY <1>1 DEF Replaced
  <1>5. \A plan : Droppable(plan) => Droppable(plan)'
    BY <1>1 DEF Droppable
  <1>6. latest' = Nothing \/ IsDocument(latest')
    BY <1>1, <1>3
  <1>7. QED
    BY <1>1, <1>2, <1>4, <1>5, <1>6, UserMoves

\* What the user writes is a document of that host.
LEMMA WrittenIs ==
    ASSUME AdapterInv, NEW d \in Documents[host]
    PROVE  IsDocument(d) /\ d # Nothing
  <1>1. host \in {"native", "generic"}
    BY DEF AdapterInv, AdapterTyped
  <1>2. CASE host = "native"
    <2>1. d \in HookDocuments(DOMAIN d) /\ DOMAIN d \in SUBSET HostEvents
      BY <1>2, AdapterAssumption DEF HostEvents, Written
    <2>2. Documented(d)
      BY <2>1 DEF Documented
    <2>3. IsDocument(d)
      BY <1>2, <2>2 DEF IsDocument
    <2>4. QED
      BY <2>3, FilesAreSomething
  <1>3. CASE host = "generic"
    <2>1. IsDocument(d)
      BY <1>3 DEF IsDocument, Descriptors, Written
    <2>2. QED
      BY <2>1, FilesAreSomething
  <1>4. QED
    BY <1>1, <1>2, <1>3

\* The configuration gets another file, or none.
LEMMA ConfigWritten ==
    ASSUME AdapterInv, NEW f, NEW d, name' = [name EXCEPT !.config = f], Wrote(d), fate' = "kept",
           \/ f = Nothing /\ d = Nothing
           \/ IsFile(f) /\ f.doc = d /\ IsDocument(d)
    PROVE  AdapterInv'
  <1>1. UNCHANGED <<host, lock, inst>> /\ latest' = d
    BY DEF Wrote
  <1>2. PICK b, t : b = name.backup /\ t = name.temp
    OBVIOUS
  <1>3. name' = [config |-> f, backup |-> b, temp |-> t]
    <2>1. PICK c : name = [config |-> c, backup |-> b, temp |-> t]
      BY <1>2, NamesAre
    <2>2. QED
      BY <2>1
  <1>4. name'.config = f /\ name'.backup = b /\ name'.temp = t
    BY <1>3
  <1>5. NamesTyped'
    <2>1. MaybeFile(f) /\ MaybeFile(b) /\ MaybeFile(t)
      BY <1>2, NamesAre DEF MaybeFile
    <2>2. QED
      BY <1>1, <1>3, <1>4, <2>1, HostStays DEF NamesTyped
  <1>6. d = Nothing \/ (f # Nothing /\ f.doc = d /\ Doc(f) = d)
    BY FilesAreSomething DEF Doc
  <1>7. UserContentKept'
    BY <1>1, <1>4, <1>6 DEF UserContentKept
  <1>8. \A plan : Replaced(plan)'
    BY <1>1, <1>4, <1>6 DEF Replaced, Doc
  <1>9. \A plan : Droppable(plan)'
    BY <1>1, <1>4, <1>6 DEF Droppable, Doc
  <1>10. latest' = Nothing \/ IsDocument(latest')
    BY <1>1
  <1>11. QED
    BY <1>1, <1>5, <1>7, <1>8, <1>9, <1>10, UserMoves

\* A file is written in place, under whatever name it has by now.
LEMMA SaveOpenedKeeps ==
    ASSUME AdapterInv, NEW d \in Documents[host], SaveOpened(d)
    PROVE  AdapterInv'
  <1>1. UNCHANGED <<host, lock, inst>> /\ latest' = d
    BY DEF SaveOpened, Wrote
  <1>2. IsDocument(d) /\ d # Nothing
    BY WrittenIs
  <1>3. PICK o : o = opened
    OBVIOUS
  <1>4. PICK c, b, t : name = [config |-> c, backup |-> b, temp |-> t]
    BY NamesAre
  <1>5. PICK S : S = [f \in {c, b, t} |-> IF f # Nothing /\ f.ino = o THEN [f EXCEPT !.doc = d] ELSE f]
    OBVIOUS
  <1>6. name' = [config |-> S[c], backup |-> S[b], temp |-> S[t]]
    <2>1. DOMAIN name = {"config", "backup", "temp"} /\ name["config"] = c /\ name["backup"] = b /\ name["temp"] = t
      BY <1>4
    <2>0. name' = [n \in DOMAIN name |-> IF OpenAs(n) THEN [name[n] EXCEPT !.doc = d] ELSE name[n]]
      BY DEF SaveOpened
    <2>2. name' = [n \in {"config", "backup", "temp"} |->
                      IF name[n] # Nothing /\ name[n].ino = o THEN [name[n] EXCEPT !.doc = d] ELSE name[n]]
      BY <1>3, <2>0, <2>1 DEF OpenAs
    <2>3. \A n \in {"config", "backup", "temp"} :
             (IF name[n] # Nothing /\ name[n].ino = o THEN [name[n] EXCEPT !.doc = d] ELSE name[n]) = S[name[n]]
      BY <1>5, <2>1
    <2>4. name' = [n \in {"config", "backup", "temp"} |-> S[name[n]]]
      BY <2>2, <2>3
    <2>5. name'["config"] = S[c] /\ name'["backup"] = S[b] /\ name'["temp"] = S[t]
      BY <2>1, <2>4
    <2>6. QED
      BY <2>4, <2>5
  <1>7. ASSUME NEW f \in {c, b, t}
        PROVE  /\ MaybeFile(S[f])
               /\ f # Nothing /\ f.ino = o => S[f] # Nothing /\ S[f].doc = d
               /\ f = Nothing \/ f.ino # o => S[f] = f
    <2>1. MaybeFile(f)
      BY <1>4, <1>7, NamesAre
    <2>2. CASE f # Nothing /\ f.ino = o
      <3>1. IsFile(f) /\ f = [ino |-> f.ino, doc |-> f.doc] /\ f.ino \in Nat
        BY <2>1, <2>2, FilesAreSomething DEF MaybeFile
      <3>2. S[f] = [f EXCEPT !.doc = d]
        BY <1>5, <2>2
      <3>3. S[f] = [ino |-> f.ino, doc |-> d]
        BY <3>1, <3>2
      <3>4. IsFile(S[f]) /\ S[f].doc = d
        BY <1>2, <3>1, <3>3, FilesAreSomething
      <3>5. QED
        BY <2>2, <3>4, FilesAreSomething DEF MaybeFile
    <2>3. CASE f = Nothing \/ f.ino # o
      BY <1>5, <2>1, <2>3
    <2>4. QED
      BY <2>2, <2>3
  <1>8. /\ OpenAs("config") \/ OpenAs("backup") \/ fate' = "lost"
        /\ OpenAs("backup") => fate' = "late" \/ \A p \in Installers : inst[p].pc # "drop"
        /\ OpenAs("config") => c # Nothing /\ c.ino = o
        /\ OpenAs("backup") => b # Nothing /\ b.ino = o
    <2>1. name["config"] = c /\ name["backup"] = b
      BY <1>4
    <2>2. QED
      BY <1>3, <2>1 DEF SaveOpened, OpenAs, At
  <1>9. name'.config = S[c] /\ name'.backup = S[b] /\ name'.temp = S[t]
    BY <1>6
  <1>10. (S[c] # Nothing /\ S[c].doc = d) \/ (S[b] # Nothing /\ S[b].doc = d) \/ fate' = "lost"
    BY <1>7, <1>8
  <1>11. NamesTyped'
    <2>1. MaybeFile(S[c]) /\ MaybeFile(S[b]) /\ MaybeFile(S[t])
      BY <1>7
    <2>2. PICK x, y, z : x = S[c] /\ y = S[b] /\ z = S[t]
      OBVIOUS
    <2>3. name' = [config |-> x, backup |-> y, temp |-> z] /\ MaybeFile(x)' /\ MaybeFile(y)' /\ MaybeFile(z)'
      BY <1>1, <1>6, <2>1, <2>2, HostStays
    <2>4. name'.config = x /\ name'.backup = y /\ name'.temp = z
      BY <2>3
    <2>5. QED
      BY <2>3, <2>4 DEF NamesTyped
  <1>12. UserContentKept'
    BY <1>1, <1>9, <1>10 DEF UserContentKept
  <1>13. ASSUME NEW plan PROVE Replaced(plan)'
    <2>1. CASE S[c] # Nothing /\ S[c].doc = d
      BY <1>1, <1>9, <2>1 DEF Replaced, Doc
    <2>2. CASE S[b] # Nothing /\ S[b].doc = d
      BY <1>1, <1>9, <2>2 DEF Replaced
    <2>3. CASE fate' = "lost"
      BY <2>3 DEF Replaced
    <2>4. QED
      BY <1>10, <2>1, <2>2, <2>3
  <1>14. latest' = Nothing \/ IsDocument(latest')
    BY <1>1, <1>2
  <1>15. ASSUME NEW p \in Installers, NEW plan, inst[p].pc = "drop" PROVE Droppable(plan)'
    <2>1. CASE OpenAs("config")
      <3>1. S[c] # Nothing /\ S[c].doc = d
        BY <1>7, <1>8, <2>1
      <3>2. QED
        BY <1>1, <1>9, <3>1 DEF Droppable, Doc
    <2>2. CASE fate' \in {"late", "lost"}
      BY <2>2 DEF Droppable
    <2>3. QED
      BY <1>8, <1>15, <2>1, <2>2
  <1>16. QED
    BY <1>1, <1>11, <1>12, <1>13, <1>14, <1>15, UserMoves

LEMMA UserKeeps ==
    ASSUME AdapterInv, Open \/ Delete \/ (\E d \in Documents[host] : Edit(d))
    PROVE  AdapterInv'
  <1>1. CASE Open
    BY <1>1, OpenKeeps
  <1>2. CASE Delete
    BY <1>2, ConfigWritten DEF Delete
  <1>3. ASSUME NEW d \in Documents[host], SaveOpened(d) PROVE AdapterInv'
    BY <1>3, SaveOpenedKeeps
  <1>4. ASSUME NEW d \in Documents[host], Replace(d) PROVE AdapterInv'
    <2>1. PICK f : f = NewFile(d)
      OBVIOUS
    <2>2. IsFile(f) /\ f.doc = d /\ IsDocument(d)
      BY <2>1, WrittenIs, NewFileIs
    <2>3. name' = [name EXCEPT !.config = f] /\ Wrote(d) /\ fate' = "kept"
      BY <1>4, <2>1 DEF Replace
    <2>4. QED
      BY <2>2, <2>3, ConfigWritten
  <1>5. QED
    BY <1>1, <1>2, <1>3, <1>4 DEF Edit

-----------------------------------------------------------------------------

LEMMA AdapterStarts ==
    ASSUME AdapterInit
    PROVE  AdapterInv
  <1>1. PICK d \in Found[host] \cup {Nothing} :
           /\ latest = d
           /\ name = [config |-> IF d = Nothing THEN Nothing ELSE [ino |-> 0, doc |-> d],
                      backup |-> Nothing, temp |-> Nothing]
    BY DEF AdapterInit
  <1>2. host \in {"native", "generic"} /\ inst = [p \in Installers |-> [pc |-> "rest", plan |-> Nothing]]
    BY DEF AdapterInit
  <1>3. d = Nothing \/ IsDocument(d)
    <2>1. CASE host = "native" /\ d # Nothing
      <3>1. d \in HookDocuments(DOMAIN d) /\ DOMAIN d \in SUBSET HostEvents
        BY <2>1, AdapterAssumption DEF HostEvents, Written
      <3>2. QED
        BY <2>1, <3>1 DEF IsDocument, Documented
    <2>2. CASE host = "generic" /\ d # Nothing
      BY <2>2 DEF IsDocument, Descriptors, Written
    <2>3. QED
      BY <1>2, <2>1, <2>2
  <1>4. PICK c : c = IF d = Nothing THEN Nothing ELSE [ino |-> 0, doc |-> d]
    OBVIOUS
  <1>5. MaybeFile(c) /\ (d = Nothing \/ (c # Nothing /\ c.doc = d))
    <2>1. CASE d = Nothing
      BY <1>4, <2>1 DEF MaybeFile
    <2>2. CASE d # Nothing
      <3>1. c = [ino |-> 0, doc |-> d] /\ IsFile(c)
        BY <1>3, <1>4, <2>2, FilesAreSomething
      <3>2. QED
        BY <3>1, FilesAreSomething DEF MaybeFile
    <2>3. QED
      BY <2>1, <2>2
  <1>6. name = [config |-> c, backup |-> Nothing, temp |-> Nothing]
    BY <1>1, <1>4
  <1>7. name.config = c /\ name.backup = Nothing /\ name.temp = Nothing
    BY <1>6
  <1>8. NamesTyped
    BY <1>5, <1>6, <1>7 DEF NamesTyped, MaybeFile
  <1>9. \A p \in Installers : inst[p].pc = "rest" /\ inst[p].plan = Nothing
    BY <1>2
  <1>10. AdapterTyped
    BY <1>1, <1>2, <1>3, <1>9 DEF AdapterTyped
  <1>11. Planned /\ Exclusive /\ Replacing
    BY <1>9 DEF Planned, Exclusive, Replacing
  <1>12. UserContentKept
    BY <1>1, <1>5, <1>7 DEF UserContentKept
  <1>13. QED
    BY <1>8, <1>10, <1>11, <1>12 DEF AdapterInv

LEMMA AdapterKeeps ==
    ASSUME AdapterInv, [AdapterNext]_adapterVars
    PROVE  AdapterInv'
  <1>1. CASE AdapterNext
    <2>1. ASSUME NEW p \in Installers, NEW action \in {"install", "uninstall"}, Approve(p, action)
          PROVE  AdapterInv'
      BY <2>1, ApproveKeeps
    <2>2. ASSUME NEW p \in Installers, Crash(p) PROVE AdapterInv'
      <3>1. End(p) /\ Unlock(p) /\ UNCHANGED <<host, name, latest, fate>>
        BY <2>2 DEF Crash
      <3>2. QED
        BY <3>1, GivesUp
    <2>3. ASSUME NEW p \in Installers,
                 \/ AcquireInstallLock(p) \/ ExecutePlan(p) \/ Create(p) \/ Created(p) \/ RemoveConfig(p)
          PROVE  AdapterInv'
      BY <2>3, PreparationKeeps
    <2>4. ASSUME NEW p \in Installers,
                 Link(p) \/ Named(p) \/ Away(p) \/ Aside(p) \/ Place(p) \/ Placed(p) \/ Verify(p) \/ DropBackup(p)
          PROVE  AdapterInv'
      BY <2>4, NamingKeeps, AwayKeeps, AsideKeeps, PlacingKeeps, VerifyKeeps, DropBackupKeeps
    <2>5. QED
      BY <1>1, <2>1, <2>2, <2>3, <2>4, UserKeeps DEF AdapterNext
  <1>2. CASE UNCHANGED adapterVars
    <2>1. Open \/ UNCHANGED <<host, name, latest, fate, lock, inst>>
      BY <1>2 DEF adapterVars
    <2>2. NamesTyped' /\ UserContentKept'
      BY <1>2, SameNames DEF adapterVars
    <2>3. QED
      <3>1. UNCHANGED <<host, name, latest, fate, lock, inst>>
        BY <1>2 DEF adapterVars
      <3>2. latest' = Nothing \/ IsDocument(latest')
        <4>1. latest = Nothing \/ IsDocument(latest)
          BY DEF AdapterInv, AdapterTyped
        <4>2. QED
          BY <3>1, <4>1
      <3>3. \A plan : Replaced(plan) => Replaced(plan)'
        BY <3>1 DEF Replaced
      <3>4. \A plan : Droppable(plan) => Droppable(plan)'
        BY <3>1 DEF Droppable
      <3>5. QED
        BY <2>2, <3>1, <3>2, <3>3, <3>4, UserMoves
  <1>3. QED
    BY <1>1, <1>2

LEMMA AdapterInvariant == AdapterSpec => []AdapterInv
  <1>1. AdapterInit => AdapterInv
    BY AdapterStarts
  <1>2. AdapterInv /\ [AdapterNext]_adapterVars => AdapterInv'
    BY AdapterKeeps
  <1>3. QED
    BY <1>1, <1>2, PTL DEF AdapterSpec

\* What the user writes is in the configuration or the backup until a reviewed
\* plan replaces that content; excepted are the two writes in place that the
\* code loses: between the last look at the backup and its removal, and into a
\* file that has no name any more.
THEOREM UserContentIsKept == AdapterSpec => []UserContentKept
  <1>1. AdapterInv => UserContentKept
    BY DEF AdapterInv
  <1>2. QED
    BY <1>1, AdapterInvariant, PTL

\* Any document that has the name can be installed into and cleared again
\* without loss of a handler or a matcher of the user's.
THEOREM HooksAreKept == AdapterSpec => []HooksKept
  <1>1. AdapterInv => HooksKept
    <2>1. ASSUME AdapterInv, host = "native", name.config # Nothing PROVE HooksRoundTrip(name.config.doc)
      <3>1. IsFile(name.config)
        BY <2>1, NamesAre DEF MaybeFile
      <3>2. Documented(name.config.doc)
        BY <2>1, <3>1, FilesAreSomething DEF IsDocument
      <3>3. QED
        BY <3>2, RoundTrip
    <2>2. QED
      BY <2>1 DEF HooksKept
  <1>2. QED
    BY <1>1, AdapterInvariant, PTL
=============================================================================
