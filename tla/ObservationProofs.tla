--------------------------- MODULE ObservationProofs ---------------------------
(***************************************************************************)
(* What is shown of the repository.  An answer of the owner is of the time *)
(* of its query, for any clients and changes of the world; a client's view *)
(* never steps back and every rewrite it can know of is shown, for any     *)
(* inventories, histories of heads and size of the ancestry cache; the map *)
(* of chats is honest, for any chats, worktrees and lists of them; and the *)
(* threads that capture the evidence come to what one alone would have.    *)
(***************************************************************************)
EXTENDS QueryRead, OriginEvidence, ClientView, Dock, GitTopology, FiniteSetTheorems, WellFoundedInduction, TLAPS

-----------------------------------------------------------------------------
(* Queries (QueryRead).  Every counter of the world only grows, and what was  *)
(* read is remembered with the value it had; so the invariant compares what a *)
(* query, the reader and the application hold with the world as it is now.    *)

OriginProofs == [evidence : Nat, origins : Nat, conf : Nat]
Steps == {"capture", "opening", "validate", "inspect", "anchor", "read", "legacy", "reprobe",
          "origins", "enumerate", "acquire", "recheck", "close", "collect", "closing",
          "answer", "done"}
Paths == {"epoch", "verified", "cold", "fallback"}
Queries ==
    [pc : Steps, client : Clients, path : Paths, conf : Nat \cup {None},
     start : [rows : Nat, trees : Nat, conf : Nat],
     lease : OriginProofs \cup {None}, tries : {0, 1}, rows : Nat, version : Nat,
     trees : Nat \cup {None}, evidence : [trees : Nat, conf : Nat] \cup {None}]

Worlds == [store : {"files", "shadow", "active"}, rows : Nat, frozen : Nat, version : Nat,
           trees : Nat, conf : Nat, gone : SUBSET Clients, edits : Nat]
WorldTyped == world \in Worlds
ReaderTyped ==
    reader \in [open : BOOLEAN, cached : Nat \cup {None}, version : Nat \cup {None},
                proof : OriginProofs \cup {None}, fp : Nat \cup {None}]
GitFacts == [trees : Nat, conf : Nat, targets : Nat]
AppTyped ==
    app \in [home : Clients \cup {None}, git : GitFacts \cup {None},
             dirty : BOOLEAN, aged : BOOLEAN, fp : Nat \cup {None}]
QueryTyped ==
    /\ WorldTyped /\ ReaderTyped /\ AppTyped
    /\ sources \in [Clients -> Nat \cup {None}]
    /\ query \in Queries \cup {Idle}

\* The rows the files were frozen with, and cached rows under their version.
RowsKnown ==
    /\ world.store = "active" => world.frozen <= world.rows
    /\ reader.cached # None =>
          /\ reader.version \in Nat /\ reader.version <= world.version
          /\ reader.version = world.version => reader.cached = world.rows

\* Proofs and Git facts are of the past; facts are no older than the list of
\* worktrees they were collected for.
Backed(l) == l.evidence = l.origins /\ l.origins <= world.trees
FactsKnown ==
    /\ reader.proof # None => Backed(reader.proof)
    /\ reader.fp # None => reader.fp <= world.trees
    /\ app.git # None =>
          /\ app.git.trees <= world.trees /\ app.git.conf <= world.conf
          /\ app.fp # None => app.fp <= app.git.trees

\* The query under way: what it has seen lies between its start and now.
Pinned == {"origins", "enumerate", "acquire", "recheck", "close"}
Observed == {"collect", "closing", "answer", "done"}

RowsSeen(q) ==
    /\ q.start.rows <= world.rows /\ q.start.trees <= world.trees /\ q.start.conf <= world.conf
    /\ q.pc \in Pinned \cup Observed \cup {"reprobe"} =>
          q.start.rows <= q.rows /\ q.rows <= world.rows
    /\ q.pc \in Pinned =>
          /\ world.store = "active" /\ q.version <= world.version
          /\ q.version = world.version => q.rows = world.rows
    /\ q.pc = "legacy" /\ world.store = "active" => q.start.rows <= world.frozen

TreesSeen(q) ==
    /\ q.trees # None =>
          /\ q.start.trees <= q.trees /\ q.trees <= world.trees /\ world.store = "active"
          /\ q.path = "epoch" => q.trees = q.lease.origins
    /\ q.pc \in {"legacy", "reprobe"} => q.trees = None
    /\ q.pc \in {"acquire", "recheck", "close"} => q.trees \in Nat
    /\ q.pc \in {"enumerate", "acquire"} => q.evidence \in [trees : Nat, conf : Nat]
    /\ q.pc \in {"enumerate", "acquire", "recheck"} => q.path # "epoch"
    /\ q.path = "epoch" =>
          /\ q.lease # None /\ Backed(q.lease)
          /\ q.pc # "opening" => q.start.trees <= q.lease.origins

Concluded(q) ==
    /\ q.pc \in Observed /\ q.trees # None => q.trees = reader.fp
    /\ q.pc \in Observed \ {"collect"} =>
          /\ app.git \in GitFacts
          /\ app.git.trees <= world.trees /\ app.git.conf <= world.conf
          /\ app.git.targets = Targets(q.rows)
          /\ q.trees # None => q.trees <= app.git.trees
    /\ q.pc \in {"answer", "done"} =>
          /\ q.path = "epoch" /\ q.trees # None => q.trees = app.git.trees
          /\ q.path # "fallback" =>
                q.conf \in Nat /\ q.start.conf <= q.conf /\ app.git.conf <= q.conf

QueryHolds == query.pc # "rest" => RowsSeen(query) /\ TreesSeen(query) /\ Concluded(query)

QueryInv == QueryTyped /\ RowsKnown /\ FactsKnown /\ QueryHolds

LEMMA QueryInitInv == QueryInit => QueryInv
<1> SUFFICES ASSUME QueryInit PROVE QueryInv
  OBVIOUS
<1>1. PICK s \in {"files", "shadow", "active"} :
        world = [store |-> s, rows |-> 0, frozen |-> 0, version |-> 0,
                 trees |-> 0, conf |-> 0, gone |-> {}, edits |-> 0]
  BY DEF QueryInit, WorldInit
<1>2. WorldTyped
  BY <1>1 DEF WorldTyped, Worlds
<1>3. ReaderTyped /\ AppTyped
  BY DEF QueryInit, Closed, ReaderTyped, AppTyped
<1>4. QueryTyped /\ query.pc = "rest"
  BY <1>2, <1>3 DEF QueryInit, QueryTyped, Idle
<1>5. QED
  BY <1>1, <1>4 DEF QueryInit, QueryInv, RowsKnown, FactsKnown, QueryHolds, Closed

-----------------------------------------------------------------------------
\* The world only grows.
Grows ==
    /\ world.rows <= world'.rows /\ world.version <= world'.version
    /\ world.trees <= world'.trees /\ world.conf <= world'.conf
    /\ world'.version = world.version => world'.rows = world.rows
    /\ world.store = "active" => world'.store = "active" /\ world'.frozen = world.frozen
    /\ world.store # "active" /\ world'.store = "active" =>
          world'.frozen = world.rows /\ world'.rows = world.rows

LEMMA Edited ==
  ASSUME NEW w \in Worlds, Edit(w)
  PROVE  /\ WorldTyped' /\ UNCHANGED <<reader, app, sources, query>>
         /\ world'.rows = w.rows /\ world'.version = w.version /\ world'.trees = w.trees
         /\ world'.conf = w.conf /\ world'.store = w.store /\ world'.frozen = w.frozen
BY DEF Edit, WorldTyped, Worlds

LEMMA WorldSteps ==
  ASSUME WorldTyped, WorldNext
  PROVE  WorldTyped' /\ Grows /\ UNCHANGED <<reader, app, sources, query>>
<1> DEFINE Step(w) ==
      /\ w \in Worlds /\ Edit(w)
      /\ w.rows >= world.rows /\ w.version >= world.version
      /\ w.trees >= world.trees /\ w.conf >= world.conf
      /\ w.version = world.version => w.rows = world.rows
      /\ world.store = "active" => w.store = "active" /\ w.frozen = world.frozen
      /\ world.store # "active" /\ w.store = "active" =>
            w.frozen = world.rows /\ w.rows = world.rows
<1>1. ASSUME NEW w, Step(w)
      PROVE  WorldTyped' /\ Grows /\ UNCHANGED <<reader, app, sources, query>>
  <2>1. /\ WorldTyped' /\ UNCHANGED <<reader, app, sources, query>>
        /\ world'.rows = w.rows /\ world'.version = w.version /\ world'.trees = w.trees
        /\ world'.conf = w.conf /\ world'.store = w.store /\ world'.frozen = w.frozen
    BY <1>1, Edited
  <2>2. /\ w.rows \in Nat /\ w.version \in Nat /\ w.trees \in Nat /\ w.conf \in Nat
        /\ world.rows \in Nat /\ world.version \in Nat
        /\ world.trees \in Nat /\ world.conf \in Nat
    BY <1>1 DEF WorldTyped, Worlds
  <2>3. QED
    BY <1>1, <2>1, <2>2 DEF Grows
<1>2. CASE WriteRows
  <2> DEFINE v == [world EXCEPT !.rows = @ + 1]
             w == [v EXCEPT !.version = @ + 1]
  <2>1. v \in Worlds /\ v.rows = world.rows + 1 /\ v.version = world.version
        /\ v.trees = world.trees /\ v.conf = world.conf /\ v.store = world.store
        /\ v.frozen = world.frozen
    BY DEF WorldTyped, Worlds
  <2>2. Edit(w)
    BY <1>2 DEF WriteRows, WorldTyped, Worlds
  <2> HIDE DEF v
  <2>3. w \in Worlds /\ w.rows = world.rows + 1 /\ w.version = world.version + 1
        /\ w.trees = world.trees /\ w.conf = world.conf /\ w.store = world.store
        /\ w.frozen = world.frozen
    BY <2>1 DEF Worlds
  <2> HIDE DEF w
  <2>4. Step(w)
    BY <2>2, <2>3 DEF WorldTyped, Worlds
  <2>5. QED
    BY <1>1, <2>4
<1>3. CASE WriteOther
  <2>1. Step([world EXCEPT !.version = @ + 1])
    BY <1>3 DEF WriteOther, WorldTyped, Worlds
  <2>2. QED
    BY <1>1, <2>1
<1>4. CASE AddWorktree
  <2>1. Step([world EXCEPT !.trees = @ + 1])
    BY <1>4 DEF AddWorktree, WorldTyped, Worlds
  <2>2. QED
    BY <1>1, <2>1
<1>5. CASE MoveRef
  <2>1. Step([world EXCEPT !.conf = @ + 1])
    BY <1>5 DEF MoveRef, WorldTyped, Worlds
  <2>2. QED
    BY <1>1, <2>1
<1>6. CASE CreateStore
  <2>1. Step([world EXCEPT !.store = "shadow"])
    BY <1>6 DEF CreateStore, WorldTyped, Worlds
  <2>2. QED
    BY <1>1, <2>1
<1>7. CASE Activate
  <2> DEFINE v == [world EXCEPT !.store = "active"]
             w == [v EXCEPT !.frozen = world.rows]
  <2>1. v \in Worlds /\ v.rows = world.rows /\ v.version = world.version
        /\ v.trees = world.trees /\ v.conf = world.conf /\ v.store = "active"
    BY DEF WorldTyped, Worlds
  <2>2. Edit(w) /\ world.store = "shadow"
    BY <1>7 DEF Activate, WorldTyped, Worlds
  <2> HIDE DEF v
  <2>3. w \in Worlds /\ w.rows = world.rows /\ w.version = world.version
        /\ w.trees = world.trees /\ w.conf = world.conf /\ w.store = "active"
        /\ w.frozen = world.rows
    BY <2>1 DEF Worlds, WorldTyped
  <2> HIDE DEF w
  <2>4. Step(w)
    BY <2>2, <2>3 DEF WorldTyped, Worlds
  <2>5. QED
    BY <1>1, <2>4
<1>8. ASSUME NEW c \in Clients, RemoveWorktree(c)
      PROVE  WorldTyped' /\ Grows /\ UNCHANGED <<reader, app, sources, query>>
  <2> DEFINE v == [world EXCEPT !.trees = @ + 1]
             w == [v EXCEPT !.gone = @ \cup {c}]
  <2>1. v \in Worlds /\ v.rows = world.rows /\ v.version = world.version
        /\ v.trees = world.trees + 1 /\ v.conf = world.conf /\ v.store = world.store
        /\ v.frozen = world.frozen
    BY DEF WorldTyped, Worlds
  <2>2. Edit(w)
    BY <1>8 DEF RemoveWorktree, WorldTyped, Worlds
  <2> HIDE DEF v
  <2>3. w \in Worlds /\ w.rows = world.rows /\ w.version = world.version
        /\ w.trees = world.trees + 1 /\ w.conf = world.conf /\ w.store = world.store
        /\ w.frozen = world.frozen
    BY <2>1 DEF Worlds
  <2> HIDE DEF w
  <2>4. Step(w)
    BY <2>2, <2>3 DEF WorldTyped, Worlds
  <2>5. QED
    BY <1>1, <2>4
<1>9. QED
  BY <1>2, <1>3, <1>4, <1>5, <1>6, <1>7, <1>8 DEF WorldNext

LEMMA WorldInv ==
  ASSUME QueryInv, WorldNext
  PROVE  QueryInv'
<1>1. WorldTyped' /\ Grows /\ UNCHANGED <<reader, app, sources, query>>
  BY WorldSteps DEF QueryInv, QueryTyped
<1>2. QueryTyped'
  BY <1>1 DEF QueryInv, QueryTyped, ReaderTyped, AppTyped
<1>3. /\ world.rows \in Nat /\ world.frozen \in Nat /\ world.version \in Nat
      /\ world.trees \in Nat /\ world.conf \in Nat
      /\ world'.rows \in Nat /\ world'.frozen \in Nat /\ world'.version \in Nat
      /\ world'.trees \in Nat /\ world'.conf \in Nat
  BY <1>1 DEF QueryInv, QueryTyped, WorldTyped, Worlds
<1>4. RowsKnown'
  BY <1>1, <1>3 DEF QueryInv, RowsKnown, Grows
<1>5. /\ reader.proof # None => reader.proof.origins \in Nat
      /\ reader.fp # None => reader.fp \in Nat
      /\ app.git # None => app.git.trees \in Nat /\ app.git.conf \in Nat
  BY DEF QueryInv, QueryTyped, ReaderTyped, AppTyped, OriginProofs, GitFacts
<1>6. FactsKnown'
  BY <1>1, <1>3, <1>5 DEF QueryInv, FactsKnown, Backed, Grows
<1>7. ASSUME query.pc # "rest"
      PROVE  RowsSeen(query)' /\ TreesSeen(query)' /\ Concluded(query)'
  <2>1. /\ RowsSeen(query) /\ TreesSeen(query) /\ Concluded(query)
        /\ query \in Queries
    BY <1>7 DEF QueryInv, QueryTyped, QueryHolds, Idle
  <2>2. /\ query.start.rows \in Nat /\ query.start.trees \in Nat /\ query.start.conf \in Nat
        /\ query.rows \in Nat /\ query.version \in Nat
        /\ query.trees # None => query.trees \in Nat
        /\ query.lease # None => query.lease.origins \in Nat
    BY <2>1 DEF Queries, OriginProofs
  <2>3. RowsSeen(query)'
    BY <1>1, <1>3, <2>1, <2>2 DEF RowsSeen, Grows, Pinned, QueryInv, RowsKnown
  <2>4. TreesSeen(query)'
    BY <1>1, <1>3, <2>1, <2>2 DEF TreesSeen, Backed, Grows
  <2>5. Concluded(query)'
    BY <1>1, <1>3, <2>1 DEF Concluded, Targets, GitFacts, Grows
  <2>6. QED
    BY <2>3, <2>4, <2>5
<1>8. QueryHolds'
  BY <1>1, <1>7 DEF QueryHolds
<1>9. QED
  BY <1>2, <1>4, <1>6, <1>8 DEF QueryInv

-----------------------------------------------------------------------------
\* What a step of the query starts from, and what it keeps.

QueryGood(q) == RowsSeen(q) /\ TreesSeen(q) /\ Concluded(q)

LEMMA UnderWay ==
  ASSUME QueryInv, query # Idle \/ query.pc # "rest"
  PROVE  query \in Queries /\ query.pc # "rest" /\ query # Idle /\ QueryGood(query)
<1>1. query \in Queries
  BY DEF QueryInv, QueryTyped, Idle
<1>2. query.pc # "rest"
  BY <1>1 DEF Queries, Steps
<1>3. QED
  BY <1>1, <1>2 DEF QueryInv, QueryHolds, QueryGood, Idle

\* The numbers of a typed query.
LEMMA QueryNumbers ==
  ASSUME NEW q \in Queries
  PROVE  /\ q.start.rows \in Nat /\ q.start.trees \in Nat /\ q.start.conf \in Nat
         /\ q.rows \in Nat /\ q.version \in Nat
         /\ q.trees # None => q.trees \in Nat
         /\ q.conf # None => q.conf \in Nat
         /\ q.lease # None =>
               q.lease \in OriginProofs /\ q.lease.origins \in Nat /\ q.lease.evidence \in Nat
         /\ q.evidence # None => q.evidence.trees \in Nat /\ q.evidence.conf \in Nat
         /\ q.pc \in Steps /\ q.path \in Paths /\ q.client \in Clients
BY DEF Queries, OriginProofs

LEMMA WorldNumbers ==
  ASSUME QueryInv
  PROVE  /\ world.rows \in Nat /\ world.frozen \in Nat /\ world.version \in Nat
         /\ world.trees \in Nat /\ world.conf \in Nat
BY DEF QueryInv, QueryTyped, WorldTyped, Worlds

\* All but where the query is and by which path.
Same(q, r) ==
    /\ q.client = r.client /\ q.conf = r.conf /\ q.start = r.start /\ q.lease = r.lease
    /\ q.rows = r.rows /\ q.version = r.version /\ q.trees = r.trees
    /\ q.evidence = r.evidence

LEMMA GotoKeeps ==
  ASSUME query \in Queries, NEW s \in Steps, Goto(s)
  PROVE  query' \in Queries /\ query'.pc = s /\ query'.path = query.path /\ Same(query', query)
BY DEF Goto, Queries, Same

LEMMA TakeKeeps ==
  ASSUME query \in Queries, NEW p \in Paths, NEW s \in Steps, Take(p, s)
  PROVE  query' \in Queries /\ query'.pc = s /\ query'.path = p /\ Same(query', query)
<1> DEFINE q == [query EXCEPT !.path = p]
<1>1. q \in Queries /\ q.path = p /\ Same(q, query)
  BY DEF Queries, Same
<1>2. query' = [q EXCEPT !.pc = s]
  BY DEF Take, Queries
<1> HIDE DEF q
<1>3. QED
  BY <1>1, <1>2 DEF Queries, Same

\* A query that ends leaves nothing to show.
LEMMA Ends ==
  ASSUME QueryInv, query' = Idle, UNCHANGED <<world, sources>>,
         ReaderTyped', AppTyped', RowsKnown', FactsKnown'
  PROVE  QueryInv'
<1>1. QueryTyped'
  BY DEF QueryInv, QueryTyped, WorldTyped
<1>2. QueryHolds'
  BY DEF QueryHolds, Idle
<1>3. QED
  BY <1>1, <1>2 DEF QueryInv

LEMMA Continues ==
  ASSUME QueryInv, query' \in Queries, UNCHANGED world,
         sources' \in [Clients -> Nat \cup {None}],
         ReaderTyped', AppTyped', RowsKnown', FactsKnown', QueryGood(query)'
  PROVE  QueryInv'
<1>1. QueryTyped'
  BY DEF QueryInv, QueryTyped, WorldTyped
<1>2. QueryHolds'
  BY DEF QueryHolds, QueryGood
<1>3. QED
  BY <1>1, <1>2 DEF QueryInv

\* A step that changes neither the reader nor the application.
LEMMA Proceeds ==
  ASSUME QueryInv, query' \in Queries, UNCHANGED <<world, reader, app>>,
         sources' \in [Clients -> Nat \cup {None}], QueryGood(query)'
  PROVE  QueryInv'
BY Continues DEF QueryInv, QueryTyped, ReaderTyped, AppTyped, RowsKnown, FactsKnown, Backed

LEMMA SourcesTyped ==
  ASSUME QueryInv
  PROVE  /\ sources \in [Clients -> Nat \cup {None}]
         /\ UNCHANGED sources => sources' \in [Clients -> Nat \cup {None}]
         /\ DropSource => sources' \in [Clients -> Nat \cup {None}]
BY DEF QueryInv, QueryTyped, DropSource

\* Discarding every cache is always allowed.
LEMMA Discards ==
  ASSUME QueryInv, DiscardCaches, UNCHANGED world
  PROVE  ReaderTyped' /\ AppTyped' /\ RowsKnown' /\ FactsKnown'
<1>1. ReaderTyped' /\ reader'.cached = None /\ reader'.proof = None /\ reader'.fp = None
  BY DEF DiscardCaches, Closed, ReaderTyped
<1>2. AppTyped' /\ app'.git = None
  <2>1. app \in [home : Clients \cup {None}, git : GitFacts \cup {None},
                 dirty : BOOLEAN, aged : BOOLEAN, fp : Nat \cup {None}]
    BY DEF QueryInv, QueryTyped, AppTyped
  <2>2. app' = [[[app EXCEPT !.git = None] EXCEPT !.dirty = TRUE] EXCEPT !.fp = None]
    BY <2>1 DEF DiscardCaches, Discarded
  <2>3. QED
    BY <2>1, <2>2 DEF AppTyped
<1>3. QED
  BY <1>1, <1>2 DEF RowsKnown, FactsKnown, QueryInv

-----------------------------------------------------------------------------
\* The steps of a query, one lemma each.

LEMMA AgeInv ==
  ASSUME QueryInv, Age
  PROVE  QueryInv'
<1>1. AppTyped' /\ app'.git = app.git /\ app'.fp = app.fp
  BY DEF Age, QueryInv, QueryTyped, AppTyped
<1>2. UNCHANGED <<world, reader, sources, query>>
  BY DEF Age
<1>3. QueryTyped' /\ RowsKnown' /\ FactsKnown'
  BY <1>1, <1>2 DEF QueryInv, QueryTyped, WorldTyped, ReaderTyped, RowsKnown, FactsKnown, Backed
<1>4. QueryHolds'
  BY <1>1, <1>2 DEF QueryInv, QueryHolds, RowsSeen, TreesSeen, Concluded, Backed
<1>5. QED
  BY <1>3, <1>4 DEF QueryInv

LEMMA BeginInv ==
  ASSUME QueryInv, NEW c \in Clients, Begin(c)
  PROVE  QueryInv'
<1> DEFINE q == [pc |-> "capture", client |-> c, path |-> "cold", conf |-> sources[c],
                 start |-> [rows |-> world.rows, trees |-> world.trees, conf |-> world.conf],
                 lease |-> None, tries |-> 0, rows |-> 0, version |-> 0, trees |-> None,
                 evidence |-> None]
<1>1. q \in Queries
  BY WorldNumbers, SourcesTyped DEF Queries, Steps, Paths
<1>2. UNCHANGED <<world, app, sources>>
  BY DEF Begin
<1>3. /\ q.start.rows = world.rows /\ q.start.trees = world.trees /\ q.start.conf = world.conf
      /\ q.trees = None /\ q.pc = "capture" /\ q.path = "cold"
  OBVIOUS
<1>4. CASE query' = q /\ UNCHANGED reader
  <2>1. QueryGood(query)'
    BY <1>2, <1>3, <1>4, WorldNumbers
       DEF QueryGood, RowsSeen, TreesSeen, Concluded, Pinned, Observed
  <2>2. QED
    BY <1>1, <1>2, <1>4, <2>1, Proceeds, SourcesTyped
<1>5. CASE query' = [q EXCEPT !.pc = "validate", !.path = "verified"] /\ UNCHANGED reader
  <2> DEFINE r == [q EXCEPT !.pc = "validate"]
  <2>1. r \in Queries /\ r.start = q.start /\ r.trees = None /\ r.pc = "validate"
    BY <1>1, <1>3 DEF Queries, Steps
  <2>2. query' = [r EXCEPT !.path = "verified"]
    BY <1>1, <1>5 DEF Queries
  <2> HIDE DEF r
  <2>3. /\ query' \in Queries /\ query'.start = q.start /\ query'.trees = None
        /\ query'.pc = "validate" /\ query'.path = "verified"
    BY <2>1, <2>2 DEF Queries, Paths
  <2> HIDE DEF q
  <2>4. QueryGood(query)'
    BY <1>2, <1>3, <1>5, <2>3, WorldNumbers
       DEF QueryGood, RowsSeen, TreesSeen, Concluded, Pinned, Observed
  <2>5. QED
    BY <1>2, <1>5, <2>3, <2>4, Proceeds, SourcesTyped
<1>6. CASE /\ Leasable(c)
           /\ query' = [q EXCEPT !.pc = "opening", !.path = "epoch", !.lease = reader.proof]
           /\ reader' = [reader EXCEPT !.proof = None]
  <2> DEFINE r == [q EXCEPT !.pc = "opening"]
             t == [r EXCEPT !.path = "epoch"]
  <2>1. reader.proof # None /\ reader.proof \in OriginProofs /\ Backed(reader.proof)
    BY <1>6 DEF Leasable, QueryInv, QueryTyped, ReaderTyped, FactsKnown
  <2>2. r \in Queries /\ r.start = q.start /\ r.trees = None /\ r.pc = "opening"
    BY <1>1, <1>3 DEF Queries, Steps
  <2>3. query' = [t EXCEPT !.lease = reader.proof]
    BY <1>1, <1>6 DEF Queries
  <2> HIDE DEF r
  <2>4. t \in Queries /\ t.start = q.start /\ t.trees = None /\ t.pc = "opening"
        /\ t.path = "epoch"
    BY <2>2 DEF Queries, Paths
  <2> HIDE DEF t
  <2>5. /\ query' \in Queries /\ query'.start = q.start /\ query'.trees = None
        /\ query'.pc = "opening" /\ query'.path = "epoch" /\ query'.lease = reader.proof
    BY <2>1, <2>3, <2>4 DEF Queries
  <2> HIDE DEF q
  <2>6. QueryGood(query)'
    BY <1>2, <1>3, <2>1, <2>5, WorldNumbers
       DEF QueryGood, RowsSeen, TreesSeen, Concluded, Pinned, Observed, Backed
  <2>7. /\ ReaderTyped' /\ reader'.cached = reader.cached /\ reader'.version = reader.version
        /\ reader'.proof = None /\ reader'.fp = reader.fp
    BY <1>6 DEF QueryInv, QueryTyped, ReaderTyped
  <2>8. AppTyped' /\ RowsKnown' /\ FactsKnown'
    BY <1>2, <2>7 DEF QueryInv, QueryTyped, AppTyped, RowsKnown, FactsKnown
  <2>9. QED
    BY <1>2, <2>5, <2>6, <2>7, <2>8, Continues, SourcesTyped
<1>7. QED
  <2>1. \/ query' = q /\ UNCHANGED reader
        \/ query' = [q EXCEPT !.pc = "validate", !.path = "verified"] /\ UNCHANGED reader
        \/ /\ Leasable(c)
           /\ query' = [q EXCEPT !.pc = "opening", !.path = "epoch", !.lease = reader.proof]
           /\ reader' = [reader EXCEPT !.proof = None]
    BY DEF Begin
  <2>2. QED
    BY <1>4, <1>5, <1>6, <2>1

\* Where a query goes when it is asked anew: nothing it has seen is in the way.
LEMMA StartsOver ==
  ASSUME QueryInv, query \in Queries, query.pc # "rest", UNCHANGED world,
         query' \in Queries, Same(query', query),
         query'.pc \in {"capture", "validate", "inspect"}, query'.path # "epoch"
  PROVE  QueryGood(query)'
<1>1. QueryGood(query)
  BY UnderWay
<1>2. QED
  BY <1>1 DEF QueryGood, RowsSeen, TreesSeen, Concluded, Pinned, Observed, Same

LEMMA OpeningInv ==
  ASSUME QueryInv, Opening
  PROVE  QueryInv'
<1>1. query \in Queries /\ query.pc = "opening" /\ UNCHANGED world /\ QueryGood(query)
  BY UnderWay DEF Opening
<1>2. CASE DiscardCaches /\ DropSource /\ Take("cold", "capture")
  <2>1. query' \in Queries /\ Same(query', query) /\ query'.pc = "capture"
        /\ query'.path = "cold"
    BY <1>1, <1>2, TakeKeeps DEF Steps, Paths
  <2>2. QueryGood(query)'
    BY <1>1, <2>1, StartsOver
  <2>3. QED
    BY <1>1, <1>2, <2>1, <2>2, Discards, SourcesTyped, Continues
<1>3. CASE DiscardCaches /\ Take("verified", "validate") /\ UNCHANGED sources
  <2>1. query' \in Queries /\ Same(query', query) /\ query'.pc = "validate"
        /\ query'.path = "verified"
    BY <1>1, <1>3, TakeKeeps DEF Steps, Paths
  <2>2. QueryGood(query)'
    BY <1>1, <2>1, StartsOver
  <2>3. QED
    BY <1>1, <1>3, <2>1, <2>2, Discards, SourcesTyped, Continues
<1>4. CASE OriginValid /\ Goto("anchor") /\ UNCHANGED <<reader, app, sources>>
  <2>1. query' \in Queries /\ Same(query', query) /\ query'.pc = "anchor"
        /\ query'.path = query.path
    BY <1>1, <1>4, GotoKeeps DEF Steps
  <2>2. QueryGood(query)'
    BY <1>1, <1>4, <2>1, WorldNumbers, QueryNumbers
       DEF QueryGood, RowsSeen, TreesSeen, Concluded, Pinned, Observed, Same, OriginValid, Backed
  <2>3. QED
    BY <1>1, <1>4, <2>1, <2>2, SourcesTyped, Proceeds
<1>5. QED
  BY <1>2, <1>3, <1>4 DEF Opening

LEMMA ValidateInv ==
  ASSUME QueryInv, Validate
  PROVE  QueryInv'
<1>1. /\ query \in Queries /\ query.pc = "validate" /\ QueryGood(query)
      /\ UNCHANGED <<world, reader, app>>
  BY UnderWay DEF Validate
<1>2. CASE Goto("anchor") /\ UNCHANGED sources
  <2>1. query' \in Queries /\ Same(query', query) /\ query'.pc = "anchor"
        /\ query'.path = query.path
    BY <1>1, <1>2, GotoKeeps DEF Steps
  <2>2. QueryGood(query)'
    BY <1>1, <2>1
       DEF QueryGood, RowsSeen, TreesSeen, Concluded, Pinned, Observed, Same, Backed
  <2>3. QED
    BY <1>1, <1>2, <2>1, <2>2, SourcesTyped, Proceeds
<1>3. CASE DropSource /\ Take("cold", "capture")
  <2>1. query' \in Queries /\ Same(query', query) /\ query'.pc = "capture"
        /\ query'.path = "cold"
    BY <1>1, <1>3, TakeKeeps DEF Steps, Paths
  <2>2. QueryGood(query)'
    BY <1>1, <2>1, StartsOver
  <2>3. QED
    BY <1>1, <1>3, <2>1, <2>2, SourcesTyped, Proceeds
<1>4. QED
  BY <1>2, <1>3 DEF Validate

LEMMA CaptureInv ==
  ASSUME QueryInv, Capture
  PROVE  QueryInv'
<1>1. /\ query \in Queries /\ query.pc = "capture" /\ QueryGood(query)
      /\ UNCHANGED <<world, reader, app, sources>>
  BY UnderWay DEF Capture
<1>2. PICK conf \in {world.conf, None} :
        query' = [query EXCEPT !.pc = "inspect", !.conf = conf]
  BY DEF Capture
<1> DEFINE q == [query EXCEPT !.pc = "inspect"]
<1>3. q \in Queries /\ Same(q, query) /\ q.pc = "inspect" /\ q.path = query.path
  BY <1>1 DEF Queries, Steps, Same
<1>4. query' = [q EXCEPT !.conf = conf]
  BY <1>1, <1>2 DEF Queries
<1> HIDE DEF q
<1>5. /\ query' \in Queries /\ query'.pc = "inspect" /\ query'.path = query.path
      /\ query'.start = query.start /\ query'.trees = query.trees
      /\ query'.lease = query.lease
  BY <1>3, <1>4, WorldNumbers DEF Queries, Same
<1>6. QueryGood(query)'
  BY <1>1, <1>5 DEF QueryGood, RowsSeen, TreesSeen, Concluded, Pinned, Observed, Backed
<1>7. QED
  BY <1>1, <1>5, <1>6, SourcesTyped, Proceeds

LEMMA InspectInv ==
  ASSUME QueryInv, Inspect
  PROVE  QueryInv'
<1>1. /\ query \in Queries /\ query.pc = "inspect" /\ QueryGood(query)
      /\ UNCHANGED <<world, reader, sources>>
  BY UnderWay DEF Inspect
<1> DEFINE p == IF SourceValid THEN "cold" ELSE "fallback"
<1>2. p \in Paths /\ p # "epoch" /\ Take(p, "anchor")
  BY DEF Inspect, Paths
<1> HIDE DEF p
<1>3. query' \in Queries /\ Same(query', query) /\ query'.pc = "anchor" /\ query'.path = p
  BY <1>1, <1>2, TakeKeeps DEF Steps
<1>4. AppTyped' /\ app'.git = app.git /\ app'.fp = app.fp
  BY <1>1, QueryNumbers DEF Inspect, QueryInv, QueryTyped, AppTyped
<1>5. ReaderTyped' /\ RowsKnown' /\ FactsKnown'
  BY <1>1, <1>4 DEF QueryInv, QueryTyped, ReaderTyped, RowsKnown, FactsKnown, Backed
<1>6. QueryGood(query)'
  BY <1>1, <1>2, <1>3 DEF QueryGood, RowsSeen, TreesSeen, Concluded, Pinned, Observed, Same
<1>7. QED
  BY <1>1, <1>3, <1>4, <1>5, <1>6, SourcesTyped, Continues

LEMMA AnchorInv ==
  ASSUME QueryInv, Anchor
  PROVE  QueryInv'
<1>1. /\ query \in Queries /\ query.pc = "anchor" /\ QueryGood(query)
      /\ UNCHANGED <<world, sources>> /\ Goto("read")
  BY UnderWay DEF Anchor
<1>2. query' \in Queries /\ Same(query', query) /\ query'.pc = "read"
      /\ query'.path = query.path
  BY <1>1, GotoKeeps DEF Steps
<1>3. QueryGood(query)'
  BY <1>1, <1>2 DEF QueryGood, RowsSeen, TreesSeen, Concluded, Pinned, Observed, Same, Backed
<1>4. ReaderTyped' /\ AppTyped' /\ RowsKnown' /\ FactsKnown'
  <2>1. CASE HomeGone
    <3> DEFINE a == Discarded(app)
               b == [a EXCEPT !.home = query.client]
    <3>1. app' = [b EXCEPT !.fp = app.fp] /\ reader' = Closed
      BY <2>1 DEF Anchor, Discarded, QueryInv, QueryTyped, AppTyped
    <3>2. a \in [home : Clients \cup {None}, git : GitFacts \cup {None},
                 dirty : BOOLEAN, aged : BOOLEAN, fp : Nat \cup {None}] /\ a.git = None
      <4>1. a = [[[app EXCEPT !.git = None] EXCEPT !.dirty = TRUE] EXCEPT !.fp = None]
        BY DEF Discarded, QueryInv, QueryTyped, AppTyped
      <4>2. QED
        BY <4>1 DEF QueryInv, QueryTyped, AppTyped
    <3> HIDE DEF a
    <3>3. b \in [home : Clients \cup {None}, git : GitFacts \cup {None},
                 dirty : BOOLEAN, aged : BOOLEAN, fp : Nat \cup {None}] /\ b.git = None
      BY <1>1, <3>2, QueryNumbers
    <3> HIDE DEF b
    <3>4. AppTyped' /\ app'.git = None
      BY <3>1, <3>3 DEF AppTyped, QueryInv, QueryTyped
    <3>5. ReaderTyped' /\ reader'.cached = None /\ reader'.proof = None /\ reader'.fp = None
      BY <3>1 DEF Closed, ReaderTyped
    <3>6. QED
      BY <1>1, <3>4, <3>5 DEF RowsKnown, FactsKnown, QueryInv
  <2>2. CASE UNCHANGED <<reader, app>>
    BY <1>1, <2>2
       DEF QueryInv, QueryTyped, ReaderTyped, AppTyped, RowsKnown, FactsKnown, Backed
  <2>3. QED
    BY <2>1, <2>2 DEF Anchor
<1>5. QED
  BY <1>1, <1>2, <1>3, <1>4, SourcesTyped, Continues

LEMMA PinInv ==
  ASSUME QueryInv, Pin
  PROVE  QueryInv'
<1> DEFINE cached == IF reader.version = world.version THEN reader.cached ELSE None
           rows == IF cached = None THEN world.rows ELSE cached
           s == IF world.store = "active" THEN "origins" ELSE "legacy"
           o == reader.open \/ world.store # "files"
<1>1. /\ query \in Queries /\ query.pc = "read" /\ QueryGood(query)
      /\ UNCHANGED <<world, app, sources>>
  BY UnderWay DEF Pin
<1>2. /\ reader' = [reader EXCEPT !.open = o, !.cached = cached]
      /\ query' = [query EXCEPT !.rows = rows, !.version = world.version, !.pc = s]
  BY DEF Pin, QueryInv, QueryTyped, ReaderTyped
<1>3. rows = world.rows /\ cached \in Nat \cup {None} /\ s \in Steps /\ o \in BOOLEAN
  BY DEF QueryInv, QueryTyped, ReaderTyped, RowsKnown, Steps
<1>4. cached # None => cached = reader.cached
  OBVIOUS
<1>5. /\ world.store = "active" => s = "origins"
      /\ world.store # "active" => s = "legacy"
  OBVIOUS
<1> HIDE DEF cached, rows, s, o
<1>6. /\ ReaderTyped' /\ reader'.cached = cached /\ reader'.version = reader.version
      /\ reader'.proof = reader.proof /\ reader'.fp = reader.fp
  <2> DEFINE r == [reader EXCEPT !.open = o]
  <2>1. r \in [open : BOOLEAN, cached : Nat \cup {None}, version : Nat \cup {None},
               proof : OriginProofs \cup {None}, fp : Nat \cup {None}]
        /\ r.version = reader.version /\ r.proof = reader.proof /\ r.fp = reader.fp
    BY <1>3 DEF QueryInv, QueryTyped, ReaderTyped
  <2>2. reader' = [r EXCEPT !.cached = cached]
    BY <1>2 DEF QueryInv, QueryTyped, ReaderTyped
  <2> HIDE DEF r
  <2>3. QED
    BY <1>3, <2>1, <2>2 DEF ReaderTyped
<1>7. /\ query' \in Queries /\ query'.pc = s /\ query'.rows = world.rows
      /\ query'.version = world.version /\ query'.start = query.start
      /\ query'.trees = query.trees /\ query'.lease = query.lease /\ query'.path = query.path
  <2> DEFINE q == [query EXCEPT !.rows = rows]
             r == [q EXCEPT !.version = world.version]
  <2>1. q \in Queries /\ q.rows = world.rows /\ q.start = query.start
        /\ q.trees = query.trees /\ q.lease = query.lease /\ q.path = query.path
    BY <1>1, <1>3, WorldNumbers DEF Queries
  <2>2. query' = [r EXCEPT !.pc = s]
    BY <1>1, <1>2 DEF Queries
  <2> HIDE DEF q
  <2>3. r \in Queries /\ r.rows = world.rows /\ r.version = world.version
        /\ r.start = query.start
        /\ r.trees = query.trees /\ r.lease = query.lease /\ r.path = query.path
    BY <2>1, WorldNumbers DEF Queries
  <2> HIDE DEF r
  <2>4. QED
    BY <1>3, <2>2, <2>3 DEF Queries
<1>8. AppTyped' /\ RowsKnown' /\ FactsKnown'
  BY <1>1, <1>4, <1>6
     DEF QueryInv, QueryTyped, AppTyped, RowsKnown, FactsKnown, Backed
<1>9. QueryGood(query)'
  <2>2. RowsSeen(query)'
    BY <1>1, <1>5, <1>7, WorldNumbers DEF QueryGood, RowsSeen, Pinned, Observed
  <2>3. TreesSeen(query)'
    BY <1>1, <1>5, <1>7 DEF QueryGood, TreesSeen, Backed
  <2>4. Concluded(query)'
    BY <1>1, <1>5, <1>7 DEF QueryGood, Concluded, Observed
  <2>5. QED
    BY <2>2, <2>3, <2>4 DEF QueryGood
<1>10. QED
  BY <1>1, <1>6, <1>7, <1>8, <1>9, SourcesTyped, Continues

LEMMA ReadLegacyInv ==
  ASSUME QueryInv, ReadLegacy
  PROVE  QueryInv'
<1> DEFINE rows == IF world.store = "active" THEN world.frozen ELSE world.rows
           q == [query EXCEPT !.pc = "reprobe"]
<1>1. /\ query \in Queries /\ query.pc = "legacy" /\ QueryGood(query)
      /\ UNCHANGED <<world, reader, app, sources>>
  BY UnderWay DEF ReadLegacy
<1>2. query.start.rows <= rows /\ rows <= world.rows /\ rows \in Nat
  BY <1>1, WorldNumbers, QueryNumbers DEF QueryGood, RowsSeen, QueryInv, RowsKnown
<1>3. query' = [q EXCEPT !.rows = rows]
  BY <1>1 DEF ReadLegacy, Queries
<1> HIDE DEF rows
<1>4. q \in Queries /\ q.pc = "reprobe" /\ Same(q, query) /\ q.path = query.path
  BY <1>1 DEF Queries, Steps, Same
<1> HIDE DEF q
<1>5. /\ query' \in Queries /\ query'.pc = "reprobe" /\ query'.path = query.path
      /\ query'.start = query.start /\ query'.trees = query.trees
      /\ query'.lease = query.lease /\ query'.rows = rows
  BY <1>2, <1>3, <1>4 DEF Queries, Same
<1>6. QueryGood(query)'
  BY <1>1, <1>2, <1>5 DEF QueryGood, RowsSeen, TreesSeen, Concluded, Pinned, Observed, Backed
<1>7. QED
  BY <1>1, <1>5, <1>6, SourcesTyped, Proceeds

LEMMA ReprobeInv ==
  ASSUME QueryInv, Reprobe
  PROVE  QueryInv'
<1>1. /\ query \in Queries /\ query.pc = "reprobe" /\ QueryGood(query)
      /\ UNCHANGED <<world, app, sources>>
  BY UnderWay DEF Reprobe
<1>2. CASE reader' = Closed /\ query' = [query EXCEPT !.pc = "read", !.tries = 1]
  <2> DEFINE q == [query EXCEPT !.pc = "read"]
  <2>1. q \in Queries /\ q.pc = "read" /\ Same(q, query) /\ q.path = query.path
    BY <1>1 DEF Queries, Steps, Same
  <2>2. query' = [q EXCEPT !.tries = 1]
    BY <1>1, <1>2 DEF Queries
  <2> HIDE DEF q
  <2>3. query' \in Queries /\ query'.pc = "read" /\ Same(query', query)
        /\ query'.path = query.path
    BY <2>1, <2>2 DEF Queries, Same
  <2>4. QueryGood(query)'
    BY <1>1, <2>3
       DEF QueryGood, RowsSeen, TreesSeen, Concluded, Pinned, Observed, Same, Backed
  <2>5. ReaderTyped' /\ reader'.cached = None /\ reader'.proof = None /\ reader'.fp = None
    BY <1>2 DEF Closed, ReaderTyped
  <2>6. AppTyped' /\ RowsKnown' /\ FactsKnown'
    BY <1>1, <2>5 DEF QueryInv, QueryTyped, AppTyped, RowsKnown, FactsKnown
  <2>7. QED
    BY <1>1, <2>3, <2>4, <2>5, <2>6, SourcesTyped, Continues
<1>3. CASE Goto("collect") /\ UNCHANGED reader
  <2>1. query' \in Queries /\ query'.pc = "collect" /\ Same(query', query)
        /\ query'.path = query.path
    BY <1>1, <1>3, GotoKeeps DEF Steps
  <2>2. QueryGood(query)'
    BY <1>1, <2>1
       DEF QueryGood, RowsSeen, TreesSeen, Concluded, Pinned, Observed, Same, Backed
  <2>3. QED
    BY <1>1, <1>3, <2>1, <2>2, SourcesTyped, Proceeds
<1>4. QED
  BY <1>2, <1>3 DEF Reprobe

\* A list of worktrees read now.
LEMMA ListsNow ==
  ASSUME QueryInv, query \in Queries, query.pc \in Pinned, query.path # "epoch",
         NEW s \in {"close", "recheck", "acquire"},
         s = "acquire" => query.pc = "enumerate",
         query' \in Queries, query'.pc = s, query'.trees = world.trees,
         query'.start = query.start, query'.path = query.path, query'.rows = query.rows,
         query'.version = query.version,
         query'.evidence = query.evidence \/ s # "acquire",
         UNCHANGED world
  PROVE  QueryGood(query)'
<1>1. QueryGood(query)
  BY UnderWay DEF Pinned
<1>2. query'.trees \in Nat
  BY WorldNumbers
<1>3. RowsSeen(query)'
  BY <1>1 DEF QueryGood, RowsSeen, Pinned, Observed
<1>4. TreesSeen(query)'
  BY <1>1, <1>2, WorldNumbers DEF QueryGood, RowsSeen, TreesSeen, Pinned
<1>5. Concluded(query)'
  BY DEF Concluded, Observed
<1>6. QED
  BY <1>3, <1>4, <1>5 DEF QueryGood

LEMMA OriginsInv ==
  ASSUME QueryInv, Origins
  PROVE  QueryInv'
<1>1. /\ query \in Queries /\ query.pc = "origins" /\ QueryGood(query)
      /\ UNCHANGED <<world, app, sources>>
  BY UnderWay DEF Origins
<1>2. CASE /\ query.path = "epoch" /\ UNCHANGED reader
           /\ query' = [query EXCEPT !.pc = "close", !.trees = query.lease.origins]
  <2> DEFINE q == [query EXCEPT !.pc = "close"]
  <2>1. /\ query.lease # None /\ query.lease.origins \in Nat /\ Backed(query.lease)
        /\ query.start.trees <= query.lease.origins
    BY <1>1, <1>2, QueryNumbers DEF QueryGood, TreesSeen
  <2>2. q \in Queries /\ q.pc = "close" /\ Same(q, query) /\ q.path = query.path
    BY <1>1 DEF Queries, Steps, Same
  <2>3. query' = [q EXCEPT !.trees = query.lease.origins]
    BY <1>1, <1>2 DEF Queries
  <2> HIDE DEF q
  <2>4. /\ query' \in Queries /\ query'.pc = "close" /\ query'.path = query.path
        /\ query'.start = query.start /\ query'.trees = query.lease.origins
        /\ query'.lease = query.lease /\ query'.rows = query.rows
        /\ query'.version = query.version
    BY <2>1, <2>2, <2>3 DEF Queries, Same
  <2>5. QueryGood(query)'
    BY <1>1, <2>1, <2>4
       DEF QueryGood, RowsSeen, TreesSeen, Concluded, Pinned, Observed, Backed
  <2>6. QED
    BY <1>1, <1>2, <2>4, <2>5, SourcesTyped, Proceeds
<1>3. CASE /\ query.path # "epoch" /\ reader.proof # None /\ ProofValid /\ UNCHANGED reader
           /\ query' = [query EXCEPT !.pc = "recheck", !.trees = reader.proof.origins]
  <2> DEFINE q == [query EXCEPT !.pc = "recheck"]
  <2>1. reader.proof.origins = world.trees
    BY <1>3 DEF ProofValid, QueryInv, FactsKnown, Backed
  <2>2. q \in Queries /\ q.pc = "recheck" /\ Same(q, query) /\ q.path = query.path
    BY <1>1 DEF Queries, Steps, Same
  <2>3. query' = [q EXCEPT !.trees = world.trees]
    BY <1>1, <1>3, <2>1 DEF Queries
  <2> HIDE DEF q
  <2>4. /\ query' \in Queries /\ query'.pc = "recheck" /\ query'.path = query.path
        /\ query'.start = query.start /\ query'.trees = world.trees
        /\ query'.rows = query.rows /\ query'.version = query.version
    BY <2>2, <2>3, WorldNumbers DEF Queries, Same
  <2>5. QueryGood(query)'
    BY <1>1, <1>3, <2>4, ListsNow DEF Pinned
  <2>6. QED
    BY <1>1, <1>3, <2>4, <2>5, SourcesTyped, Proceeds
<1>4. CASE /\ query.path # "epoch" /\ reader' = [reader EXCEPT !.proof = None]
           /\ \/ query' = [query EXCEPT !.pc = "enumerate",
                              !.evidence = [trees |-> world.trees, conf |-> world.conf]]
              \/ query' = [query EXCEPT !.pc = "close", !.trees = world.trees]
  <2>1. /\ ReaderTyped' /\ reader'.cached = reader.cached /\ reader'.version = reader.version
        /\ reader'.proof = None /\ reader'.fp = reader.fp
    BY <1>4 DEF QueryInv, QueryTyped, ReaderTyped
  <2>2. AppTyped' /\ RowsKnown' /\ FactsKnown'
    BY <1>1, <2>1 DEF QueryInv, QueryTyped, AppTyped, RowsKnown, FactsKnown
  <2>3. CASE query' = [query EXCEPT !.pc = "enumerate",
                         !.evidence = [trees |-> world.trees, conf |-> world.conf]]
    <3> DEFINE e == [trees |-> world.trees, conf |-> world.conf]
               q == [query EXCEPT !.pc = "enumerate"]
    <3>1. q \in Queries /\ q.pc = "enumerate" /\ Same(q, query) /\ q.path = query.path
      BY <1>1 DEF Queries, Steps, Same
    <3>2. e \in [trees : Nat, conf : Nat]
      BY WorldNumbers
    <3>3. query' = [q EXCEPT !.evidence = e]
      BY <1>1, <2>3 DEF Queries
    <3> HIDE DEF q, e
    <3>4. /\ query' \in Queries /\ query'.pc = "enumerate" /\ query'.path = query.path
          /\ query'.start = query.start /\ query'.trees = query.trees
          /\ query'.rows = query.rows /\ query'.version = query.version /\ query'.evidence = e
      BY <3>1, <3>2, <3>3 DEF Queries, Same
    <3>5. QueryGood(query)'
      BY <1>1, <1>4, <3>2, <3>4
         DEF QueryGood, RowsSeen, TreesSeen, Concluded, Pinned, Observed
    <3>6. QED
      BY <1>1, <2>1, <2>2, <3>4, <3>5, SourcesTyped, Continues
  <2>4. CASE query' = [query EXCEPT !.pc = "close", !.trees = world.trees]
    <3> DEFINE q == [query EXCEPT !.pc = "close"]
    <3>1. q \in Queries /\ q.pc = "close" /\ Same(q, query) /\ q.path = query.path
      BY <1>1 DEF Queries, Steps, Same
    <3>2. query' = [q EXCEPT !.trees = world.trees]
      BY <1>1, <2>4 DEF Queries
    <3> HIDE DEF q
    <3>3. /\ query' \in Queries /\ query'.pc = "close" /\ query'.path = query.path
          /\ query'.start = query.start /\ query'.trees = world.trees
          /\ query'.rows = query.rows /\ query'.version = query.version
      BY <3>1, <3>2, WorldNumbers DEF Queries, Same
    <3>4. QueryGood(query)'
      BY <1>1, <1>4, <3>3, ListsNow DEF Pinned
    <3>5. QED
      BY <1>1, <2>1, <2>2, <3>3, <3>4, SourcesTyped, Continues
  <2>5. QED
    BY <1>4, <2>3, <2>4
<1>5. QED
  BY <1>2, <1>3, <1>4 DEF Origins

LEMMA EnumerateInv ==
  ASSUME QueryInv, Enumerate
  PROVE  QueryInv'
<1> DEFINE q == [query EXCEPT !.pc = "acquire"]
<1>1. /\ query \in Queries /\ query.pc = "enumerate" /\ query.path # "epoch"
      /\ UNCHANGED <<world, reader, app, sources>>
  BY UnderWay DEF Enumerate, QueryGood, TreesSeen
<1>2. q \in Queries /\ q.pc = "acquire" /\ Same(q, query) /\ q.path = query.path
  BY <1>1 DEF Queries, Steps, Same
<1>3. query' = [q EXCEPT !.trees = world.trees]
  BY <1>1 DEF Enumerate, Queries
<1> HIDE DEF q
<1>4. /\ query' \in Queries /\ query'.pc = "acquire" /\ query'.path = query.path
      /\ query'.start = query.start /\ query'.trees = world.trees
      /\ query'.rows = query.rows /\ query'.version = query.version
      /\ query'.evidence = query.evidence
  BY <1>2, <1>3, WorldNumbers DEF Queries, Same
<1>5. QueryGood(query)'
  BY <1>1, <1>4, ListsNow DEF Pinned
<1>6. QED
  BY <1>1, <1>4, <1>5, SourcesTyped, Proceeds

LEMMA AcquireInv ==
  ASSUME QueryInv, Acquire
  PROVE  QueryInv'
<1>1. /\ query \in Queries /\ query.pc = "acquire" /\ QueryGood(query)
      /\ UNCHANGED <<world, app, sources>> /\ query.path # "epoch"
      /\ query.evidence \in [trees : Nat, conf : Nat]
  BY UnderWay DEF Acquire, QueryGood, TreesSeen
<1>2. CASE /\ Sandwiched
           /\ reader' = [reader EXCEPT !.proof = [evidence |-> query.evidence.trees,
                            origins |-> query.trees, conf |-> query.evidence.conf]]
           /\ query' = [query EXCEPT !.pc = "recheck", !.evidence = None]
  <2> DEFINE l == [evidence |-> query.evidence.trees, origins |-> query.trees,
                   conf |-> query.evidence.conf]
             q == [query EXCEPT !.pc = "recheck"]
  <2>1. l \in OriginProofs /\ l.evidence = world.trees /\ l.origins = world.trees
    BY <1>1, <1>2, WorldNumbers DEF Sandwiched, OriginProofs
  <2>2. q \in Queries /\ q.pc = "recheck" /\ Same(q, query) /\ q.path = query.path
    BY <1>1 DEF Queries, Steps, Same
  <2>3. query' = [q EXCEPT !.evidence = None] /\ reader' = [reader EXCEPT !.proof = l]
    BY <1>1, <1>2 DEF Queries
  <2> HIDE DEF q, l
  <2>4. /\ query' \in Queries /\ query'.pc = "recheck" /\ query'.path = query.path
        /\ query'.start = query.start /\ query'.trees = world.trees
        /\ query'.rows = query.rows /\ query'.version = query.version
    BY <1>2, <2>2, <2>3 DEF Queries, Same, Sandwiched
  <2>5. QueryGood(query)'
    BY <1>1, <2>4, ListsNow DEF Pinned
  <2>6. /\ ReaderTyped' /\ reader'.cached = reader.cached /\ reader'.version = reader.version
        /\ reader'.proof = l /\ reader'.fp = reader.fp
    BY <2>1, <2>3 DEF QueryInv, QueryTyped, ReaderTyped
  <2>7. AppTyped' /\ RowsKnown' /\ FactsKnown'
    BY <1>1, <2>1, <2>6, WorldNumbers
       DEF QueryInv, QueryTyped, AppTyped, RowsKnown, FactsKnown, Backed
  <2>8. QED
    BY <1>1, <2>4, <2>5, <2>6, <2>7, SourcesTyped, Continues
<1>3. CASE /\ query' = [query EXCEPT !.pc = "close", !.trees = world.trees, !.evidence = None]
           /\ UNCHANGED reader
  <2> DEFINE q == [query EXCEPT !.pc = "close"]
             r == [q EXCEPT !.trees = world.trees]
  <2>1. q \in Queries /\ q.pc = "close" /\ Same(q, query) /\ q.path = query.path
    BY <1>1 DEF Queries, Steps, Same
  <2>2. query' = [r EXCEPT !.evidence = None]
    BY <1>1, <1>3 DEF Queries
  <2> HIDE DEF q
  <2>3. /\ r \in Queries /\ r.pc = "close" /\ r.path = query.path
        /\ r.start = query.start /\ r.trees = world.trees
        /\ r.rows = query.rows /\ r.version = query.version
    BY <2>1, WorldNumbers DEF Queries, Same
  <2> HIDE DEF r
  <2>4. /\ query' \in Queries /\ query'.pc = "close" /\ query'.path = query.path
        /\ query'.start = query.start /\ query'.trees = world.trees
        /\ query'.rows = query.rows /\ query'.version = query.version
    BY <2>2, <2>3 DEF Queries
  <2>5. QueryGood(query)'
    BY <1>1, <2>4, ListsNow DEF Pinned
  <2>6. QED
    BY <1>1, <1>3, <2>4, <2>5, SourcesTyped, Proceeds
<1>4. QED
  BY <1>2, <1>3 DEF Acquire

LEMMA RecheckInv ==
  ASSUME QueryInv, Recheck
  PROVE  QueryInv'
<1>1. /\ query \in Queries /\ query.pc = "recheck" /\ QueryGood(query)
      /\ UNCHANGED <<world, reader, app, sources>> /\ Goto("close")
  BY UnderWay DEF Recheck
<1>2. query' \in Queries /\ Same(query', query) /\ query'.pc = "close"
      /\ query'.path = query.path
  BY <1>1, GotoKeeps DEF Steps
<1>3. QueryGood(query)'
  BY <1>1, <1>2 DEF QueryGood, RowsSeen, TreesSeen, Concluded, Pinned, Observed, Same, Backed
<1>4. QED
  BY <1>1, <1>2, <1>3, SourcesTyped, Proceeds

LEMMA CloseReadInv ==
  ASSUME QueryInv, CloseRead
  PROVE  QueryInv'
<1>1. /\ query \in Queries /\ query.pc = "close" /\ QueryGood(query)
      /\ UNCHANGED <<world, app, sources>> /\ Goto("collect")
  BY UnderWay DEF CloseRead
<1>2. query' \in Queries /\ Same(query', query) /\ query'.pc = "collect"
      /\ query'.path = query.path
  BY <1>1, GotoKeeps DEF Steps
<1>3. query.trees \in Nat /\ query.rows \in Nat /\ query.version \in Nat
      /\ (query.trees # None => query.trees <= world.trees)
  BY <1>1, QueryNumbers DEF QueryGood, TreesSeen
<1>4. /\ ReaderTyped' /\ reader'.fp = query.trees /\ reader'.proof = reader.proof
      /\ reader'.cached # None =>
            /\ reader'.cached = query.rows /\ reader'.version = query.version
            /\ query.version = world.version
  <2>1. CASE query.version = world.version
    <3> DEFINE a == [reader EXCEPT !.cached = query.rows]
               b == [a EXCEPT !.version = query.version]
    <3>1. reader' = [b EXCEPT !.fp = query.trees]
      BY <2>1 DEF CloseRead, QueryInv, QueryTyped, ReaderTyped
    <3>2. a \in [open : BOOLEAN, cached : Nat \cup {None}, version : Nat \cup {None},
                 proof : OriginProofs \cup {None}, fp : Nat \cup {None}]
          /\ a.cached = query.rows /\ a.proof = reader.proof
      BY <1>3 DEF QueryInv, QueryTyped, ReaderTyped
    <3> HIDE DEF a
    <3>3. b \in [open : BOOLEAN, cached : Nat \cup {None}, version : Nat \cup {None},
                 proof : OriginProofs \cup {None}, fp : Nat \cup {None}]
          /\ b.cached = query.rows /\ b.proof = reader.proof /\ b.version = query.version
      BY <1>3, <3>2
    <3> HIDE DEF b
    <3>4. QED
      BY <1>3, <2>1, <3>1, <3>3 DEF ReaderTyped
  <2>2. CASE query.version # world.version
    <3> DEFINE a == [reader EXCEPT !.cached = None]
               b == [a EXCEPT !.version = None]
    <3>1. reader' = [b EXCEPT !.fp = query.trees]
      BY <2>2 DEF CloseRead, QueryInv, QueryTyped, ReaderTyped
    <3>2. a \in [open : BOOLEAN, cached : Nat \cup {None}, version : Nat \cup {None},
                 proof : OriginProofs \cup {None}, fp : Nat \cup {None}]
          /\ a.cached = None /\ a.proof = reader.proof
      BY DEF QueryInv, QueryTyped, ReaderTyped
    <3> HIDE DEF a
    <3>3. b \in [open : BOOLEAN, cached : Nat \cup {None}, version : Nat \cup {None},
                 proof : OriginProofs \cup {None}, fp : Nat \cup {None}]
          /\ b.cached = None /\ b.proof = reader.proof
      BY <3>2
    <3> HIDE DEF b
    <3>4. QED
      BY <1>3, <2>2, <3>1, <3>3 DEF ReaderTyped
  <2>3. QED
    BY <2>1, <2>2
<1>5. AppTyped' /\ RowsKnown' /\ FactsKnown'
  BY <1>1, <1>3, <1>4, WorldNumbers
     DEF QueryInv, QueryTyped, AppTyped, RowsKnown, FactsKnown, Backed, QueryGood, RowsSeen,
         Pinned
<1>6. QueryGood(query)'
  BY <1>1, <1>2, <1>4
     DEF QueryGood, RowsSeen, TreesSeen, Concluded, Pinned, Observed, Same, Backed
<1>7. QED
  BY <1>1, <1>2, <1>4, <1>5, <1>6, SourcesTyped, Continues

LEMMA CollectInv ==
  ASSUME QueryInv, Collect
  PROVE  QueryInv'
<1>1. /\ query \in Queries /\ query.pc = "collect" /\ QueryGood(query)
      /\ UNCHANGED <<world, reader, sources>> /\ Goto("closing")
  BY UnderWay DEF Collect
<1>2. query' \in Queries /\ Same(query', query) /\ query'.pc = "closing"
      /\ query'.path = query.path
  BY <1>1, GotoKeeps DEF Steps
<1>3. /\ AppTyped' /\ app'.fp = reader.fp /\ app'.git \in GitFacts
      /\ app'.git.targets = Targets(query.rows)
      /\ app'.git.trees <= world.trees /\ app'.git.conf <= world.conf
      /\ reader.fp # None => reader.fp <= app'.git.trees
  <2>1. CASE ~Collectable
    BY <2>1 DEF Collect, Collectable, QueryInv, QueryTyped, AppTyped, FactsKnown
  <2>2. CASE Collectable
    <3> DEFINE g == [trees |-> world.trees, conf |-> world.conf,
                    targets |-> Targets(query.rows)]
               a == [app EXCEPT !.git = g]
               b == [a EXCEPT !.dirty = FALSE]
               c == [b EXCEPT !.aged = FALSE]
    <3>1. app' = [c EXCEPT !.fp = reader.fp]
      BY <2>2 DEF Collect, QueryInv, QueryTyped, AppTyped
    <3>2. g \in GitFacts /\ g.trees = world.trees /\ g.conf = world.conf
          /\ g.targets = Targets(query.rows)
      BY <1>1, WorldNumbers, QueryNumbers DEF Targets, GitFacts
    <3> HIDE DEF g
    <3>3. a \in [home : Clients \cup {None}, git : GitFacts \cup {None},
                 dirty : BOOLEAN, aged : BOOLEAN, fp : Nat \cup {None}] /\ a.git = g
      BY <3>2 DEF QueryInv, QueryTyped, AppTyped
    <3> HIDE DEF a
    <3>4. b \in [home : Clients \cup {None}, git : GitFacts \cup {None},
                 dirty : BOOLEAN, aged : BOOLEAN, fp : Nat \cup {None}] /\ b.git = g
      BY <3>3
    <3> HIDE DEF b
    <3>5. c \in [home : Clients \cup {None}, git : GitFacts \cup {None},
                 dirty : BOOLEAN, aged : BOOLEAN, fp : Nat \cup {None}] /\ c.git = g
      BY <3>4
    <3> HIDE DEF c
    <3>6. AppTyped' /\ app'.fp = reader.fp /\ app'.git = g
      BY <3>1, <3>5 DEF AppTyped, QueryInv, QueryTyped, ReaderTyped
    <3>7. reader.fp # None => reader.fp <= world.trees
      BY DEF QueryInv, FactsKnown
    <3>8. QED
      BY <3>2, <3>6, <3>7, WorldNumbers
  <2>3. QED
    BY <2>1, <2>2
<1>4. ReaderTyped' /\ RowsKnown' /\ FactsKnown'
  BY <1>1, <1>3 DEF QueryInv, QueryTyped, ReaderTyped, RowsKnown, FactsKnown, Backed
<1>5. RowsSeen(query)' /\ TreesSeen(query)'
  BY <1>1, <1>2 DEF QueryGood, RowsSeen, TreesSeen, Pinned, Observed, Same, Backed
<1>6. Concluded(query)'
  BY <1>1, <1>2, <1>3 DEF QueryGood, Concluded, Observed, Same, Targets
<1>7. QED
  BY <1>1, <1>2, <1>3, <1>4, <1>5, <1>6, SourcesTyped, Continues DEF QueryGood

\* The answer leaves after its source was found as it was read.
LEMMA Closes ==
  ASSUME QueryInv, query \in Queries, query.pc = "closing", UNCHANGED <<world, app>>,
         reader'.fp = reader.fp, Goto("answer"),
         query.path # "fallback" => SourceValid,
         query.path = "epoch" => OriginValid
  PROVE  query' \in Queries /\ QueryGood(query)'
<1>1. query' \in Queries /\ Same(query', query) /\ query'.pc = "answer"
      /\ query'.path = query.path
  BY GotoKeeps DEF Steps
<1>2. QueryGood(query)
  BY UnderWay
<1>3. RowsSeen(query)' /\ TreesSeen(query)'
  BY <1>1, <1>2 DEF QueryGood, RowsSeen, TreesSeen, Pinned, Observed, Same, Backed
<1>4. query.path = "epoch" /\ query.trees # None => query.trees = app.git.trees
  BY <1>2, WorldNumbers, QueryNumbers
     DEF QueryGood, TreesSeen, Concluded, Backed, OriginValid, Observed, GitFacts
<1>5. query.path # "fallback" =>
        query.conf \in Nat /\ query.start.conf <= query.conf /\ app.git.conf <= query.conf
  BY <1>2, WorldNumbers DEF QueryGood, RowsSeen, SourceValid, Concluded, Observed
<1>6. Concluded(query)'
  BY <1>1, <1>2, <1>4, <1>5 DEF QueryGood, Concluded, Observed, Same, Targets
<1>7. QED
  BY <1>1, <1>3, <1>6 DEF QueryGood

LEMMA CloseEpochInv ==
  ASSUME QueryInv, CloseEpoch
  PROVE  QueryInv'
<1>1. /\ query \in Queries /\ query.pc = "closing" /\ UNCHANGED world /\ QueryGood(query)
      /\ query.path = "epoch" /\ OriginValid /\ SourceValid
      /\ reader' = [reader EXCEPT !.proof = query.lease]
      /\ Goto("answer") /\ UNCHANGED <<app, sources>>
  BY UnderWay DEF CloseEpoch, OriginValid
<1>2. query.lease # None /\ query.lease \in OriginProofs /\ Backed(query.lease)
  BY <1>1, QueryNumbers DEF QueryGood, TreesSeen
<1>3. /\ ReaderTyped' /\ reader'.cached = reader.cached /\ reader'.version = reader.version
      /\ reader'.proof = query.lease /\ reader'.fp = reader.fp
  BY <1>1, <1>2 DEF QueryInv, QueryTyped, ReaderTyped
<1>4. AppTyped' /\ RowsKnown' /\ FactsKnown'
  BY <1>1, <1>2, <1>3
     DEF QueryInv, QueryTyped, AppTyped, RowsKnown, FactsKnown, Backed
<1>5. query' \in Queries /\ QueryGood(query)'
  BY <1>1, <1>3, Closes
<1>6. QED
  BY <1>1, <1>3, <1>4, <1>5, SourcesTyped, Continues

LEMMA CloseVerifiedInv ==
  ASSUME QueryInv, CloseVerified
  PROVE  QueryInv'
<1>1. /\ query \in Queries /\ query.pc = "closing" /\ UNCHANGED <<world, reader, app>>
      /\ query.path = "verified"
  BY UnderWay DEF CloseVerified
<1>2. CASE SourceValid /\ Goto("answer") /\ UNCHANGED sources
  <2>1. query' \in Queries /\ QueryGood(query)'
    BY <1>1, <1>2, Closes
  <2>2. QED
    BY <1>1, <1>2, <2>1, SourcesTyped, Proceeds
<1>3. CASE DropSource /\ Take("cold", "capture")
  <2>1. query' \in Queries /\ Same(query', query) /\ query'.pc = "capture"
        /\ query'.path = "cold"
    BY <1>1, <1>3, TakeKeeps DEF Steps, Paths
  <2>2. QueryGood(query)'
    BY <1>1, <2>1, StartsOver
  <2>3. QED
    BY <1>1, <1>3, <2>1, <2>2, SourcesTyped, Proceeds
<1>4. QED
  BY <1>2, <1>3 DEF CloseVerified

LEMMA CloseColdInv ==
  ASSUME QueryInv, CloseCold
  PROVE  QueryInv'
<1>1. /\ query \in Queries /\ query.pc = "closing" /\ UNCHANGED <<world, reader, app>>
      /\ query.path = "cold" /\ QueryGood(query)
  BY UnderWay DEF CloseCold
<1>2. CASE /\ SourceValid /\ sources' = [sources EXCEPT ![query.client] = query.conf]
           /\ Goto("answer")
  <2>1. query' \in Queries /\ QueryGood(query)'
    BY <1>1, <1>2, Closes
  <2>2. sources' \in [Clients -> Nat \cup {None}]
    BY <1>1, <1>2, SourcesTyped DEF Queries
  <2>3. QED
    BY <1>1, <2>1, <2>2, Proceeds
<1>3. CASE /\ query' = [query EXCEPT !.path = "fallback", !.pc = "anchor", !.tries = 0]
           /\ UNCHANGED sources
  <2> DEFINE q == [query EXCEPT !.path = "fallback"]
             r == [q EXCEPT !.pc = "anchor"]
  <2>1. q \in Queries /\ q.path = "fallback" /\ Same(q, query)
    BY <1>1 DEF Queries, Paths, Same
  <2>2. query' = [r EXCEPT !.tries = 0]
    BY <1>1, <1>3 DEF Queries
  <2> HIDE DEF q
  <2>3. r \in Queries /\ r.pc = "anchor" /\ r.path = "fallback" /\ Same(r, query)
    BY <2>1 DEF Queries, Steps, Same
  <2> HIDE DEF r
  <2>4. query' \in Queries /\ query'.pc = "anchor" /\ query'.path = "fallback"
        /\ Same(query', query)
    BY <2>2, <2>3 DEF Queries, Same
  <2>5. QueryGood(query)'
    BY <1>1, <2>4 DEF QueryGood, RowsSeen, TreesSeen, Concluded, Pinned, Observed, Same
  <2>6. QED
    BY <1>1, <1>3, <2>4, <2>5, SourcesTyped, Proceeds
<1>4. QED
  BY <1>2, <1>3 DEF CloseCold

LEMMA CloseFallbackInv ==
  ASSUME QueryInv, CloseFallback
  PROVE  QueryInv'
<1>1. /\ query \in Queries /\ query.pc = "closing" /\ UNCHANGED <<world, reader, app, sources>>
      /\ query.path = "fallback" /\ Goto("answer")
  BY UnderWay DEF CloseFallback
<1>2. query' \in Queries /\ QueryGood(query)'
  BY <1>1, Closes
<1>3. QED
  BY <1>1, <1>2, SourcesTyped, Proceeds

LEMMA AnswerInv ==
  ASSUME QueryInv, Answer
  PROVE  QueryInv'
<1>1. /\ query \in Queries /\ query.pc = "answer" /\ QueryGood(query)
      /\ UNCHANGED <<world, reader, app, sources>> /\ Goto("done")
  BY UnderWay DEF Answer
<1>2. query' \in Queries /\ Same(query', query) /\ query'.pc = "done"
      /\ query'.path = query.path
  BY <1>1, GotoKeeps DEF Steps
<1>3. QueryGood(query)'
  BY <1>1, <1>2
     DEF QueryGood, RowsSeen, TreesSeen, Concluded, Pinned, Observed, Same, Backed, Targets
<1>4. QED
  BY <1>1, <1>2, <1>3, SourcesTyped, Proceeds

\* Every way for a query to end: with its answer, without one, with an error.
LEMMA EndInv ==
  ASSUME QueryInv, Finish \/ Refused \/ Withheld
  PROVE  QueryInv'
<1>1. CASE UNCHANGED <<world, reader, app, sources>> /\ query' = Idle
  BY <1>1, Ends DEF QueryInv, QueryTyped, ReaderTyped, AppTyped, RowsKnown, FactsKnown, Backed
<1>2. CASE Fail
  <2>1. UNCHANGED <<world, sources>> /\ query' = Idle
    BY <1>2 DEF Fail
  <2>2. CASE DiscardCaches
    BY <2>1, <2>2, Discards, Ends
  <2>3. CASE UNCHANGED app /\ reader' \in {Closed, reader, [reader EXCEPT !.proof = None]}
    <3>1. /\ ReaderTyped'
          /\ reader'.cached # None =>
                reader'.cached = reader.cached /\ reader'.version = reader.version
          /\ reader'.proof # None => reader'.proof = reader.proof
          /\ reader'.fp # None => reader'.fp = reader.fp
      <4>1. CASE reader' = Closed
        BY <4>1 DEF Closed, ReaderTyped
      <4>2. CASE reader' = reader
        BY <4>2 DEF QueryInv, QueryTyped, ReaderTyped
      <4>3. CASE reader' = [reader EXCEPT !.proof = None]
        BY <4>3 DEF QueryInv, QueryTyped, ReaderTyped
      <4>4. QED
        BY <2>3, <4>1, <4>2, <4>3
    <3>2. AppTyped' /\ RowsKnown' /\ FactsKnown'
      BY <2>1, <2>3, <3>1
         DEF QueryInv, QueryTyped, AppTyped, RowsKnown, FactsKnown, Backed
    <3>3. QED
      BY <2>1, <3>1, <3>2, Ends
  <2>4. QED
    BY <1>2, <2>2, <2>3 DEF Fail
<1>3. QED
  BY <1>1, <1>2 DEF Finish, Refused, Withheld

-----------------------------------------------------------------------------
LEMMA QueryStepInv ==
  ASSUME QueryInv, QueryNext
  PROVE  QueryInv'
<1>1. ASSUME NEW c \in Clients, Begin(c)
      PROVE  QueryInv'
  BY <1>1, BeginInv
<1>2. QED
  BY <1>1, WorldInv, AgeInv, OpeningInv, ValidateInv, CaptureInv, InspectInv, AnchorInv, PinInv,
     ReadLegacyInv, ReprobeInv, OriginsInv, EnumerateInv, AcquireInv, RecheckInv, CloseReadInv,
     CollectInv, CloseEpochInv, CloseVerifiedInv, CloseColdInv, CloseFallbackInv, AnswerInv,
     EndInv DEF QueryNext

\* What an answer shows is of the time of its query: rows and worktrees no
\* older than the query and no newer than the world, Git facts for the
\* worktrees and targets it shows, a proven source under a configuration no
\* older than those facts, and one set of worktrees under a lease.
THEOREM AnswersAreCurrent == QuerySpec => []AnswersCurrent
<1>1. QueryInv /\ UNCHANGED queryVars => QueryInv'
  BY DEF QueryInv, queryVars, QueryTyped, WorldTyped, ReaderTyped, AppTyped, RowsKnown,
         FactsKnown, Backed, QueryHolds, RowsSeen, TreesSeen, Concluded
<1>2. QueryInv => AnswersCurrent
  BY UnderWay DEF AnswersCurrent, QueryGood, RowsSeen, TreesSeen, Concluded, Pinned, Observed
<1>3. QED
  BY <1>1, <1>2, QueryInitInv, QueryStepInv, PTL DEF QuerySpec

-----------------------------------------------------------------------------
(* Views (ClientView).  The view does not change while a call is under way,   *)
(* and no cached answer calls a rewrite an advance.                           *)

\* Rows whose times can be compared.
Timed(tasks) == \A i \in DOMAIN tasks : tasks[i].upd \in Int /\ tasks[i].wd \in Int

ViewTyped ==
    /\ embedded \in BOOLEAN
    /\ accepted = [at |-> accepted.at, tasks |-> accepted.tasks, complete |-> accepted.complete]
    /\ accepted.at \in Nat /\ Timed(accepted.tasks)

\* While an inventory is on its way the view stays the one it was sent with.
CallFaithful ==
    call.pc = "accept" => call.inv \in Inventories /\ call.prior = Prior(call.inv)

StepInv == ViewTyped /\ CallFaithful

\* No cached answer calls a rewrite an advance.
CacheTrue == \A k \in known : k[3] = "no" => k[1] \in Ancestors[k[2]]

WarnInv == CacheTrue /\ RewritesShown

-----------------------------------------------------------------------------
\* What a view becomes when an inventory is accepted.

LEMMA NewestTyped ==
  ASSUME NEW x, NEW y, x.upd \in Int, x.wd \in Int, y.upd \in Int, y.wd \in Int
  PROVE  /\ Newest(x, y).upd \in Int /\ Newest(x, y).wd \in Int
         /\ Newest(x, y).upd >= y.upd /\ Newest(x, y).wd >= y.wd
BY DEF Newest

LEMMA MergedRows ==
  ASSUME NEW prior, NEW inv, Timed(prior.tasks), Timed(inv.tasks)
  PROVE  /\ Timed(Merged(prior, inv))
         /\ \A i \in DOMAIN prior.tasks \cap DOMAIN Merged(prior, inv) :
               /\ Merged(prior, inv)[i].upd >= prior.tasks[i].upd
               /\ Merged(prior, inv)[i].wd >= prior.tasks[i].wd
         /\ ~inv.complete => DOMAIN prior.tasks \subseteq DOMAIN Merged(prior, inv)
<1> DEFINE m == Merged(prior, inv)
<1>1. DOMAIN m = DOMAIN inv.tasks \cup (IF inv.complete THEN {} ELSE DOMAIN prior.tasks)
  BY DEF Merged
<1>2. ASSUME NEW i \in DOMAIN m, i \notin DOMAIN inv.tasks
      PROVE  i \in DOMAIN prior.tasks /\ m[i] = prior.tasks[i]
  BY <1>1, <1>2 DEF Merged
<1>3. ASSUME NEW i \in DOMAIN m, i \in DOMAIN inv.tasks, i \in DOMAIN prior.tasks
      PROVE  m[i] = Newest(inv.tasks[i], prior.tasks[i])
  BY <1>1, <1>3 DEF Merged
<1>4. ASSUME NEW i \in DOMAIN m, i \in DOMAIN inv.tasks, i \notin DOMAIN prior.tasks
      PROVE  m[i] = inv.tasks[i]
  BY <1>1, <1>4 DEF Merged
<1>5. ASSUME NEW i \in DOMAIN m
      PROVE  /\ m[i].upd \in Int /\ m[i].wd \in Int
             /\ i \in DOMAIN prior.tasks =>
                   m[i].upd >= prior.tasks[i].upd /\ m[i].wd >= prior.tasks[i].wd
  <2>1. CASE i \notin DOMAIN inv.tasks
    BY <1>2, <1>5, <2>1 DEF Timed
  <2>2. CASE i \in DOMAIN inv.tasks /\ i \in DOMAIN prior.tasks
    BY <1>3, <1>5, <2>2, NewestTyped DEF Timed
  <2>3. CASE i \in DOMAIN inv.tasks /\ i \notin DOMAIN prior.tasks
    BY <1>4, <1>5, <2>3 DEF Timed
  <2>4. QED
    BY <2>1, <2>2, <2>3
<1>6. Timed(m)
  BY <1>5 DEF Timed
<1>7. QED
  BY <1>1, <1>5, <1>6

\* The answer of an accepted call: the view itself for an inventory that is
\* late, and otherwise the inventory's time and the merged rows.
LEMMA AnswerIs ==
  ASSUME StepInv, AnswerAccept
  PROVE  \/ accepted' = accepted
         \/ /\ call.inv.at >= accepted.at /\ call.inv \in Inventories
            /\ accepted' = [at |-> call.inv.at, tasks |-> Merged(call.prior, call.inv),
                            complete |-> call.inv.complete]
            /\ call.prior.tasks = IF embedded THEN accepted.tasks ELSE NoTasks
<1>1. /\ call.inv \in Inventories /\ call.prior = Prior(call.inv)
      /\ accepted' = Applied(AcceptedBy(call.prior, call.inv))
  BY DEF StepInv, CallFaithful, AnswerAccept
<1>2. call.inv.at \in Nat /\ accepted.at \in Nat
  BY <1>1, ViewAssumption DEF StepInv, ViewTyped
<1>3. /\ call.prior.at = accepted.at
      /\ call.inv.at < accepted.at => call.prior = accepted
      /\ call.inv.at >= accepted.at =>
            call.prior.tasks = IF embedded THEN accepted.tasks ELSE NoTasks
  BY <1>1, <1>2 DEF Prior, StepInv, ViewTyped
<1>4. CASE call.inv.at < accepted.at
  BY <1>1, <1>2, <1>3, <1>4 DEF AcceptedBy, Applied
<1>5. CASE call.inv.at >= accepted.at
  BY <1>1, <1>2, <1>3, <1>5 DEF AcceptedBy, Applied
<1>6. QED
  BY <1>2, <1>4, <1>5

-----------------------------------------------------------------------------
LEMMA StepInitInv == ViewInit => StepInv
BY DEF ViewInit, StepInv, ViewTyped, CallFaithful, Timed, NoTasks, Rest

LEMMA StepKept == StepInv /\ [ViewNext]_viewVars => StepInv'
<1> SUFFICES ASSUME StepInv, [ViewNext]_viewVars PROVE StepInv'
  OBVIOUS
<1>1. CASE UNCHANGED <<embedded, accepted>> /\ call' = call
  BY <1>1 DEF StepInv, ViewTyped, CallFaithful, Prior
<1>2. CASE UNCHANGED <<embedded, accepted>> /\ call'.pc \in {"rest", "project"}
  BY <1>2 DEF StepInv, ViewTyped, CallFaithful
<1>3. ASSUME NEW inv \in Inventories, AcceptInventory(inv)
      PROVE  StepInv'
  BY <1>3 DEF AcceptInventory, StepInv, ViewTyped, CallFaithful, Prior
<1>4. CASE AnswerAccept
  <2>1. CallFaithful' /\ embedded' = embedded
    BY <1>4 DEF AnswerAccept, CallFaithful
  <2>2. CASE accepted' = accepted
    BY <2>1, <2>2 DEF StepInv, ViewTyped
  <2>3. CASE accepted' # accepted
    <3>1. /\ call.inv \in Inventories
          /\ accepted' = [at |-> call.inv.at, tasks |-> Merged(call.prior, call.inv),
                          complete |-> call.inv.complete]
          /\ call.prior.tasks = IF embedded THEN accepted.tasks ELSE NoTasks
      BY <1>4, <2>3, AnswerIs
    <3>2. Timed(call.inv.tasks) /\ Timed(call.prior.tasks) /\ call.inv.at \in Nat
      BY <3>1, ViewAssumption DEF Timed, NoTasks, StepInv, ViewTyped
    <3>3. Timed(Merged(call.prior, call.inv))
      BY <3>2, MergedRows
    <3>4. QED
      BY <2>1, <3>1, <3>2, <3>3 DEF StepInv, ViewTyped
  <2>4. QED
    BY <2>2, <2>3
<1>5. CASE LoseAnswer
  <2>1. /\ call'.pc = call.pc /\ UNCHANGED <<embedded, accepted>>
        /\ call.pc = "accept" => call'.inv = call.inv /\ call'.prior = call.prior
    BY <1>5 DEF LoseAnswer, Rest
  <2>2. QED
    BY <2>1 DEF StepInv, ViewTyped, CallFaithful, Prior
<1>6. QED
  BY <1>1, <1>2, <1>3, <1>4, <1>5
     DEF ViewNext, FailCall, Refresh, Show, MoveHead, OtherClient, ForgetAncestry, Rest, viewVars

\* Every step keeps to the action property.
LEMMA StepsForward == StepInv /\ [ViewNext]_viewVars => [StepForward]_viewVars
<1> SUFFICES ASSUME StepInv, [ViewNext]_viewVars PROVE StepForward
  OBVIOUS
<1>1. CASE UNCHANGED <<embedded, accepted>>
  BY <1>1 DEF StepForward, StepInv, ViewTyped, Timed
<1>2. CASE AnswerAccept
  <2>1. CASE accepted' = accepted
    BY <2>1 DEF StepForward, StepInv, ViewTyped, Timed
  <2>2. CASE accepted' # accepted
    <3>1. /\ call.inv.at >= accepted.at /\ call.inv \in Inventories
          /\ accepted' = [at |-> call.inv.at, tasks |-> Merged(call.prior, call.inv),
                          complete |-> call.inv.complete]
          /\ call.prior.tasks = IF embedded THEN accepted.tasks ELSE NoTasks
      BY <1>2, <2>2, AnswerIs
    <3>2. Timed(call.inv.tasks) /\ Timed(call.prior.tasks)
      BY <3>1, ViewAssumption DEF Timed, NoTasks, StepInv, ViewTyped
    <3>3. /\ accepted'.at = call.inv.at /\ accepted'.complete = call.inv.complete
          /\ accepted'.tasks = Merged(call.prior, call.inv)
      BY <3>1
    <3>4. ASSUME embedded
          PROVE  /\ \A i \in DOMAIN accepted.tasks \cap DOMAIN accepted'.tasks :
                       /\ accepted'.tasks[i].upd >= accepted.tasks[i].upd
                       /\ accepted'.tasks[i].wd >= accepted.tasks[i].wd
                 /\ ~accepted'.complete => DOMAIN accepted.tasks \subseteq DOMAIN accepted'.tasks
      BY <3>1, <3>2, <3>3, <3>4, MergedRows
    <3>5. QED
      BY <3>1, <3>3, <3>4 DEF StepForward
  <2>3. QED
    BY <2>1, <2>2
<1>3. QED
  BY <1>1, <1>2 DEF ViewNext, AcceptInventory, LoseAnswer, FailCall, Refresh, Show, MoveHead,
                    OtherClient, ForgetAncestry, viewVars

(* Whatever order inventories arrive in and however often a call is repeated, *)
(* for any inventories: the view never goes back (ClientView.apply_inventory, *)
(* QueryProxy.accept_inventory).                                              *)
THEOREM NeverBack == ViewSpec => ViewNeverStepsBack
BY StepInitInv, StepKept, StepsForward, PTL DEF ViewSpec, ViewNeverStepsBack

-----------------------------------------------------------------------------
\* The warnings.

\* What the cache or Git says of two heads does not hide a rewrite.
LEMMA LookupTrue ==
  ASSUME CacheTrue, NEW old, NEW new, NEW w \in Lookup(old, new), w = "no"
  PROVE  old \in Ancestors[new]
BY DEF CacheTrue, Lookup, Ancestry

LEMMA RememberTrue ==
  ASSUME CacheTrue, NEW old, NEW new, NEW w \in Lookup(old, new), known' = Remember(old, new, w)
  PROVE  CacheTrue'
<1>1. w = "no" => old \in Ancestors[new]
  BY LookupTrue
<1>2. \A k \in known' : k \in known \/ k = <<old, new, w>>
  BY DEF Remember
<1>3. QED
  BY <1>1, <1>2 DEF CacheTrue

LEMMA WarnInitInv == ViewInit => WarnInv
BY DEF ViewInit, WarnInv, CacheTrue, RewritesShown

LEMMA WarnKept == WarnInv /\ [ViewNext]_viewVars => WarnInv'
<1> SUFFICES ASSUME WarnInv, [ViewNext]_viewVars PROVE WarnInv'
  OBVIOUS
<1>1. CASE UNCHANGED shown /\ known' \in {known, {}}
  BY <1>1 DEF WarnInv, CacheTrue, RewritesShown
<1>2. CASE Show
  <2> DEFINE old == shown.head
             compared == old # head /\ Away \notin {old, head}
  <2>1. PICK w \in Warnings(old, shown.warned, head) :
           /\ shown' = [head |-> head, warned |-> w,
                        from |-> IF compared THEN old
                                 ELSE IF old = head THEN shown.from ELSE Away]
           /\ known' = IF compared THEN Remember(old, head, w) ELSE known
    BY <1>2 DEF Show
  <2>2. CASE compared
    <3>1. w \in Lookup(old, head)
      BY <2>1, <2>2 DEF Warnings
    <3>2. CacheTrue'
      BY <2>1, <2>2, <3>1, RememberTrue DEF WarnInv
    <3>3. RewritesShown'
      BY <2>1, <2>2, <3>1, LookupTrue DEF WarnInv, RewritesShown
    <3>4. QED
      BY <3>2, <3>3 DEF WarnInv
  <2>3. CASE old = head
    BY <2>1, <2>3 DEF WarnInv, CacheTrue, RewritesShown, Warnings
  <2>4. CASE old # head /\ Away \in {old, head}
    BY <2>1, <2>4 DEF WarnInv, CacheTrue, RewritesShown
  <2>5. QED
    BY <2>2, <2>3, <2>4
<1>3. ASSUME NEW old \in Heads, NEW new \in Heads, OtherClient(old, new)
      PROVE  WarnInv'
  <2>1. PICK w \in Lookup(old, new) : known' = Remember(old, new, w)
    BY <1>3 DEF OtherClient
  <2>2. CacheTrue'
    BY <2>1, RememberTrue DEF WarnInv
  <2>3. QED
    BY <1>3, <2>2 DEF OtherClient, WarnInv, RewritesShown
<1>4. QED
  BY <1>1, <1>2, <1>3 DEF ViewNext, AcceptInventory, AnswerAccept, LoseAnswer, FailCall, Refresh,
                          MoveHead, ForgetAncestry, viewVars

(* However heads move, answers are lost and clients share the cache, of any   *)
(* size: a head that does not descend from the one shown before it is shown   *)
(* with a warning (apply_history, previous_heads).                            *)
THEOREM NoHiddenRewrite == ViewSpec => []RewritesShown
<1>1. WarnInv => RewritesShown
  BY DEF WarnInv
<1>2. QED
  BY <1>1, WarnInitInv, WarnKept, PTL DEF ViewSpec

-----------------------------------------------------------------------------
(* The map of chats (Dock).  Three histories say when a chat's agent last was *)
(* in a worktree, when the chat last was no passenger of it and when it last  *)
(* was not archived.  They only grow; so what a report or a list said when it *)
(* was made stays a lower bound of them, however late it arrives.             *)

Directories == Worktrees \cup {Outside}
Hosted == [life : {"present", "archived"}, place : Directories \cup {Nowhere},
           report : [dir : Directories, at : Nat] \cup {Nowhere}]

DockTyped ==
    /\ clock \in Nat /\ host \in [Chats -> Hosted] /\ background \in Backgrounds
    /\ lastIn \in [Chats -> [Worktrees -> Int]] /\ lastOut \in [Chats -> [Worktrees -> Int]]
    /\ lastHere \in [Chats -> Int]

Elapsed == \A t \in Chats :
    /\ lastHere[t] <= clock
    /\ \A w \in Worktrees : lastIn[t][w] <= clock /\ lastOut[t][w] <= clock

NowSeen == \A t \in Chats :
    /\ Present(t) => lastHere[t] = clock
    /\ \A w \in Worktrees : /\ w = Whereabouts(t) => lastIn[t][w] = clock
                            /\ ~Passenger(t, w) => lastOut[t][w] = clock

ReportSeen(t, r) == r # Nowhere =>
    /\ r.dir \in Directories /\ r.at \in Nat
    /\ r.dir \in Worktrees => lastIn[t][r.dir] >= r.at
    /\ \A w \in Worktrees : w # r.dir => lastOut[t][w] >= r.at

RowSeen(t, row, at) ==
    /\ row.life \in {"present", "archived", "unknown"}
    /\ row.life = "present" => lastHere[t] >= at
    /\ row.life = "archived" => \A w \in Worktrees : lastOut[t][w] >= at
    /\ row.report = Nowhere => /\ lastIn[t][Home[t]] >= at
                               /\ \A w \in Worktrees : w # Home[t] => lastOut[t][w] >= at
    /\ ReportSeen(t, row.report)

ListSeen(list) ==
    /\ list.at \in Nat
    /\ \A t \in DOMAIN list.rows : t \in Chats /\ RowSeen(t, list.rows[t], list.at)
    /\ list.complete => \A t \in Chats : t \notin DOMAIN list.rows =>
                            \A w \in Worktrees : lastOut[t][w] >= list.at

Held(inv) == inv # Nowhere => ListSeen(inv) /\ ~Invalid(inv)

\* PassengersHonest, of a map m.
Honest(m) ==
    /\ \A w \in Worktrees :
          /\ m.passengers[w].state = "unattended" => \A t \in Chats : m.at - lastOut[t][w] <= Fresh
          /\ m.passengers[w].state = "occupied" => \E t \in Chats :
                m.at - lastIn[t][w] <= Fresh /\ m.at - lastHere[t] <= Fresh
    /\ \A t \in Chats : Cardinality({w \in Worktrees : t \in m.lanes[w]}) <= 1
    /\ ~m.truncated => m.chats \subseteq UNION {m.lanes[w] : w \in Worktrees}
    /\ \A w \in Worktrees : m.bindings[w].complete =>
          background.stored[w] = [records |-> m.bindings[w].shown, known |-> TRUE]

DockInv ==
    /\ DockTyped /\ Elapsed /\ NowSeen
    /\ \A t \in Chats : ReportSeen(t, host[t].report)
    /\ \A list \in lists : ListSeen(list)
    /\ Held(inventory)
    /\ map # Nowhere => map.at \in Nat /\ Honest(map)

\* What happened since only makes the histories later.
Later ==
    /\ \A t \in Chats : lastHere[t] <= lastHere'[t]
    /\ \A t \in Chats, w \in Worktrees : lastIn[t][w] <= lastIn'[t][w] /\ lastOut[t][w] <= lastOut'[t][w]

LEMMA DockInitInv == DockInit => DockInv
  <1> SUFFICES ASSUME DockInit PROVE DockInv
    OBVIOUS
  <1>1. Fresh \in Nat /\ LongAgo \in Int /\ LongAgo <= 0
    BY DockAssumption DEF LongAgo
  <1>2. clock = 0 /\ lists = {} /\ inventory = Nowhere /\ map = Nowhere /\ background \in Backgrounds
    BY DEF DockInit
  <1>3. host \in [Chats -> [life : {"present", "archived"}, place : {Nowhere}, report : {Nowhere}]]
    BY DEF DockInit
  <1>4. host \in [Chats -> Hosted] /\ \A t \in Chats : host[t].report = Nowhere
    BY <1>3 DEF Hosted
  <1>5. /\ lastIn = [t \in Chats |-> [w \in Worktrees |-> IF w = Whereabouts(t) THEN 0 ELSE LongAgo]]
        /\ lastOut = [t \in Chats |-> [w \in Worktrees |-> IF Passenger(t, w) THEN LongAgo ELSE 0]]
        /\ lastHere = [t \in Chats |-> IF Present(t) THEN 0 ELSE LongAgo]
    BY DEF DockInit
  <1>6. DockTyped
    BY <1>1, <1>2, <1>4, <1>5 DEF DockTyped
  <1>7. Elapsed
    BY <1>1, <1>2, <1>5 DEF Elapsed
  <1>8. NowSeen
    BY <1>2, <1>5 DEF NowSeen
  <1>9. QED
    BY <1>2, <1>4, <1>6, <1>7, <1>8 DEF DockInv, ReportSeen, Held

-----------------------------------------------------------------------------
(* Time passes: a deed of a chat, or a tick.                                  *)

LEMMA WatchLater ==
    ASSUME DockTyped, Elapsed, clock' \in Nat, clock <= clock', host' \in [Chats -> Hosted],
           background' = background, Watch
    PROVE  DockTyped' /\ Elapsed' /\ NowSeen' /\ Later
  <1>1. /\ lastIn' = [t \in Chats |-> [w \in Worktrees |->
                        IF w \in {Whereabouts(t), Whereabouts(t)'} THEN clock' ELSE lastIn[t][w]]]
        /\ lastOut' = [t \in Chats |-> [w \in Worktrees |->
                        IF Passenger(t, w) /\ Passenger(t, w)' THEN lastOut[t][w] ELSE clock']]
        /\ lastHere' = [t \in Chats |-> IF Present(t) \/ Present(t)' THEN clock' ELSE lastHere[t]]
    BY DEF Watch
  <1>2. ASSUME NEW t \in Chats
        PROVE  /\ lastHere[t] \in Int /\ lastHere[t] <= clock
               /\ \A w \in Worktrees : /\ lastIn[t][w] \in Int /\ lastIn[t][w] <= clock
                                       /\ lastOut[t][w] \in Int /\ lastOut[t][w] <= clock
    BY DEF DockTyped, Elapsed
  <1>3. clock \in Nat /\ clock' \in Nat
    BY DEF DockTyped
  <1>4. DockTyped'
    BY <1>1, <1>2, <1>3 DEF DockTyped
  <1>5. ASSUME NEW t \in Chats
        PROVE  /\ lastHere'[t] = IF Present(t) \/ Present(t)' THEN clock' ELSE lastHere[t]
               /\ \A w \in Worktrees :
                    /\ lastIn'[t][w] = IF w \in {Whereabouts(t), Whereabouts(t)'} THEN clock' ELSE lastIn[t][w]
                    /\ lastOut'[t][w] = IF Passenger(t, w) /\ Passenger(t, w)' THEN lastOut[t][w] ELSE clock'
    BY <1>1
  <1>6. Elapsed' /\ Later
    BY <1>2, <1>3, <1>5 DEF Elapsed, Later
  <1>7. NowSeen'
    BY <1>5 DEF NowSeen
  <1>8. QED
    BY <1>4, <1>6, <1>7

LEMMA ReportLater ==
    ASSUME DockTyped, DockTyped', Later, NEW t \in Chats, NEW r, ReportSeen(t, r)
    PROVE  ReportSeen(t, r)'
  <1>1. ASSUME NEW w \in Worktrees
        PROVE  /\ lastIn[t][w] \in Int /\ lastIn'[t][w] \in Int /\ lastIn[t][w] <= lastIn'[t][w]
               /\ lastOut[t][w] \in Int /\ lastOut'[t][w] \in Int /\ lastOut[t][w] <= lastOut'[t][w]
    BY DEF DockTyped, Later
  <1>2. SUFFICES ASSUME r # Nowhere PROVE ReportSeen(t, r)'
    BY DEF ReportSeen
  <1>3. /\ r.dir \in Directories /\ r.at \in Nat
        /\ r.dir \in Worktrees => lastIn[t][r.dir] >= r.at
        /\ \A w \in Worktrees : w # r.dir => lastOut[t][w] >= r.at
    BY <1>2 DEF ReportSeen
  <1>4. r.dir \in Worktrees => lastIn'[t][r.dir] >= r.at
    BY <1>1, <1>3
  <1>5. \A w \in Worktrees : w # r.dir => lastOut'[t][w] >= r.at
    BY <1>1, <1>3
  <1>6. QED
    BY <1>3, <1>4, <1>5 DEF ReportSeen

LEMMA RowLater ==
    ASSUME DockTyped, DockTyped', Later, NEW t \in Chats, NEW row, NEW at \in Nat, RowSeen(t, row, at)
    PROVE  RowSeen(t, row, at)'
  <1>1. ASSUME NEW w \in Worktrees
        PROVE  /\ lastIn[t][w] \in Int /\ lastIn'[t][w] \in Int /\ lastIn[t][w] <= lastIn'[t][w]
               /\ lastOut[t][w] \in Int /\ lastOut'[t][w] \in Int /\ lastOut[t][w] <= lastOut'[t][w]
    BY DEF DockTyped, Later
  <1>2. lastHere[t] \in Int /\ lastHere'[t] \in Int /\ lastHere[t] <= lastHere'[t] /\ Home[t] \in Worktrees
    BY DockAssumption DEF DockTyped, Later
  <1>3. ReportSeen(t, row.report)'
    <2>1. PICK r : r = row.report
      OBVIOUS
    <2>2. ReportSeen(t, r)
      BY <2>1 DEF RowSeen
    <2>3. ReportSeen(t, r)'
      BY <2>2, ReportLater
    <2>4. QED
      BY <2>1, <2>3
  <1>4. row.life = "present" => lastHere'[t] >= at
    BY <1>2 DEF RowSeen
  <1>5. row.life = "archived" => \A w \in Worktrees : lastOut'[t][w] >= at
    BY <1>1 DEF RowSeen
  <1>6. row.report = Nowhere => lastIn'[t][Home[t]] >= at
    BY <1>1, <1>2 DEF RowSeen
  <1>7. row.report = Nowhere => \A w \in Worktrees : w # Home[t] => lastOut'[t][w] >= at
    BY <1>1 DEF RowSeen
  <1>8. QED
    BY <1>3, <1>4, <1>5, <1>6, <1>7 DEF RowSeen

LEMMA ListLater ==
    ASSUME DockTyped, DockTyped', Later, NEW list, ListSeen(list)
    PROVE  ListSeen(list)'
  <1>1. list.at \in Nat
    BY DEF ListSeen
  <1>2. ASSUME NEW t \in DOMAIN list.rows PROVE t \in Chats /\ RowSeen(t, list.rows[t], list.at)'
    <2>1. t \in Chats /\ RowSeen(t, list.rows[t], list.at)
      BY DEF ListSeen
    <2>2. PICK row : row = list.rows[t]
      OBVIOUS
    <2>3. PICK at \in Nat : at = list.at
      BY <1>1
    <2>4. RowSeen(t, row, at)
      BY <2>1, <2>2, <2>3
    <2>5. RowSeen(t, row, at)'
      BY <2>1, <2>4, RowLater
    <2>6. QED
      BY <2>1, <2>2, <2>3, <2>5
  <1>3. ASSUME list.complete, NEW t \in Chats, t \notin DOMAIN list.rows, NEW w \in Worktrees
        PROVE  lastOut'[t][w] >= list.at
    <2>1. lastOut[t][w] >= list.at
      BY <1>3 DEF ListSeen
    <2>2. lastOut[t][w] \in Int /\ lastOut'[t][w] \in Int /\ lastOut[t][w] <= lastOut'[t][w]
      BY DEF DockTyped, Later
    <2>3. QED
      BY <1>1, <2>1, <2>2
  <1>4. QED
    BY <1>1, <1>2, <1>3 DEF ListSeen

LEMMA HonestLater ==
    ASSUME DockTyped, DockTyped', Later, background' = background, NEW m, m.at \in Nat, Honest(m)
    PROVE  Honest(m)'
  <1>1. Fresh \in Nat
    BY DockAssumption
  <1>2. ASSUME NEW t \in Chats, NEW w \in Worktrees
        PROVE  /\ m.at - lastOut[t][w] <= Fresh => m.at - lastOut'[t][w] <= Fresh
               /\ m.at - lastIn[t][w] <= Fresh => m.at - lastIn'[t][w] <= Fresh
               /\ m.at - lastHere[t] <= Fresh => m.at - lastHere'[t] <= Fresh
    <2>1. /\ lastOut[t][w] \in Int /\ lastOut'[t][w] \in Int /\ lastOut[t][w] <= lastOut'[t][w]
          /\ lastIn[t][w] \in Int /\ lastIn'[t][w] \in Int /\ lastIn[t][w] <= lastIn'[t][w]
          /\ lastHere[t] \in Int /\ lastHere'[t] \in Int /\ lastHere[t] <= lastHere'[t]
      BY DEF DockTyped, Later
    <2>2. QED
      BY <1>1, <2>1
  <1>3. QED
    BY <1>2 DEF Honest

\* Everything that was seen is still seen.
LEMMA AllLater ==
    ASSUME DockInv, DockTyped', Elapsed', NowSeen', Later, background' = background,
           \A t \in Chats : ReportSeen(t, host[t].report)', UNCHANGED <<lists, inventory, map>>
    PROVE  DockInv'
  <1>1. DockTyped
    BY DEF DockInv
  <1>2. ASSUME NEW list \in lists PROVE ListSeen(list)'
    BY <1>1, ListLater DEF DockInv
  <1>3. Held(inventory)'
    <2>1. SUFFICES ASSUME inventory # Nowhere PROVE ListSeen(inventory)' /\ ~Invalid(inventory)'
      BY DEF Held
    <2>2. ListSeen(inventory) /\ ~Invalid(inventory)
      BY <2>1 DEF DockInv, Held
    <2>3. PICK inv : inv = inventory
      OBVIOUS
    <2>4. ListSeen(inv)'
      BY <1>1, <2>2, <2>3, ListLater
    <2>5. QED
      BY <2>2, <2>3, <2>4 DEF Invalid, Reports, Rows
  <1>4. map' # Nowhere => map'.at \in Nat /\ Honest(map)'
    <2>1. SUFFICES ASSUME map # Nowhere PROVE map.at \in Nat /\ Honest(map)'
      OBVIOUS
    <2>2. map.at \in Nat /\ Honest(map)
      BY <2>1 DEF DockInv
    <2>3. PICK m : m = map
      OBVIOUS
    <2>4. Honest(m)'
      BY <1>1, <2>2, <2>3, HonestLater
    <2>5. QED
      BY <2>2, <2>3, <2>4
  <1>5. QED
    BY <1>2, <1>3, <1>4 DEF DockInv

-----------------------------------------------------------------------------
(* What the projection makes of an inventory.                                 *)

LEMMA LeastOf ==
    ASSUME NEW T \in SUBSET Nat, T # {}
    PROVE  Min(T) \in T /\ \A y \in T : Min(T) <= y
  <1> DEFINE R == {ss \in Nat \X Nat : ss[1] < ss[2]}
  <1>1. IsWellFoundedOn(R, Nat)
    BY NatLessThanWellFounded DEF OpToRel
  <1>2. PICK x \in T : \A y \in T : ~(<<y, x>> \in R)
    BY <1>1, WFMin
  <1>3. ASSUME NEW y \in T PROVE x <= y
    <2>1. <<y, x>>[1] = y /\ <<y, x>>[2] = x /\ x \in Nat /\ y \in Nat
      OBVIOUS
    <2>2. CASE x <= y
      BY <2>2
    <2>3. CASE y < x
      <3>1. <<y, x>> \in R
        BY <2>1, <2>3
      <3>2. QED
        BY <1>2, <3>1
    <2>4. QED
      BY <2>1, <2>2, <2>3
  <1>4. QED
    BY <1>3 DEF Min

\* No report that is shown, and not the list, is older than the observation.
LEMMA OldestCounts ==
    ASSUME NEW inv, inv # Nowhere, ListSeen(inv)
    PROVE  /\ ObservedAt(inv) \in Nat /\ ObservedAt(inv) <= inv.at
           /\ \A t \in Rows(inv) : inv.rows[t].report # Nowhere =>
                                      ObservedAt(inv) <= inv.rows[t].report.at
  <1> DEFINE ages == {r.at : r \in Reports(inv)}
             T == {inv.at} \cup ages
  <1>1. inv.at \in Nat
    BY DEF ListSeen
  <1>2. ASSUME NEW r \in Reports(inv) PROVE r.at \in Nat
    <2>1. PICK t \in Rows(inv) : r = inv.rows[t].report /\ r # Nowhere
      BY DEF Reports
    <2>2. t \in DOMAIN inv.rows
      BY <2>1 DEF Rows
    <2>3. ReportSeen(t, r)
      BY <2>1, <2>2 DEF ListSeen, RowSeen
    <2>4. QED
      BY <2>1, <2>3 DEF ReportSeen
  <1>3. T \in SUBSET Nat /\ T # {}
    BY <1>1, <1>2
  <1>4. Min(T) \in T /\ \A y \in T : Min(T) <= y
    BY <1>3, LeastOf
  <1>5. ObservedAt(inv) = Min(T)
    BY DEF ObservedAt
  <1>6. ASSUME NEW t \in Rows(inv), inv.rows[t].report # Nowhere
        PROVE  inv.rows[t].report.at \in T
    BY <1>6 DEF Reports
  <1>7. QED
    BY <1>3, <1>4, <1>5, <1>6

\* What a row of the list says of its chat held when the oldest report was made.
LEMMA RowTells ==
    ASSUME DockTyped, NEW inv, inv # Nowhere, ListSeen(inv), NEW t \in Rows(inv), NEW w \in Worktrees
    PROVE  /\ t \in Chats
           /\ inv.rows[t].life \in {"present", "archived", "unknown"}
           /\ inv.rows[t].life = "present" => lastHere[t] >= ObservedAt(inv)
           /\ inv.rows[t].life = "archived" => lastOut[t][w] >= ObservedAt(inv)
           /\ Association(inv, t) = w => lastIn[t][w] >= ObservedAt(inv)
           /\ Association(inv, t) # w => lastOut[t][w] >= ObservedAt(inv)
  <1> DEFINE row == inv.rows[t]
             o == ObservedAt(inv)
  <1>1. /\ o \in Nat /\ o <= inv.at /\ inv.at \in Nat
        /\ row.report # Nowhere => o <= row.report.at
    BY OldestCounts DEF ListSeen
  <1>2. t \in Chats /\ RowSeen(t, row, inv.at)
    BY DEF Rows, ListSeen
  <1>3. lastHere[t] \in Int /\ lastIn[t][w] \in Int /\ lastOut[t][w] \in Int /\ Home[t] \in Worktrees
    BY <1>2, DockAssumption DEF DockTyped
  <1>4. /\ row.life \in {"present", "archived", "unknown"}
        /\ row.life = "present" => lastHere[t] >= inv.at
        /\ row.life = "archived" => lastOut[t][w] >= inv.at
    BY <1>2 DEF RowSeen
  <1>5. CASE row.report = Nowhere
    <2>1. /\ lastIn[t][Home[t]] >= inv.at
          /\ w # Home[t] => lastOut[t][w] >= inv.at
      BY <1>2, <1>5 DEF RowSeen
    <2>2. Association(inv, t) = Home[t]
      BY <1>5 DEF Association
    <2>3. QED
      BY <1>1, <1>2, <1>3, <1>4, <2>1, <2>2
  <1>6. CASE row.report # Nowhere
    <2>1. /\ row.report.at \in Nat
          /\ row.report.dir \in Worktrees => lastIn[t][row.report.dir] >= row.report.at
          /\ w # row.report.dir => lastOut[t][w] >= row.report.at
      BY <1>2, <1>6 DEF RowSeen, ReportSeen
    <2>2. Association(inv, t) = row.report.dir
      BY <1>6 DEF Association
    <2>3. QED
      BY <1>1, <1>2, <1>3, <1>4, <1>6, <2>1, <2>2
  <1>7. QED
    BY <1>5, <1>6

LEMMA SummaryHonest ==
    ASSUME DockTyped, NEW inv, Held(inv), NEW lost, NEW w \in Worktrees,
           NEW p, p = Passengers(inv, w, LaneChats(inv, w) \ lost, Certain(inv, lost))
    PROVE  /\ p.state = "unattended" => \A t \in Chats : clock - lastOut[t][w] <= Fresh
           /\ p.state = "occupied" => \E t \in Chats :
                 clock - lastIn[t][w] <= Fresh /\ clock - lastHere[t] <= Fresh
  <1> DEFINE listed == LaneChats(inv, w) \ lost
             lives == [t \in listed \cap Rows(inv) |-> inv.rows[t].life]
             alive == {t \in DOMAIN lives : lives[t] = "present"}
             o == ObservedAt(inv)
  <1>1. CASE ~Certain(inv, lost)
    <2>1. p.state = "unknown"
      BY <1>1 DEF Passengers
    <2>2. QED
      BY <2>1
  <1>2. CASE Certain(inv, lost)
    <2>1. inv # Nowhere /\ inv.complete /\ lost = {} /\ clock - o \in 0 .. Fresh
      BY <1>2 DEF Certain
    <2>2. ListSeen(inv) /\ o \in Nat /\ o <= inv.at /\ inv.at \in Nat
      BY <2>1, OldestCounts DEF Held, ListSeen
    <2>3. clock \in Nat /\ Fresh \in Nat /\ clock - o <= Fresh
      BY <2>1, <2>2, DockAssumption DEF DockTyped
    <2>4. ASSUME NEW t \in Chats
          PROVE  lastHere[t] \in Int /\ lastIn[t][w] \in Int /\ lastOut[t][w] \in Int
      BY DEF DockTyped
    <2>5. p.state = IF Cardinality(alive) > 0 THEN "occupied"
                    ELSE IF \E t \in DOMAIN lives : lives[t] = "unknown" THEN "unknown"
                    ELSE "unattended"
      BY <1>2 DEF Passengers
    <2>6. ASSUME NEW t \in listed \cap Rows(inv) PROVE t \in Chats /\ Association(inv, t) = w
      <3>1. Association(inv, t) = w
        BY <2>6 DEF LaneChats
      <3>2. QED
        BY <3>1, <2>1, <2>2, RowTells
    <2>7. ASSUME p.state = "occupied"
          PROVE  \E t \in Chats : clock - lastIn[t][w] <= Fresh /\ clock - lastHere[t] <= Fresh
      <3>1. alive # {}
        <4>1. Cardinality(alive) > 0
          BY <2>5, <2>7
        <4>2. Cardinality({}) = 0
          BY FS_EmptySet
        <4>3. PICK n : n = Cardinality(alive)
          OBVIOUS
        <4>4. CASE alive = {}
          <5>1. n = 0
            BY <4>2, <4>3, <4>4
          <5>2. QED
            BY <4>1, <4>3, <5>1
        <4>5. QED
          BY <4>4
      <3>2. PICK t \in alive : TRUE
        BY <3>1
      <3>3. t \in listed \cap Rows(inv) /\ inv.rows[t].life = "present"
        OBVIOUS
      <3>4. t \in Chats /\ Association(inv, t) = w
        BY <2>6, <3>3
      <3>5. lastHere[t] >= o /\ lastIn[t][w] >= o
        BY <2>1, <2>2, <3>3, <3>4, RowTells
      <3>6. clock - lastIn[t][w] <= Fresh /\ clock - lastHere[t] <= Fresh
        BY <2>2, <2>3, <2>4, <3>4, <3>5
      <3>7. QED
        BY <3>4, <3>6
    <2>8. ASSUME p.state = "unattended", NEW t \in Chats PROVE clock - lastOut[t][w] <= Fresh
      <3>1. ~(Cardinality(alive) > 0) /\ ~\E u \in DOMAIN lives : lives[u] = "unknown"
        BY <2>5, <2>8
      <3>2. alive = {}
        <4>1. alive \subseteq Chats
          BY <2>6
        <4>2. IsFiniteSet(alive)
          BY <4>1, FS_Subset, DockAssumption
        <4>3. PICK n : n = Cardinality(alive)
          OBVIOUS
        <4>4. n \in Nat /\ (n = 0 => alive = {})
          BY <4>2, <4>3, FS_EmptySet, FS_CardinalityType
        <4>5. ~(n > 0)
          BY <3>1, <4>3
        <4>6. n \in Nat => n = 0
          BY <4>5
        <4>7. QED
          BY <4>4, <4>6, Zenon
      <3>3. lastOut[t][w] >= o
        <4>1. CASE t \notin Rows(inv)
          <5>1. lastOut[t][w] >= inv.at
            BY <2>1, <2>2, <4>1 DEF Rows, ListSeen
          <5>2. QED
            BY <2>2, <2>4, <5>1
        <4>2. CASE t \in Rows(inv) /\ Association(inv, t) # w
          BY <2>1, <2>2, <4>2, RowTells
        <4>3. CASE t \in Rows(inv) /\ Association(inv, t) = w
          <5>1. t \in listed \cap Rows(inv)
            BY <2>1, <4>3 DEF LaneChats
          <5>2. t \in DOMAIN lives /\ lives[t] = inv.rows[t].life
            BY <5>1
          <5>3. inv.rows[t].life # "present" /\ inv.rows[t].life # "unknown"
            BY <3>1, <3>2, <5>2
          <5>4. inv.rows[t].life \in {"present", "archived", "unknown"}
            BY <2>1, <2>2, <4>3, RowTells
          <5>5. inv.rows[t].life = "archived"
            BY <5>3, <5>4
          <5>6. QED
            BY <2>1, <2>2, <4>3, <5>5, RowTells
        <4>4. QED
          BY <4>1, <4>2, <4>3
      <3>4. QED
        BY <2>2, <2>3, <2>4, <3>3
    <2>9. QED
      BY <2>7, <2>8
  <1>3. QED
    BY <1>1, <1>2

LEMMA OneLane ==
    ASSUME NEW inv, NEW t, NEW lost
    PROVE  Cardinality({w \in Worktrees : t \in LaneChats(inv, w) \ lost}) <= 1
  <1> DEFINE lanes == {w \in Worktrees : t \in LaneChats(inv, w) \ lost}
             only == IF t \in Rows(inv) THEN Association(inv, t) ELSE background.hooked[t]
  <1>1. lanes \subseteq {only}
    BY DEF LaneChats
  <1>2. lanes = {} \/ lanes = {only}
    BY <1>1
  <1>3. Cardinality({}) = 0 /\ Cardinality({only}) = 1
    BY FS_EmptySet, FS_Singleton
  <1>4. PICK S : S = lanes
    OBVIOUS
  <1>5. (S = {} \/ S = {only}) /\ Cardinality(lanes) = Cardinality(S)
    BY <1>2, <1>4
  <1>6. QED
    BY <1>3, <1>5

LEMMA NoChatDropped ==
    ASSUME NEW inv, Held(inv), NEW t \in Rows(inv)
    PROVE  \E w \in Worktrees : t \in LaneChats(inv, w)
  <1>1. inv # Nowhere /\ ListSeen(inv) /\ ~Invalid(inv)
    BY DEF Rows, Held
  <1>2. t \in Chats /\ RowSeen(t, inv.rows[t], inv.at)
    BY <1>1 DEF Rows, ListSeen
  <1>3. Association(inv, t) \in Worktrees
    <2>1. CASE inv.rows[t].report = Nowhere
      BY <1>2, <2>1, DockAssumption DEF Association
    <2>2. CASE inv.rows[t].report # Nowhere
      <3>1. inv.rows[t].report \in Reports(inv)
        BY <2>2 DEF Reports
      <3>2. inv.rows[t].report.dir # Outside
        BY <1>1, <3>1 DEF Invalid
      <3>3. inv.rows[t].report.dir \in Directories
        BY <1>2, <2>2 DEF RowSeen, ReportSeen
      <3>4. QED
        BY <2>2, <3>2, <3>3 DEF Association, Directories
    <2>3. QED
      BY <2>1, <2>2
  <1>4. t \in LaneChats(inv, Association(inv, t))
    BY DEF LaneChats
  <1>5. QED
    BY <1>3, <1>4

LEMMA BindingsHonest ==
    ASSUME DockTyped, NEW w \in Worktrees, NEW short \in BOOLEAN,
           NEW b, b = Bindings(w, short), b.complete
    PROVE  background.stored[w] = [records |-> b.shown, known |-> TRUE]
  <1> DEFINE n == background.stored[w].records
  <1>1. background.stored # Nowhere /\ background.stored[w].known /\ n <= IF short THEN 0 ELSE MaxBindings
    BY DEF Bindings
  <1>2. background.stored[w] \in [records : Nat, known : BOOLEAN]
    BY <1>1, DockAssumption DEF DockTyped
  <1>3. n \in Nat /\ MaxBindings \in Nat
    BY <1>2, DockAssumption
  <1>4. b.shown = IF short THEN 0 ELSE Min({n, MaxBindings})
    BY <1>1 DEF Bindings
  <1>5. b.shown = n
    <2>1. CASE short
      BY <1>1, <1>3, <1>4, <2>1
    <2>2. CASE ~short
      <3>1. PICK m \in Nat : m = Min({n, MaxBindings}) /\ m \in {n, MaxBindings} /\ m <= n
        BY <1>3, LeastOf
      <3>2. n <= MaxBindings
        BY <1>1, <2>2
      <3>3. Min({n, MaxBindings}) <= n /\ Min({n, MaxBindings}) \in {n, MaxBindings}
        BY <3>1
      <3>4. QED
        BY <1>3, <1>4, <2>2, <3>2, <3>3
    <2>3. QED
      BY <2>1, <2>2
  <1>6. QED
    BY <1>1, <1>2, <1>5

LEMMA ProjectionHonest ==
    ASSUME DockTyped, NEW inv, Held(inv), NEW m \in Projections(inv)
    PROVE  m.at \in Nat /\ Honest(m)
  <1>1. PICK short, lost : short \in BOOLEAN /\ m = Projection(inv, short, lost) /\ (~short => lost = {})
    BY DEF Projections
  <1>2. /\ m.at = clock /\ m.chats = Rows(inv)
        /\ m.lanes = [w \in Worktrees |-> LaneChats(inv, w) \ lost]
        /\ m.passengers = [w \in Worktrees |->
              Passengers(inv, w, LaneChats(inv, w) \ lost, Certain(inv, lost))]
        /\ m.bindings = [w \in Worktrees |-> Bindings(w, short)]
        /\ ~m.truncated => ~short
    BY <1>1 DEF Projection
  <1>3. ASSUME NEW w \in Worktrees
        PROVE  /\ m.passengers[w].state = "unattended" => \A t \in Chats : m.at - lastOut[t][w] <= Fresh
               /\ m.passengers[w].state = "occupied" => \E t \in Chats :
                     m.at - lastIn[t][w] <= Fresh /\ m.at - lastHere[t] <= Fresh
    <2>1. PICK p : p = m.passengers[w]
      OBVIOUS
    <2>2. p = Passengers(inv, w, LaneChats(inv, w) \ lost, Certain(inv, lost))
      BY <1>2, <2>1
    <2>3. /\ p.state = "unattended" => \A t \in Chats : clock - lastOut[t][w] <= Fresh
          /\ p.state = "occupied" => \E t \in Chats :
                clock - lastIn[t][w] <= Fresh /\ clock - lastHere[t] <= Fresh
      BY <2>2, SummaryHonest
    <2>4. QED
      BY <1>2, <2>1, <2>3
  <1>4. ASSUME NEW t \in Chats PROVE Cardinality({w \in Worktrees : t \in m.lanes[w]}) <= 1
    <2>1. {w \in Worktrees : t \in m.lanes[w]} = {w \in Worktrees : t \in LaneChats(inv, w) \ lost}
      BY <1>2
    <2>2. QED
      BY <2>1, OneLane
  <1>5. ASSUME ~m.truncated, NEW t \in m.chats PROVE t \in UNION {m.lanes[w] : w \in Worktrees}
    <2>1. lost = {} /\ t \in Rows(inv)
      BY <1>1, <1>2, <1>5
    <2>2. PICK w \in Worktrees : t \in LaneChats(inv, w)
      BY <2>1, NoChatDropped
    <2>3. t \in m.lanes[w]
      BY <1>2, <2>1, <2>2
    <2>4. QED
      BY <2>3
  <1>6. ASSUME NEW w \in Worktrees, m.bindings[w].complete
        PROVE  background.stored[w] = [records |-> m.bindings[w].shown, known |-> TRUE]
    <2>1. PICK b : b = m.bindings[w]
      OBVIOUS
    <2>2. b = Bindings(w, short) /\ b.complete
      BY <1>2, <1>6, <2>1
    <2>3. QED
      BY <1>1, <2>1, <2>2, BindingsHonest
  <1>7. m.at \in Nat
    BY <1>2 DEF DockTyped
  <1>8. QED
    BY <1>3, <1>4, <1>5, <1>6, <1>7 DEF Honest

-----------------------------------------------------------------------------
(* The steps.                                                                 *)

\* The report of a chat says where its agent was when it was made.
LEMMA DeedKeeps ==
    ASSUME DockInv, NEW t \in Chats, NEW now \in Hosted, Deed(t, now),
           now.report = host[t].report \/
              (/\ now.report # Nowhere /\ now.report.dir \in Directories
               /\ now.report.at = clock /\ now.place = now.report.dir)
    PROVE  DockInv'
  <1>1. DockTyped /\ Elapsed /\ clock \in Nat
    BY DEF DockInv, DockTyped
  <1>2. /\ host' = [host EXCEPT ![t] = now] /\ clock' = clock /\ Watch
        /\ UNCHANGED <<lists, background, inventory, map>>
    BY DEF Deed
  <1>3. host \in [Chats -> Hosted]
    BY <1>1 DEF DockTyped
  <1>4. host' \in [Chats -> Hosted] /\ host'[t] = now /\ \A u \in Chats : u # t => host'[u] = host[u]
    BY <1>2, <1>3
  <1>5. DockTyped' /\ Elapsed' /\ NowSeen' /\ Later
    BY <1>1, <1>2, <1>4, WatchLater
  <1>6. ASSUME NEW u \in Chats, host'[u].report = host[u].report PROVE ReportSeen(u, host[u].report)'
    <2>1. PICK r : r = host[u].report
      OBVIOUS
    <2>2. ReportSeen(u, r)
      BY <2>1 DEF DockInv
    <2>3. ReportSeen(u, r)'
      BY <1>1, <1>5, <2>2, ReportLater
    <2>4. QED
      BY <1>6, <2>1, <2>3
  <1>7. CASE now.report = host[t].report
    <2>1. \A u \in Chats : ReportSeen(u, host[u].report)'
      BY <1>4, <1>6, <1>7
    <2>2. QED
      BY <1>2, <1>5, <2>1, AllLater
  <1>8. CASE /\ now.report # Nowhere /\ now.report.dir \in Directories
             /\ now.report.at = clock /\ now.place = now.report.dir
    <2>1. host'[t].report # Nowhere /\ Whereabouts(t)' = now.report.dir
      BY <1>4, <1>8 DEF Whereabouts
    <2>2. ASSUME NEW w \in Worktrees
          PROVE  /\ w = now.report.dir => lastIn'[t][w] = clock
                 /\ w # now.report.dir => lastOut'[t][w] = clock
      BY <1>2, <1>5, <2>1 DEF NowSeen, Passenger
    <2>3. ReportSeen(t, host[t].report)'
      BY <1>1, <1>4, <1>8, <2>2 DEF ReportSeen
    <2>4. \A u \in Chats : ReportSeen(u, host[u].report)'
      BY <1>4, <1>6, <2>3
    <2>5. QED
      BY <1>2, <1>5, <2>4, AllLater
  <1>9. QED
    BY <1>7, <1>8

LEMMA HostKeeps ==
    ASSUME DockInv, NEW t \in Chats, NEW w \in Directories,
           Archive(t) \/ Restore(t) \/ Report(t, w) \/ MoveOn(t, w)
    PROVE  DockInv'
  <1>1. host[t] \in Hosted /\ clock \in Nat
    BY DEF DockInv, DockTyped
  <1>2. PICK h \in Hosted : h = host[t]
    BY <1>1
  <1>3. PICK c \in Nat : c = clock
    BY <1>1
  <1>4. CASE Archive(t)
    <2>1. PICK now : now = [h EXCEPT !.life = "archived"]
      OBVIOUS
    <2>2. now \in Hosted /\ now.report = h.report
      BY <2>1 DEF Hosted
    <2>3. Deed(t, now)
      BY <1>2, <1>4, <2>1 DEF Archive
    <2>4. QED
      BY <1>2, <2>2, <2>3, DeedKeeps
  <1>5. CASE Restore(t)
    <2>1. PICK now : now = [h EXCEPT !.life = "present"]
      OBVIOUS
    <2>2. now \in Hosted /\ now.report = h.report
      BY <2>1 DEF Hosted
    <2>3. Deed(t, now)
      BY <1>2, <1>5, <2>1 DEF Restore
    <2>4. QED
      BY <1>2, <2>2, <2>3, DeedKeeps
  <1>6. CASE Report(t, w)
    <2>1. PICK r : r = [dir |-> w, at |-> c]
      OBVIOUS
    <2>2. PICK now : now = [h EXCEPT !.place = w, !.report = r]
      OBVIOUS
    <2>3. r \in [dir : Directories, at : Nat]
      BY <2>1
    <2>4. DOMAIN now = {"life", "place", "report"} /\ now \in Hosted /\ now.report = r /\ now.place = w
      BY <2>2, <2>3 DEF Hosted
    <2>5. Deed(t, now)
      BY <1>2, <1>3, <1>6, <2>1, <2>2 DEF Report
    <2>6. r # Nowhere
      BY <2>3, DockAssumption DEF Directories
    <2>7. QED
      BY <1>3, <2>1, <2>4, <2>5, <2>6, DeedKeeps
  <1>7. CASE MoveOn(t, w)
    <2>1. PICK now : now = [h EXCEPT !.place = w]
      OBVIOUS
    <2>2. now \in Hosted /\ now.report = h.report
      BY <2>1 DEF Hosted
    <2>3. Deed(t, now)
      BY <1>2, <1>7, <2>1 DEF MoveOn
    <2>4. QED
      BY <1>2, <2>2, <2>3, DeedKeeps
  <1>8. QED
    BY <1>4, <1>5, <1>6, <1>7

LEMMA TickKeeps == ASSUME DockInv, Tick PROVE DockInv'
  <1>1. DockTyped /\ Elapsed /\ clock \in Nat
    BY DEF DockInv, DockTyped
  <1>2. /\ clock' = clock + 1 /\ host' = host /\ Watch
        /\ UNCHANGED <<lists, background, inventory, map>>
    BY DEF Tick
  <1>3. DockTyped' /\ Elapsed' /\ NowSeen' /\ Later
    BY <1>1, <1>2, WatchLater DEF DockTyped
  <1>4. ASSUME NEW u \in Chats PROVE ReportSeen(u, host[u].report)'
    <2>1. PICK r : r = host[u].report
      OBVIOUS
    <2>2. ReportSeen(u, r)
      BY <2>1 DEF DockInv
    <2>3. ReportSeen(u, r)'
      BY <1>1, <1>3, <2>2, ReportLater
    <2>4. QED
      BY <1>2, <2>1, <2>3
  <1>5. QED
    BY <1>2, <1>3, <1>4, AllLater

\* Where nothing happened to the chats, a map and an inventory come from lists.
LEMMA StillKeeps ==
    ASSUME DockInv, UNCHANGED <<clock, host, lastIn, lastOut, lastHere, background>>,
           \A list \in lists' : ListSeen(list), Held(inventory'),
           map' # Nowhere => map'.at \in Nat /\ Honest(map')
    PROVE  DockInv'
  <1>1. DockTyped' /\ Elapsed' /\ NowSeen' /\ \A t \in Chats : ReportSeen(t, host[t].report)'
    BY DEF DockInv, DockTyped, Elapsed, NowSeen, Present, Passenger, Whereabouts, ReportSeen
  <1>2. \A list \in lists' : ListSeen(list)'
    BY DEF ListSeen, RowSeen, ReportSeen
  <1>3. Held(inventory)'
    BY DEF Held, ListSeen, RowSeen, ReportSeen, Invalid, Reports, Rows
  <1>4. map' # Nowhere => map'.at \in Nat /\ Honest(map)'
    BY DEF Honest
  <1>5. QED
    BY <1>1, <1>2, <1>3, <1>4 DEF DockInv

LEMMA ListKeeps ==
    ASSUME DockInv, NEW chats \in SUBSET Chats, NEW complete \in BOOLEAN, NEW told \in BOOLEAN,
           List(chats, complete, told)
    PROVE  DockInv'
  <1>1. /\ host \in [Chats -> Hosted] /\ clock \in Nat /\ NowSeen
        /\ \A t \in Chats : ReportSeen(t, host[t].report)
    BY DEF DockInv, DockTyped
  <1>2. PICK list : list = [at |-> clock, complete |-> complete,
                            rows |-> [t \in chats |-> [life |-> IF told THEN host[t].life ELSE "unknown",
                                                       report |-> host[t].report]]]
    OBVIOUS
  <1>3. /\ lists' = lists \cup {list}
        /\ complete => {t \in Chats : host[t].life = "present"} \subseteq chats
        /\ UNCHANGED <<clock, host, lastIn, lastOut, lastHere, deeds, background, inventory, map>>
    BY <1>2 DEF List
  <1>4. ASSUME NEW t \in chats PROVE t \in Chats /\ RowSeen(t, list.rows[t], list.at)
    <2>1. t \in Chats /\ host[t] \in Hosted
      BY <1>1
    <2>2. PICK row : row = list.rows[t]
      OBVIOUS
    <2>3. row = [life |-> IF told THEN host[t].life ELSE "unknown", report |-> host[t].report] /\ list.at = clock
      BY <1>2, <2>2
    <2>4. host[t].life \in {"present", "archived"}
      BY <2>1 DEF Hosted
    <2>5. row.report = host[t].report /\ row.life \in {host[t].life, "unknown"}
      BY <2>3
    <2>6. row.life = "present" => lastHere[t] = clock
      BY <1>1, <2>1, <2>4, <2>5 DEF NowSeen, Present
    <2>7. row.life = "archived" => \A w \in Worktrees : lastOut[t][w] = clock
      BY <1>1, <2>1, <2>4, <2>5 DEF NowSeen, Passenger, Present
    <2>8. row.report = Nowhere => /\ lastIn[t][Home[t]] = clock
                                  /\ \A w \in Worktrees : w # Home[t] => lastOut[t][w] = clock
      BY <1>1, <2>1, <2>5, DockAssumption DEF NowSeen, Passenger, Whereabouts
    <2>9. ReportSeen(t, row.report)
      BY <1>1, <2>1, <2>5
    <2>10. RowSeen(t, row, clock)
      BY <1>1, <2>4, <2>5, <2>6, <2>7, <2>8, <2>9 DEF RowSeen
    <2>11. QED
      BY <2>1, <2>2, <2>3, <2>10
  <1>5. ASSUME list.complete, NEW t \in Chats, t \notin chats, NEW w \in Worktrees
        PROVE  lastOut[t][w] >= list.at
    <2>1. complete /\ {u \in Chats : host[u].life = "present"} \subseteq chats
      BY <1>2, <1>3, <1>5
    <2>2. ~Present(t)
      BY <1>5, <2>1 DEF Present
    <2>3. lastOut[t][w] = clock
      BY <1>1, <2>2 DEF NowSeen, Passenger
    <2>4. QED
      BY <1>1, <1>2, <2>3
  <1>6. DOMAIN list.rows = chats /\ list.at \in Nat
    BY <1>1, <1>2
  <1>7. ListSeen(list)
    BY <1>4, <1>5, <1>6 DEF ListSeen
  <1>8. ASSUME NEW l \in lists' PROVE ListSeen(l)
    <2>1. l \in lists \/ l = list
      BY <1>3
    <2>2. QED
      BY <1>7, <2>1 DEF DockInv
  <1>9. QED
    BY <1>3, <1>8, StillKeeps DEF DockInv

LEMMA AcceptKeeps ==
    ASSUME DockInv, NEW list \in lists, Accept(list)
    PROVE  DockInv'
  <1>1. ListSeen(list) /\ ~Invalid(list) /\ Held(inventory) /\ DockTyped
    BY DEF DockInv, Accept
  <1>2. PICK inv : inv = inventory'
    OBVIOUS
  <1>3. Held(inv)
    BY <1>1, <1>2 DEF Accept, Held
  <1>4. map' = map \/ map' \in Projections(inv)
    BY <1>2 DEF Accept
  <1>5. map' # Nowhere => map'.at \in Nat /\ Honest(map')
    <2>1. CASE map' = map
      BY <2>1 DEF DockInv
    <2>2. CASE map' \in Projections(inv)
      <3>1. PICK m \in Projections(inv) : m = map'
        BY <2>2
      <3>2. QED
        BY <1>1, <1>3, <3>1, ProjectionHonest
    <2>3. QED
      BY <1>4, <2>1, <2>2
  <1>6. /\ lists' \subseteq lists
        /\ UNCHANGED <<clock, host, lastIn, lastOut, lastHere, deeds, background>>
    BY DEF Accept
  <1>7. QED
    BY <1>2, <1>3, <1>5, <1>6, StillKeeps DEF DockInv

LEMMA RefreshKeeps == ASSUME DockInv, RefreshMap PROVE DockInv'
  <1>1. PICK inv : inv = inventory
    OBVIOUS
  <1>2. Held(inv) /\ DockTyped
    BY <1>1 DEF DockInv
  <1>3. PICK m \in Projections(inv) : m = map'
    BY <1>1 DEF RefreshMap
  <1>4. map'.at \in Nat /\ Honest(map')
    BY <1>2, <1>3, ProjectionHonest
  <1>5. UNCHANGED <<clock, host, lastIn, lastOut, lastHere, deeds, lists, background, inventory>>
    BY DEF RefreshMap
  <1>6. QED
    BY <1>4, <1>5, StillKeeps DEF DockInv

LEMMA DockNextKeeps == DockInv /\ [DockNext]_dockVars => DockInv'
  <1> SUFFICES ASSUME DockInv, [DockNext]_dockVars PROVE DockInv'
    OBVIOUS
  <1>1. ASSUME NEW t \in Chats, Archive(t) \/ Restore(t) PROVE DockInv'
    <2>1. Outside \in Directories
      BY DEF Directories
    <2>2. QED
      BY <1>1, <2>1, HostKeeps
  <1>2. ASSUME NEW t \in Chats, NEW w \in Worktrees \cup {Outside}, Report(t, w) \/ MoveOn(t, w)
        PROVE  DockInv'
    BY <1>2, HostKeeps DEF Directories
  <1>3. ASSUME NEW chats \in SUBSET Chats, NEW complete \in BOOLEAN, NEW told \in BOOLEAN,
               List(chats, complete, told)
        PROVE  DockInv'
    BY <1>3, ListKeeps
  <1>4. ASSUME NEW list \in lists, Accept(list) PROVE DockInv'
    BY <1>4, AcceptKeeps
  <1>5. ASSUME NEW list \in lists, Refuse(list) PROVE DockInv'
    <2>1. /\ lists' \subseteq lists
          /\ UNCHANGED <<clock, host, lastIn, lastOut, lastHere, deeds, background, inventory, map>>
      BY <1>5 DEF Refuse
    <2>2. QED
      BY <2>1, StillKeeps DEF DockInv
  <1>6. CASE UNCHANGED dockVars
    BY <1>6, StillKeeps DEF dockVars, DockInv
  <1>7. CASE DockNext
    BY <1>7, <1>1, <1>2, <1>3, <1>4, <1>5, TickKeeps, RefreshKeeps DEF DockNext
  <1>8. QED
    BY <1>6, <1>7

(* Whatever chats did while their host listed them, however late the lists   *)
(* reach the client and whatever the budget of the map cut off: what the map *)
(* says of a worktree held of every chat not long before, no chat is in two  *)
(* lanes, and nothing is missing from what is called complete.               *)
(* task_observation, passenger_summary, bound_model of dock.rs.              *)
THEOREM MapsAreHonest == DockSpec => []PassengersHonest
  <1>1. DockInv => PassengersHonest
    BY DEF DockInv, Honest, PassengersHonest, CertainlyTrue
  <1>2. DockSpec => []DockInv
    BY DockInitInv, DockNextKeeps, PTL DEF DockSpec
  <1>3. QED
    BY <1>1, <1>2, PTL
---------------------------------------------------------------------------
(* Sums.                                                                      *)

\* g holds the sums of the first numbers of f.
Sums(f, n, g) == g \in [0..n -> Nat] /\ g[0] = 0 /\ \A k \in 1..n : g[k] = g[k - 1] + f[k]

LEMMA SumsExist ==
    ASSUME NEW m \in Nat, NEW f \in [1..m -> Nat], NEW n \in 0..m
    PROVE  \E g : Sums(f, n, g)
  <1> DEFINE T == {k \in 0..m : ~\E g : Sums(f, k, g)}
  <1>1. SUFFICES ASSUME T # {} PROVE FALSE
    OBVIOUS
  <1>2. T \in SUBSET Nat
    OBVIOUS
  <1>3. PICK k \in T : \A y \in T : k <= y
    BY <1>1, <1>2, LeastOf
  <1>4. k \in 0..m
    OBVIOUS
  <1>5. CASE k = 0
    <2>1. Sums(f, 0, [j \in 0..0 |-> 0])
      BY DEF Sums
    <2>2. QED
      BY <1>5, <2>1
  <1>6. CASE k > 0
    <2>1. k - 1 \in 0..m /\ k - 1 \notin T
      BY <1>3, <1>4, <1>6
    <2>2. PICK g : Sums(f, k - 1, g)
      BY <2>1
    <2>3. PICK h : h = [j \in 0..k |-> IF j = k THEN g[k - 1] + f[k] ELSE g[j]]
      OBVIOUS
    <2>4. Sums(f, k, h)
      <3>1. g \in [0..(k - 1) -> Nat] /\ f[k] \in Nat /\ g[k - 1] \in Nat
        BY <1>4, <1>6, <2>2 DEF Sums
      <3>2. h \in [0..k -> Nat] /\ h[0] = 0
        BY <1>4, <1>6, <2>2, <2>3, <3>1 DEF Sums
      <3>3. ASSUME NEW j \in 1..k PROVE h[j] = h[j - 1] + f[j]
        <4>1. CASE j = k
          BY <1>4, <1>6, <2>3, <4>1
        <4>2. CASE j # k
          <5>1. j \in 1..(k - 1) /\ j \in 0..k /\ j - 1 \in 0..k /\ j - 1 # k
            BY <1>4, <4>2
          <5>2. QED
            BY <2>2, <2>3, <4>2, <5>1 DEF Sums
        <4>3. QED
          BY <4>1, <4>2
      <3>4. QED
        BY <3>2, <3>3 DEF Sums
    <2>5. QED
      BY <2>4
  <1>7. QED
    BY <1>4, <1>5, <1>6

LEMMA SumsAgree ==
    ASSUME NEW m \in Nat, NEW n \in Nat, NEW f, NEW g, NEW h, Sums(f, m, g), Sums(f, n, h)
    PROVE  \A k \in Nat : k <= m /\ k <= n => g[k] = h[k]
  <1> DEFINE T == {k \in Nat : k <= m /\ k <= n /\ g[k] # h[k]}
  <1>1. SUFFICES ASSUME T # {} PROVE FALSE
    OBVIOUS
  <1>2. PICK k \in T : \A y \in T : k <= y
    BY <1>1, LeastOf
  <1>3. k # 0
    BY DEF Sums
  <1>4. k - 1 \in Nat /\ k \in 1..m /\ k \in 1..n /\ ~(k <= k - 1)
    BY <1>3
  <1>5. g[k - 1] = h[k - 1]
    BY <1>2, <1>4
  <1>6. g[k] = g[k - 1] + f[k] /\ h[k] = h[k - 1] + f[k]
    BY <1>4 DEF Sums
  <1>7. QED
    BY <1>5, <1>6

LEMMA SumIs ==
    ASSUME NEW m \in Nat, NEW f \in [1..m -> Nat], NEW n \in 0..m, NEW g, Sums(f, n, g)
    PROVE  Sum(f, n) = g[n]
  <1> DEFINE F(r) == [k \in 0..n |-> IF k = 0 THEN 0 ELSE r[k - 1] + f[k]]
  <1>1. g = F(g)
    <2>1. ASSUME NEW k \in 0..n PROVE g[k] = IF k = 0 THEN 0 ELSE g[k - 1] + f[k]
      BY DEF Sums
    <2>2. QED
      BY <2>1 DEF Sums
  <1>2. PICK s : s = (CHOOSE r : r = F(r))
    OBVIOUS
  <1>3. s = F(s)
    BY <1>1, <1>2
  <1>4. Sum(f, n) = s[n]
    BY <1>2 DEF Sum
  <1> DEFINE T == {k \in 0..n : g[k] # s[k]}
  <1>5. SUFFICES ASSUME T # {} PROVE FALSE
    BY <1>4
  <1>12. T \in SUBSET Nat
    OBVIOUS
  <1>6. PICK k \in T : \A y \in T : k <= y
    BY <1>5, <1>12, LeastOf
  <1>7. k # 0
    BY <1>3 DEF Sums
  <1>8. k - 1 \in 0..n /\ k \in 1..n /\ ~(k <= k - 1)
    BY <1>7
  <1>9. g[k - 1] = s[k - 1]
    BY <1>6, <1>8
  <1>10. g[k] = g[k - 1] + f[k] /\ s[k] = s[k - 1] + f[k]
    BY <1>3, <1>7, <1>8 DEF Sums
  <1>11. QED
    BY <1>9, <1>10

LEMMA SumTyped ==
    ASSUME NEW m \in Nat, NEW f \in [1..m -> Nat], NEW n \in 0..m
    PROVE  Sum(f, n) \in Nat
  <1>1. PICK g : Sums(f, n, g)
    BY SumsExist
  <1>2. Sum(f, n) = g[n]
    BY <1>1, SumIs
  <1>3. QED
    BY <1>1, <1>2 DEF Sums

LEMMA SumStep ==
    ASSUME NEW m \in Nat, NEW f \in [1..m -> Nat]
    PROVE  Sum(f, 0) = 0 /\ \A n \in 1..m : Sum(f, n) = Sum(f, n - 1) + f[n]
  <1>1. PICK g : Sums(f, m, g)
    BY SumsExist
  <1>2. ASSUME NEW n \in 0..m PROVE Sum(f, n) = g[n]
    <2>1. PICK h : Sums(f, n, h)
      BY SumsExist
    <2>2. Sum(f, n) = h[n]
      BY <2>1, SumIs
    <2>3. QED
      BY <1>1, <2>1, <2>2, SumsAgree
  <1>3. QED
    BY <1>1, <1>2 DEF Sums

\* A part of the numbers, and smaller numbers, have a smaller sum.
LEMMA SumMonotone ==
    ASSUME NEW m \in Nat, NEW f \in [1..m -> Nat], NEW g \in [1..m -> Nat],
           \A k \in 1..m : f[k] <= g[k]
    PROVE  Sum(f, m) <= Sum(g, m)
  <1> DEFINE T == {n \in 0..m : ~(Sum(f, n) <= Sum(g, n))}
  <1>1. SUFFICES ASSUME T # {} PROVE FALSE
    <2>1. m \in 0..m
      OBVIOUS
    <2>2. QED
      BY <2>1
  <1>9. T \in SUBSET Nat
    OBVIOUS
  <1>2. PICK n \in T : \A y \in T : n <= y
    BY <1>1, <1>9, LeastOf
  <1>3. n # 0
    <2>1. Sum(f, 0) = 0 /\ Sum(g, 0) = 0
      BY SumStep
    <2>2. QED
      BY <2>1
  <1>4. n - 1 \in 0..m /\ n \in 1..m /\ ~(n <= n - 1)
    BY <1>3
  <1>5. Sum(f, n - 1) <= Sum(g, n - 1)
    BY <1>2, <1>4
  <1>6. PICK a \in Nat, b \in Nat : a = Sum(f, n - 1) /\ b = Sum(g, n - 1)
    BY <1>4, SumTyped
  <1>7. Sum(f, n) = a + f[n] /\ Sum(g, n) = b + g[n]
    BY <1>4, <1>6, SumStep
  <1>8. QED
    BY <1>4, <1>5, <1>6, <1>7

LEMMA SumOfPart ==
    ASSUME NEW m \in Nat, NEW f \in [1..m -> Nat], NEW n \in 0..m
    PROVE  Sum(f, n) <= Sum(f, m)
  <1> DEFINE T == {k \in Nat : n <= k /\ k <= m /\ ~(Sum(f, n) <= Sum(f, k))}
  <1>1. SUFFICES ASSUME T # {} PROVE FALSE
    OBVIOUS
  <1>2. PICK k \in T : \A y \in T : k <= y
    BY <1>1, LeastOf
  <1>3. Sum(f, n) \in Nat
    BY SumTyped
  <1>4. k # n
    BY <1>3
  <1>5. k - 1 \in Nat /\ k \in 1..m /\ n <= k - 1 /\ k - 1 \in 0..m /\ ~(k <= k - 1)
    BY <1>4
  <1>6. Sum(f, n) <= Sum(f, k - 1)
    BY <1>2, <1>5
  <1>7. Sum(f, k) = Sum(f, k - 1) + f[k] /\ Sum(f, k - 1) \in Nat /\ f[k] \in Nat
    BY <1>5, SumStep, SumTyped
  <1>8. QED
    BY <1>3, <1>6, <1>7

LEMMA SumOfUpdate ==
    ASSUME NEW m \in Nat, NEW f \in [1..m -> Nat], NEW g \in [1..m -> Nat], NEW w \in 1..m,
           \A k \in 1..m : k # w => g[k] = f[k]
    PROVE  Sum(g, m) = Sum(f, m) - f[w] + g[w]
  <1>1. PICK v \in Nat : v = g[w]
    OBVIOUS
  <1>2. g[w] = v /\ \A k \in 1..m : k # w => g[k] = f[k]
    BY <1>1
  <1> DEFINE T == {n \in 0..m : Sum(g, n) # IF n < w THEN Sum(f, n) ELSE Sum(f, n) - f[w] + v}
  <1>3. SUFFICES ASSUME T # {} PROVE FALSE
    <2>1. m \in 0..m /\ ~(m < w)
      OBVIOUS
    <2>2. QED
      BY <1>1, <1>2, <2>1
  <1>15. T \in SUBSET Nat
    OBVIOUS
  <1>4. PICK n \in T : \A y \in T : n <= y
    BY <1>3, <1>15, LeastOf
  <1>5. n # 0
    <2>1. Sum(f, 0) = 0 /\ Sum(g, 0) = 0
      BY <1>2, SumStep
    <2>2. 0 < w
      OBVIOUS
    <2>3. QED
      BY <2>1, <2>2
  <1>6. n - 1 \in 0..m /\ n \in 1..m /\ ~(n <= n - 1)
    BY <1>5
  <1>7. Sum(g, n - 1) = IF n - 1 < w THEN Sum(f, n - 1) ELSE Sum(f, n - 1) - f[w] + v
    BY <1>4, <1>6
  <1>8. PICK a \in Nat : a = Sum(f, n - 1)
    BY <1>6, SumTyped
  <1>9. Sum(g, n) = Sum(g, n - 1) + g[n] /\ Sum(f, n) = a + f[n]
    BY <1>2, <1>6, <1>8, SumStep
  <1>10. f[w] \in Nat /\ f[n] \in Nat
    BY <1>6
  <1>11. CASE n = w
    BY <1>2, <1>7, <1>8, <1>9, <1>10, <1>11
  <1>12. CASE n < w
    BY <1>2, <1>6, <1>7, <1>8, <1>9, <1>10, <1>12
  <1>13. CASE n > w
    BY <1>2, <1>6, <1>7, <1>8, <1>9, <1>10, <1>13
  <1>14. QED
    BY <1>6, <1>11, <1>12, <1>13

LEMMA SumOfNothing ==
    ASSUME NEW m \in Nat
    PROVE  Sum([w \in 1..m |-> 0], m) = 0
  <1>1. PICK f : f = [w \in 1..m |-> 0]
    OBVIOUS
  <1>2. f \in [1..m -> Nat]
    BY <1>1
  <1>3. PICK g : g = [n \in 0..m |-> 0]
    OBVIOUS
  <1>4. Sums(f, m, g)
    BY <1>1, <1>3 DEF Sums
  <1>5. QED
    BY <1>1, <1>2, <1>3, <1>4, SumIs

---------------------------------------------------------------------------
(* The capture.  What a worktree has used of the budget is what its thread    *)
(* has read of it, and nobody else is at that worktree; so a chunk that finds *)
(* no room would have found none in the serial capture either.               *)

Sizes == [w \in Tasks |-> SizeOf(w)]
Busy(t) == thread[t].pc \in {"reading", "holding"}
At(t) == thread[t].task
Holding(t) == IF thread[t].pc = "holding" THEN Size(t) ELSE 0

ThreadRecords == [pc : {"new", "refused", "free", "reading", "holding", "ended", "panicked"},
                  task : Nat, chunk : Nat, saw : 0..2]

EvidenceTypes ==
    /\ budget \in Nat /\ shared \in 1..2 /\ seen = 1 /\ next \in Nat \ {0}
    /\ thread \in [Threads -> ThreadRecords]
    /\ admission \in [bytes : Int, reserved : Int, cancelled : BOOLEAN]
    /\ fragment \in [Tasks -> -1..2]
    /\ result \in {"none", "error", "serial", "evidence"}

\* A thread is at a worktree of its own, which was taken and has no fragment yet.
Working ==
    /\ \A t \in Threads : Busy(t) =>
          /\ At(t) \in Tasks /\ At(t) < next /\ fragment[At(t)] = -1 /\ thread[t].saw \in 1..2
          /\ thread[t].chunk \in 1..(Len(Chunks[At(t)]) + 1)
          /\ thread[t].pc = "holding" => thread[t].chunk <= Len(Chunks[At(t)])
    /\ \A s, t \in Threads : Busy(s) /\ Busy(t) /\ At(s) = At(t) => s = t

\* Slots start in their order; what was taken is in progress, done or lost.
Taken ==
    /\ \A s, t \in Threads : s < t /\ thread[s].pc \in {"new", "refused"} => thread[t].pc = "new"
    /\ thread[1].pc \in {"new", "refused"} => next = 1
    /\ (\E t \in Threads : thread[t].pc = "ended") => next > Len(Chunks)
    /\ \A w \in Tasks : w >= next => fragment[w] = -1
    /\ \A w \in Tasks : w < next => Panicked \/ fragment[w] # -1 \/ \E t \in Threads : Busy(t) /\ At(t) = w

\* What every worktree has used of the budget, and what of that is reserved.
Balanced(used, kept) ==
    /\ used \in [Tasks -> Nat] /\ kept \in [Tasks -> Nat]
    /\ admission.bytes + admission.reserved = Sum(used, Len(Chunks))
    /\ admission.reserved = Sum(kept, Len(Chunks))
    /\ \A w \in Tasks : used[w] <= SizeOf(w)
    /\ \A w \in Tasks : w >= next => used[w] = 0
    /\ \A w \in Tasks : fragment[w] > 0 => used[w] = SizeOf(w)
    /\ \A w \in Tasks : kept[w] = 0 \/ \E t \in Threads : Busy(t) /\ At(t) = w
    /\ \A t \in Threads : Busy(t) =>
          /\ used[At(t)] = Sum(Chunks[At(t)], thread[t].chunk - 1) + kept[At(t)]
          /\ kept[At(t)] = Holding(t)
Account == \E used, kept : Balanced(used, kept)

Refusals ==
    /\ admission.bytes + admission.reserved <= budget
    /\ admission.cancelled => Panicked
    /\ \A w \in Tasks : fragment[w] = 0 => Panicked \/ Total > budget

CaptureConcluded ==
    result # "none" =>
        /\ Joined
        /\ Panicked => result = "error"
        /\ ~Panicked => (result = "error" <=> Total > budget)
        /\ result = "evidence" => admission.bytes = Total /\ \A w \in Tasks : fragment[w] = seen

EvidenceInv == EvidenceTypes /\ Working /\ Taken /\ Account /\ Refusals /\ CaptureConcluded

---------------------------------------------------------------------------
LEMMA SizesTyped ==
    /\ Len(Chunks) \in Nat /\ Tasks = 1..Len(Chunks) /\ Slots \in Nat \ {0} /\ 1 \in Threads
    /\ \A w \in Tasks : /\ Chunks[w] \in [1..Len(Chunks[w]) -> Nat] /\ Len(Chunks[w]) \in Nat
                         /\ SizeOf(w) \in Nat
    /\ Sizes \in [Tasks -> Nat] /\ Total = Sum(Sizes, Len(Chunks)) /\ Total \in Nat
  <1>1. Len(Chunks) \in Nat /\ Tasks = 1..Len(Chunks) /\ Slots \in Nat \ {0} /\ 1 \in Threads
    BY EvidenceAssumption DEF Tasks, Threads
  <1>2. ASSUME NEW w \in Tasks
        PROVE  Chunks[w] \in [1..Len(Chunks[w]) -> Nat] /\ Len(Chunks[w]) \in Nat /\ SizeOf(w) \in Nat
    <2>1. PICK c \in Seq(Nat) : c = Chunks[w]
      BY EvidenceAssumption DEF Tasks
    <2>2. PICK k \in Nat : k = Len(c)
      OBVIOUS
    <2>3. c \in [1..k -> Nat] /\ k \in 0..k
      BY <2>2
    <2>4. Sum(c, k) \in Nat
      BY <2>3, SumTyped
    <2>5. QED
      BY <2>1, <2>2, <2>3, <2>4 DEF SizeOf
  <1>3. Sizes \in [Tasks -> Nat]
    BY <1>2 DEF Sizes
  <1>4. Total = Sum(Sizes, Len(Chunks))
    BY DEF Total, Sizes
  <1>5. Total \in Nat
    <2>1. PICK m \in Nat : m = Len(Chunks)
      BY <1>1
    <2>2. Sizes \in [1..m -> Nat] /\ m \in 0..m
      BY <1>1, <1>3, <2>1
    <2>3. QED
      BY <1>4, <2>1, <2>2, SumTyped
  <1>6. QED
    BY <1>1, <1>2, <1>3, <1>4, <1>5

LEMMA ChunkSums ==
    ASSUME NEW w \in Tasks, NEW c \in 1..Len(Chunks[w])
    PROVE  /\ Chunks[w][c] \in Nat /\ Sum(Chunks[w], c - 1) \in Nat
           /\ Sum(Chunks[w], c) = Sum(Chunks[w], c - 1) + Chunks[w][c]
           /\ Sum(Chunks[w], c) <= SizeOf(w)
  <1>1. PICK m \in Nat : m = Len(Chunks[w])
    BY SizesTyped
  <1>2. PICK f \in [1..m -> Nat] : f = Chunks[w]
    BY <1>1, SizesTyped
  <1>3. c \in 1..m /\ c - 1 \in 0..m /\ c \in 0..m
    BY <1>1
  <1>4. f[c] \in Nat /\ Sum(f, c - 1) \in Nat
    <2>1. PICK d \in 0..m : d = c - 1
      BY <1>3
    <2>2. QED
      BY <1>3, <2>1, SumTyped
  <1>5. Sum(f, c) = Sum(f, c - 1) + f[c]
    BY <1>3, SumStep
  <1>6. Sum(f, c) <= Sum(f, m)
    BY <1>3, SumOfPart
  <1>7. QED
    BY <1>1, <1>2, <1>4, <1>5, <1>6 DEF SizeOf

\* One worktree uses more or less.
LEMMA UsedChanges ==
    ASSUME NEW old \in [Tasks -> Nat], NEW used \in [Tasks -> Nat], NEW w \in Tasks,
           \A x \in Tasks : x # w => used[x] = old[x]
    PROVE  /\ Sum(old, Len(Chunks)) \in Nat /\ Sum(used, Len(Chunks)) \in Nat
           /\ Sum(used, Len(Chunks)) = Sum(old, Len(Chunks)) - old[w] + used[w]
  <1>1. PICK m \in Nat : m = Len(Chunks)
    BY SizesTyped
  <1>2. old \in [1..m -> Nat] /\ used \in [1..m -> Nat] /\ w \in 1..m /\ m \in 0..m /\ Tasks = 1..m
    BY <1>1, SizesTyped
  <1>3. Sum(old, m) \in Nat /\ Sum(used, m) \in Nat
    BY <1>2, SumTyped
  <1>4. PICK f \in [1..m -> Nat], g \in [1..m -> Nat], x \in 1..m : f = old /\ g = used /\ x = w
    BY <1>2
  <1>5. \A k \in 1..m : k # x => g[k] = f[k]
    BY <1>2, <1>4
  <1>6. Sum(g, m) = Sum(f, m) - f[x] + g[x]
    BY <1>5, SumOfUpdate
  <1>7. QED
    BY <1>1, <1>3, <1>4, <1>6

\* The same, for one worktree whose account is written anew.
Rewritten(spent, used, w, more) ==
    /\ used \in [Tasks -> Nat] /\ w \in Tasks /\ more \in Nat
    /\ spent = [used EXCEPT ![w] = more]
Recounted(spent, used, w, more) ==
    /\ Sum(used, Len(Chunks)) \in Nat
    /\ Sum(spent, Len(Chunks)) = Sum(used, Len(Chunks)) - used[w] + more

LEMMA AccountChanges ==
    ASSUME NEW used, NEW w, NEW more, NEW spent, Rewritten(spent, used, w, more)
    PROVE  Recounted(spent, used, w, more)
  <1>1. /\ used \in [Tasks -> Nat] /\ w \in Tasks
        /\ spent \in [Tasks -> Nat] /\ spent[w] = more
        /\ \A v \in Tasks : v # w => spent[v] = used[v]
    BY DEF Rewritten
  <1>2. /\ Sum(used, Len(Chunks)) \in Nat
        /\ Sum(spent, Len(Chunks)) = Sum(used, Len(Chunks)) - used[w] + spent[w]
    BY <1>1, UsedChanges
  <1>3. QED
    BY <1>1, <1>2 DEF Recounted

LEMMA UsedFits ==
    ASSUME NEW used \in [Tasks -> Nat], \A w \in Tasks : used[w] <= SizeOf(w)
    PROVE  Sum(used, Len(Chunks)) <= Total
  <1>1. PICK m \in Nat : m = Len(Chunks)
    BY SizesTyped
  <1>2. used \in [1..m -> Nat] /\ Sizes \in [1..m -> Nat] /\ Tasks = 1..m
    BY <1>1, SizesTyped
  <1>3. \A w \in 1..m : used[w] <= Sizes[w]
    BY <1>2 DEF Sizes
  <1>4. QED
    BY <1>1, <1>2, <1>3, SizesTyped, SumMonotone

---------------------------------------------------------------------------
(* The steps.                                                                 *)

LEMMA EvidenceInitInv == EvidenceInit => EvidenceInv
  <1>1. SUFFICES ASSUME EvidenceInit PROVE EvidenceInv
    OBVIOUS
  <1>2. EvidenceTypes /\ Working /\ CaptureConcluded
    BY <1>1, EvidenceAssumption DEF EvidenceInit, EvidenceTypes, Working, CaptureConcluded, Busy, ThreadRecords
  <1>3. Taken
    BY <1>1, SizesTyped DEF EvidenceInit, Taken, Tasks
  <1>4. Refusals
    BY <1>1, EvidenceAssumption DEF EvidenceInit, Refusals
  <1>5. Account
    <2>1. PICK m \in Nat : m = Len(Chunks)
      BY SizesTyped
    <2>2. PICK zero : zero = [w \in Tasks |-> 0]
      OBVIOUS
    <2>3. zero \in [Tasks -> Nat] /\ Sum(zero, Len(Chunks)) = 0
      BY <2>1, <2>2, SumOfNothing, SizesTyped
    <2>4. Balanced(zero, zero)
      BY <1>1, <2>2, <2>3, SizesTyped DEF EvidenceInit, Balanced, Busy
    <2>5. QED
      BY <2>4 DEF Account
  <1>6. QED
    BY <1>2, <1>3, <1>4, <1>5 DEF EvidenceInv

\* After the last thread is joined, none goes on.
LEMMA StillRunning ==
    ASSUME EvidenceInv, NEW t \in Threads,
           \/ thread[t].pc \in {"free", "reading", "holding"}
           \/ thread[t].pc = "new" /\ \A s \in 1..(t - 1) : thread[s].pc \notin {"new", "refused"}
    PROVE  result = "none" /\ (thread[t].pc # "new" => thread[1].pc \notin {"new", "refused"})
  <1>1. Taken /\ CaptureConcluded
    BY DEF EvidenceInv
  <1>2. t \in Nat /\ Slots \in Nat /\ t >= 1 /\ t <= Slots
    BY SizesTyped DEF Threads
  <1>3. ASSUME NEW s \in 1..t, thread[s].pc = "refused" PROVE FALSE
    <2>1. s \in Threads
      BY <1>2 DEF Threads
    <2>2. CASE s = t
      BY <1>3, <2>2
    <2>3. CASE s # t
      <3>1. s < t /\ s \in 1..(t - 1)
        BY <1>2, <2>3
      <3>2. thread[t].pc = "new"
        BY <1>1, <1>3, <2>1, <3>1 DEF Taken
      <3>3. QED
        BY <1>3, <3>1, <3>2
    <2>4. QED
      BY <2>2, <2>3
  <1>4. ~Joined
    BY <1>3 DEF Joined, Ended
  <1>5. result = "none"
    BY <1>1, <1>4 DEF CaptureConcluded
  <1>6. ASSUME thread[t].pc # "new" PROVE thread[1].pc \notin {"new", "refused"}
    <2>1. 1 < t \/ t = 1
      BY <1>2
    <2>2. thread[t].pc # "refused"
      BY <1>6
    <2>3. QED
      BY <1>1, <1>6, <2>1, <2>2, SizesTyped DEF Taken
  <1>7. QED
    BY <1>5, <1>6

LEMMA StartKeeps ==
    ASSUME EvidenceInv, NEW t \in Threads, Start(t)
    PROVE  EvidenceInv'
  <1>1. EvidenceTypes /\ Working /\ Taken /\ Account /\ Refusals /\ CaptureConcluded
    BY DEF EvidenceInv
  <1>2. /\ thread[t].pc = "new" /\ \A s \in 1..(t - 1) : thread[s].pc \notin {"new", "refused"}
        /\ UNCHANGED <<budget, shared, seen, next, admission, fragment, result>>
    BY DEF Start
  <1>3. PICK pc \in {"free", "refused"} : thread' = [thread EXCEPT ![t].pc = pc]
    BY DEF Start, Move
  <1>4. result = "none"
    BY <1>2, StillRunning
  <1>5. thread[t] \in ThreadRecords
    BY <1>1 DEF EvidenceTypes
  <1>6. /\ thread' \in [Threads -> ThreadRecords] /\ thread'[t].pc = pc
        /\ \A s \in Threads : s # t => thread'[s] = thread[s]
    BY <1>1, <1>3, <1>5 DEF EvidenceTypes, ThreadRecords
  <1>7. /\ \A s \in Threads : Busy(s)' <=> Busy(s)
        /\ \A s \in Threads : Busy(s) => thread'[s] = thread[s] /\ Holding(s)' = Holding(s)
    BY <1>2, <1>6 DEF Busy, Holding, Size
  <1>8. Panicked' <=> Panicked
    BY <1>2, <1>6 DEF Panicked
  <1>9. EvidenceTypes'
    BY <1>1, <1>2, <1>6 DEF EvidenceTypes
  <1>10. Working'
    BY <1>1, <1>2, <1>7 DEF Working, At
  <1>11. Taken'
    <2>1. ASSUME NEW s \in Threads, NEW u \in Threads, s < u, thread'[s].pc \in {"new", "refused"}
          PROVE  thread'[u].pc = "new"
      <3>1. s \in Nat /\ u \in Nat /\ t \in Nat /\ 1 <= s
        BY SizesTyped DEF Threads
      <3>2. CASE u = t
        <4>1. s \in 1..(t - 1) /\ s # t
          BY <2>1, <3>1, <3>2
        <4>2. QED
          BY <1>2, <1>6, <2>1, <4>1
      <3>3. CASE u # t
        <4>1. thread[s].pc \in {"new", "refused"}
          BY <1>2, <1>6, <2>1
        <4>2. QED
          BY <1>1, <1>6, <2>1, <3>3, <4>1 DEF Taken
      <3>4. QED
        BY <3>2, <3>3
    <2>2. thread'[1].pc \in {"new", "refused"} => next' = 1
      BY <1>1, <1>2, <1>6, SizesTyped DEF Taken
    <2>3. (\E s \in Threads : thread'[s].pc = "ended") => next' > Len(Chunks)
      BY <1>1, <1>2, <1>6 DEF Taken
    <2>4. ASSUME NEW w \in Tasks, w < next'
          PROVE  Panicked' \/ fragment'[w] # -1 \/ \E s \in Threads : Busy(s)' /\ At(s)' = w
      BY <1>1, <1>2, <1>7, <1>8, <2>4 DEF Taken, At
    <2>5. QED
      BY <1>1, <1>2, <2>1, <2>2, <2>3, <2>4 DEF Taken
  <1>12. Account'
    <2>1. PICK used, kept : Balanced(used, kept)
      BY <1>1 DEF Account
    <2>2. ASSUME NEW s \in Threads, Busy(s)'
          PROVE  /\ used[At(s)'] = Sum(Chunks[At(s)'], thread'[s].chunk - 1) + kept[At(s)']
                 /\ kept[At(s)'] = Holding(s)'
      <3>1. Busy(s) /\ thread'[s] = thread[s] /\ Holding(s)' = Holding(s) /\ At(s)' = At(s)
        BY <1>7, <2>2 DEF At
      <3>2. used[At(s)] = Sum(Chunks[At(s)], thread[s].chunk - 1) + kept[At(s)] /\ kept[At(s)] = Holding(s)
        BY <2>1, <3>1 DEF Balanced
      <3>3. QED
        BY <3>1, <3>2
    <2>3. ASSUME NEW v \in Tasks PROVE kept[v] = 0 \/ \E s \in Threads : Busy(s)' /\ At(s)' = v
      <3>1. kept[v] = 0 \/ \E s \in Threads : Busy(s) /\ At(s) = v
        BY <2>1 DEF Balanced
      <3>2. ASSUME NEW s \in Threads, Busy(s), At(s) = v PROVE Busy(s)' /\ At(s)' = v
        BY <1>7, <3>2 DEF At
      <3>3. QED
        BY <3>1, <3>2
    <2>4. Balanced(used, kept)'
      BY <1>2, <2>1, <2>2, <2>3 DEF Balanced
    <2>5. QED
      BY <2>4 DEF Account
  <1>13. Refusals' /\ CaptureConcluded'
    BY <1>1, <1>2, <1>4, <1>8 DEF Refusals, CaptureConcluded
  <1>14. QED
    BY <1>9, <1>10, <1>11, <1>12, <1>13 DEF EvidenceInv

LEMMA TakeTaskKeeps ==
    ASSUME EvidenceInv, NEW t \in Threads, TakeTask(t)
    PROVE  EvidenceInv'
  <1>1. EvidenceTypes /\ Working /\ Taken /\ Account /\ Refusals /\ CaptureConcluded
    BY DEF EvidenceInv
  <1>2. /\ thread[t].pc = "free" /\ next' = next + 1
        /\ thread' = [thread EXCEPT ![t] = IF next > Len(Chunks) THEN [@ EXCEPT !.pc = "ended"]
                                          ELSE [pc |-> "reading", task |-> next, chunk |-> 1, saw |-> shared]]
        /\ UNCHANGED <<budget, shared, seen, admission, fragment, result>>
    BY DEF TakeTask
  <1>3. result = "none" /\ thread[1].pc \notin {"new", "refused"}
    BY <1>2, StillRunning
  <1>4. PICK new : new = IF next > Len(Chunks) THEN [thread[t] EXCEPT !.pc = "ended"]
                         ELSE [pc |-> "reading", task |-> next, chunk |-> 1, saw |-> shared]
    OBVIOUS
  <1>5. thread[t] \in ThreadRecords /\ next \in Nat \ {0} /\ shared \in 1..2 /\ Len(Chunks) \in Nat
    BY <1>1, SizesTyped DEF EvidenceTypes
  <1>6. new \in ThreadRecords /\ new.pc = IF next > Len(Chunks) THEN "ended" ELSE "reading"
    BY <1>4, <1>5 DEF ThreadRecords
  <1>7. thread' = [thread EXCEPT ![t] = new]
    BY <1>2, <1>4
  <1>8. /\ thread' \in [Threads -> ThreadRecords] /\ thread'[t] = new
        /\ \A s \in Threads : s # t => thread'[s] = thread[s]
    BY <1>1, <1>6, <1>7 DEF EvidenceTypes
  <1>9. Panicked' <=> Panicked
    BY <1>2, <1>6, <1>8 DEF Panicked
  <1>10. EvidenceTypes'
    BY <1>1, <1>2, <1>5, <1>8 DEF EvidenceTypes
  <1>11. Refusals' /\ CaptureConcluded'
    BY <1>1, <1>2, <1>3, <1>9 DEF Refusals, CaptureConcluded
  <1>12. ASSUME NEW s \in Threads, Busy(s) PROVE s # t /\ thread'[s] = thread[s] /\ Busy(s)' /\ Holding(s)' = Holding(s)
    BY <1>2, <1>8, <1>12 DEF Busy, Holding, Size
  <1>13. CASE next > Len(Chunks)
    <2>1. \A s \in Threads : Busy(s)' => Busy(s)
      BY <1>6, <1>8, <1>13 DEF Busy
    <2>2. Working'
      <3>1. ASSUME NEW s \in Threads, Busy(s)'
            PROVE  /\ At(s)' \in Tasks /\ At(s)' < next' /\ fragment'[At(s)'] = -1 /\ thread'[s].saw \in 1..2
                   /\ thread'[s].chunk \in 1..(Len(Chunks[At(s)']) + 1)
                   /\ thread'[s].pc = "holding" => thread'[s].chunk <= Len(Chunks[At(s)'])
        <4>1. Busy(s) /\ At(s)' = At(s) /\ thread'[s] = thread[s]
          BY <1>12, <2>1, <3>1 DEF At
        <4>2. At(s) \in Tasks /\ At(s) < next
          BY <1>1, <4>1 DEF Working
        <4>3. At(s) < next + 1
          BY <1>5, <4>2, SizesTyped
        <4>4. QED
          BY <1>1, <1>2, <4>1, <4>2, <4>3 DEF Working
      <3>2. ASSUME NEW s \in Threads, NEW u \in Threads, Busy(s)', Busy(u)', At(s)' = At(u)' PROVE s = u
        BY <1>1, <1>12, <2>1, <3>2 DEF Working, At
      <3>3. QED
        BY <3>1, <3>2 DEF Working
    <2>3. \A w \in Tasks : w < next
      BY <1>5, <1>13, SizesTyped
    <2>4. Taken'
      <3>1. ASSUME NEW s \in Threads, NEW u \in Threads, s < u, thread'[s].pc \in {"new", "refused"}
            PROVE  thread'[u].pc = "new"
        BY <1>1, <1>2, <1>6, <1>8, <3>1 DEF Taken
      <3>2. thread'[1].pc \notin {"new", "refused"} /\ next' > Len(Chunks)
        BY <1>2, <1>3, <1>5, <1>6, <1>8, <1>13, SizesTyped
      <3>3. ASSUME NEW w \in Tasks
            PROVE  Panicked' \/ fragment'[w] # -1 \/ \E s \in Threads : Busy(s)' /\ At(s)' = w
        BY <1>1, <1>2, <1>9, <1>12, <2>3 DEF Taken, At
      <3>4. \A w \in Tasks : w >= next' => fragment'[w] = -1
        BY <1>2, <1>5, <2>3, SizesTyped
      <3>5. QED
        BY <3>1, <3>2, <3>3, <3>4 DEF Taken
    <2>5. Account'
      <3>1. PICK used, kept : Balanced(used, kept)
        BY <1>1 DEF Account
      <3>2. \A w \in Tasks : w >= next' => w >= next
        BY <1>2, <1>5, SizesTyped
      <3>3. /\ \A s \in Threads : Busy(s)' <=> Busy(s)
            /\ \A s \in Threads : Busy(s) => thread'[s] = thread[s] /\ Holding(s)' = Holding(s) /\ At(s)' = At(s)
        BY <1>12, <2>1 DEF At
      <3>4. Balanced(used, kept)'
        BY <1>2, <3>1, <3>2, <3>3 DEF Balanced
      <3>5. QED
        BY <3>4 DEF Account
    <2>6. QED
      BY <1>10, <1>11, <2>2, <2>4, <2>5 DEF EvidenceInv
  <1>14. CASE ~(next > Len(Chunks))
    <2>1. /\ new = [pc |-> "reading", task |-> next, chunk |-> 1, saw |-> shared] /\ next \in Tasks
          /\ Busy(t)' /\ At(t)' = next /\ thread'[t].chunk = 1 /\ thread'[t].saw = shared /\ Holding(t)' = 0
      BY <1>4, <1>5, <1>8, <1>14, SizesTyped DEF Busy, At, Holding
    <2>2. PICK used, kept : Balanced(used, kept)
      BY <1>1 DEF Account
    <2>3. \A s \in Threads : Busy(s) => At(s) # next /\ At(s)' = At(s) /\ At(s) \in Nat
      BY <1>1, <1>5, <1>12, SizesTyped DEF Working, At
    <2>4. \A s \in Threads : Busy(s)' => s = t \/ Busy(s)
      BY <1>8 DEF Busy
    <2>5. fragment[next] = -1
      BY <1>1, <1>5, <2>1 DEF Taken
    <2>6. Working'
      <3>1. /\ At(t)' \in Tasks /\ At(t)' < next' /\ fragment'[At(t)'] = -1 /\ thread'[t].saw \in 1..2
            /\ thread'[t].chunk \in 1..(Len(Chunks[At(t)']) + 1) /\ thread'[t].pc # "holding"
        BY <1>2, <1>5, <1>8, <2>1, <2>5, SizesTyped
      <3>2. ASSUME NEW s \in Threads, Busy(s)
            PROVE  /\ At(s)' \in Tasks /\ At(s)' < next' /\ fragment'[At(s)'] = -1 /\ thread'[s].saw \in 1..2
                   /\ thread'[s].chunk \in 1..(Len(Chunks[At(s)']) + 1)
                   /\ thread'[s].pc = "holding" => thread'[s].chunk <= Len(Chunks[At(s)'])
        <4>1. At(s) < next + 1
          BY <1>1, <1>5, <2>3, <3>2 DEF Working
        <4>2. QED
          BY <1>1, <1>2, <1>12, <2>3, <3>2, <4>1 DEF Working
      <3>3. ASSUME NEW s \in Threads, NEW u \in Threads, Busy(s)', Busy(u)', At(s)' = At(u)' PROVE s = u
        BY <1>1, <2>1, <2>3, <2>4, <3>3 DEF Working
      <3>4. QED
        BY <2>4, <3>1, <3>2, <3>3 DEF Working
    <2>7. Taken'
      <3>1. ASSUME NEW s \in Threads, NEW u \in Threads, s < u, thread'[s].pc \in {"new", "refused"}
            PROVE  thread'[u].pc = "new"
        BY <1>1, <1>2, <1>6, <1>8, <3>1 DEF Taken
      <3>2. thread'[1].pc \notin {"new", "refused"}
        BY <1>3, <1>6, <1>8, SizesTyped
      <3>3. ASSUME NEW s \in Threads, thread'[s].pc = "ended" PROVE next' > Len(Chunks)
        BY <1>1, <1>2, <1>5, <1>6, <1>8, <1>14, <3>3 DEF Taken
      <3>4. ASSUME NEW w \in Tasks, w < next'
            PROVE  Panicked' \/ fragment'[w] # -1 \/ \E s \in Threads : Busy(s)' /\ At(s)' = w
        <4>1. w < next \/ w = next
          BY <1>2, <1>5, <3>4, SizesTyped
        <4>2. QED
          BY <1>1, <1>2, <1>9, <1>12, <2>1, <2>3, <4>1 DEF Taken
      <3>5. \A w \in Tasks : w >= next' => fragment'[w] = -1
        <4>1. \A w \in Tasks : w >= next' => w >= next
          BY <1>2, <1>5, SizesTyped
        <4>2. QED
          BY <1>1, <1>2, <4>1 DEF Taken
      <3>6. QED
        BY <3>1, <3>2, <3>3, <3>4, <3>5 DEF Taken
    <2>8. Account'
      <3>1. used[next] = 0 /\ kept[next] = 0 /\ used \in [Tasks -> Nat] /\ kept \in [Tasks -> Nat]
        <4>1. next >= next
          BY <1>5
        <4>2. QED
          BY <2>1, <2>2, <2>3, <4>1 DEF Balanced
      <3>2. \A w \in Tasks : w >= next' => w >= next
        BY <1>2, <1>5, SizesTyped
      <3>3. used[At(t)'] = Sum(Chunks[At(t)'], thread'[t].chunk - 1) + kept[At(t)'] /\ kept[At(t)'] = Holding(t)'
        <4>1. Sum(Chunks[next], 0) = 0
          BY <2>1, SizesTyped, SumStep
        <4>2. QED
          BY <2>1, <3>1, <4>1
      <3>4. ASSUME NEW s \in Threads, Busy(s)
            PROVE  /\ used[At(s)'] = Sum(Chunks[At(s)'], thread'[s].chunk - 1) + kept[At(s)']
                   /\ kept[At(s)'] = Holding(s)'
        BY <1>12, <2>2, <2>3, <3>4 DEF Balanced
      <3>5. ASSUME NEW w \in Tasks PROVE kept[w] = 0 \/ \E s \in Threads : Busy(s)' /\ At(s)' = w
        BY <1>12, <2>2, <2>3 DEF Balanced
      <3>6. Balanced(used, kept)'
        BY <1>2, <2>2, <2>4, <3>2, <3>3, <3>4, <3>5 DEF Balanced
      <3>7. QED
        BY <3>6 DEF Account
    <2>9. QED
      BY <1>10, <1>11, <2>6, <2>7, <2>8 DEF EvidenceInv
  <1>15. QED
    BY <1>13, <1>14

\* A thread leaves its worktree: with a fragment, with an error or in a panic.
LEMMA TaskLeft ==
    ASSUME EvidenceInv, NEW t \in Threads, Busy(t), NEW w \in Tasks, w = At(t),
           UNCHANGED <<budget, shared, seen, next, result>>,
           thread' \in [Threads -> ThreadRecords], thread'[t].pc \in {"free", "panicked"},
           \A s \in Threads : s # t => thread'[s] = thread[s],
           admission' \in [bytes : Int, reserved : Int, cancelled : BOOLEAN],
           admission'.bytes = admission.bytes, admission'.reserved = admission.reserved - Holding(t),
           admission'.cancelled = admission.cancelled,
           fragment' \in [Tasks -> -1..2], \A v \in Tasks : v # w => fragment'[v] = fragment[v],
           fragment'[w] = -1 => thread'[t].pc = "panicked",
           fragment'[w] = 0 => Panicked \/ Total > budget,
           fragment'[w] > 0 => thread[t].pc = "reading" /\ thread[t].chunk > Len(Chunks[w])
    PROVE  EvidenceInv'
  <1>1. EvidenceTypes /\ Working /\ Taken /\ Account /\ Refusals /\ CaptureConcluded
    BY DEF EvidenceInv
  <1>2. result = "none" /\ thread[1].pc \notin {"new", "refused"}
    <2>1. thread[t].pc \in {"free", "reading", "holding"} /\ thread[t].pc # "new"
      BY DEF Busy
    <2>2. QED
      BY <2>1, StillRunning
  <1>3. ASSUME NEW s \in Threads
        PROVE  Busy(s)' <=> Busy(s) /\ s # t
    BY DEF Busy
  <1>4. ASSUME NEW s \in Threads, Busy(s), s # t
        PROVE  thread'[s] = thread[s] /\ At(s)' = At(s) /\ Holding(s)' = Holding(s) /\ At(s) # w
    BY <1>1, <1>4 DEF At, Holding, Size, Working
  <1>5. Panicked => Panicked'
    <2>1. thread[t].pc # "panicked"
      BY DEF Busy
    <2>2. QED
      BY <2>1 DEF Panicked
  <1>6. thread'[t].pc = "panicked" => Panicked'
    BY DEF Panicked
  <1>7. /\ w < next /\ fragment[w] = -1 /\ thread[t].chunk \in 1..(Len(Chunks[w]) + 1)
        /\ thread[t].pc = "holding" => thread[t].chunk <= Len(Chunks[w])
    BY <1>1 DEF Working
  <1>8. EvidenceTypes'
    BY <1>1 DEF EvidenceTypes
  <1>9. Working'
    <2>1. ASSUME NEW s \in Threads, Busy(s)'
          PROVE  /\ At(s)' \in Tasks /\ At(s)' < next' /\ fragment'[At(s)'] = -1 /\ thread'[s].saw \in 1..2
                 /\ thread'[s].chunk \in 1..(Len(Chunks[At(s)']) + 1)
                 /\ thread'[s].pc = "holding" => thread'[s].chunk <= Len(Chunks[At(s)'])
      <3>1. Busy(s) /\ s # t
        BY <1>3, <2>1
      <3>2. thread'[s] = thread[s] /\ At(s)' = At(s) /\ At(s) # w
        BY <1>4, <3>1
      <3>3. At(s) \in Tasks
        BY <1>1, <3>1 DEF Working
      <3>4. QED
        BY <1>1, <3>1, <3>2, <3>3 DEF Working
    <2>2. ASSUME NEW s \in Threads, NEW u \in Threads, Busy(s)', Busy(u)', At(s)' = At(u)' PROVE s = u
      BY <1>1, <1>3, <1>4, <2>2 DEF Working
    <2>3. QED
      BY <2>1, <2>2 DEF Working
  <1>10. Taken'
    <2>1. ASSUME NEW s \in Threads, NEW u \in Threads, s < u, thread'[s].pc \in {"new", "refused"}
          PROVE  thread'[u].pc = "new"
      <3>1. s # t /\ thread[s].pc \in {"new", "refused"}
        BY <2>1
      <3>2. thread[u].pc = "new"
        BY <1>1, <2>1, <3>1 DEF Taken
      <3>3. u # t
        BY <3>2 DEF Busy
      <3>4. QED
        BY <3>2, <3>3
    <2>2. thread'[1].pc \notin {"new", "refused"}
      BY <1>2, SizesTyped
    <2>3. (\E s \in Threads : thread'[s].pc = "ended") => next' > Len(Chunks)
      BY <1>1 DEF Taken
    <2>4. ASSUME NEW v \in Tasks, v < next'
          PROVE  Panicked' \/ fragment'[v] # -1 \/ \E s \in Threads : Busy(s)' /\ At(s)' = v
      <3>1. CASE v = w
        BY <1>6, <3>1
      <3>2. CASE v # w
        <4>1. Panicked \/ fragment[v] # -1 \/ \E s \in Threads : Busy(s) /\ At(s) = v
          BY <1>1, <2>4 DEF Taken
        <4>2. ASSUME NEW s \in Threads, Busy(s), At(s) = v PROVE Busy(s)' /\ At(s)' = v
          BY <1>3, <1>4, <3>2, <4>2
        <4>3. QED
          BY <1>5, <3>2, <4>1, <4>2
      <3>3. QED
        BY <3>1, <3>2
    <2>5. ASSUME NEW v \in Tasks, v >= next' PROVE fragment'[v] = -1
      <3>1. v # w
        BY <1>1, <1>7, <2>5, SizesTyped DEF EvidenceTypes
      <3>2. QED
        BY <1>1, <2>5, <3>1 DEF Taken
    <2>6. QED
      BY <2>1, <2>2, <2>3, <2>4, <2>5 DEF Taken
  <1>11. Refusals'
    <2>1. Holding(t) \in Nat
      <3>1. CASE thread[t].pc = "holding"
        <4>1. thread[t].chunk \in 1..Len(Chunks[w])
          BY <1>7, <3>1, SizesTyped
        <4>2. QED
          BY <3>1, <4>1, ChunkSums DEF Holding, Size, At
      <3>2. CASE thread[t].pc # "holding"
        BY <3>2 DEF Holding
      <3>3. QED
        BY <3>1, <3>2
    <2>2. admission'.bytes + admission'.reserved <= budget
      BY <1>1, <2>1 DEF Refusals, EvidenceTypes
    <2>3. QED
      BY <1>1, <1>5, <2>2 DEF Refusals
  <1>12. Account'
    <2>1. PICK used, kept : Balanced(used, kept)
      BY <1>1 DEF Account
    <2>2. /\ used \in [Tasks -> Nat] /\ kept \in [Tasks -> Nat]
          /\ used[w] = Sum(Chunks[w], thread[t].chunk - 1) + kept[w] /\ kept[w] = Holding(t)
          /\ used[w] \in Nat /\ kept[w] \in Nat
      BY <2>1 DEF Balanced
    <2>3. Sum(Chunks[w], thread[t].chunk - 1) \in Nat
      <3>1. PICK m \in Nat : m = Len(Chunks[w])
        BY SizesTyped
      <3>2. PICK c \in 0..m : c = thread[t].chunk - 1
        BY <1>7, <3>1
      <3>3. PICK f \in [1..m -> Nat] : f = Chunks[w]
        BY <3>1, SizesTyped
      <3>4. QED
        BY <3>2, <3>3, SumTyped
    <2>4. PICK read \in Nat : read = Sum(Chunks[w], thread[t].chunk - 1)
      BY <2>3
    <2>5. PICK spent : spent = [used EXCEPT ![w] = read]
      OBVIOUS
    <2>6. PICK left : left = [kept EXCEPT ![w] = 0]
      OBVIOUS
    <2>7. /\ spent \in [Tasks -> Nat] /\ spent[w] = read /\ \A v \in Tasks : v # w => spent[v] = used[v]
          /\ left \in [Tasks -> Nat] /\ left[w] = 0 /\ \A v \in Tasks : v # w => left[v] = kept[v]
      BY <2>2, <2>5, <2>6
    <2>8. /\ Sum(spent, Len(Chunks)) = Sum(used, Len(Chunks)) - Holding(t)
          /\ Sum(left, Len(Chunks)) = Sum(kept, Len(Chunks)) - Holding(t)
      <3>1. /\ Sum(used, Len(Chunks)) \in Nat /\ Sum(spent, Len(Chunks)) = Sum(used, Len(Chunks)) - used[w] + read
        <4>1. Rewritten(spent, used, w, read)
          BY <2>2, <2>5 DEF Rewritten
        <4>2. Recounted(spent, used, w, read)
          BY <4>1, AccountChanges
        <4>3. QED
          BY <4>2 DEF Recounted
      <3>2. /\ Sum(kept, Len(Chunks)) \in Nat /\ Sum(left, Len(Chunks)) = Sum(kept, Len(Chunks)) - kept[w] + 0
        <4>1. Rewritten(left, kept, w, 0)
          BY <2>2, <2>6 DEF Rewritten
        <4>2. Recounted(left, kept, w, 0)
          BY <4>1, AccountChanges
        <4>3. QED
          BY <4>2 DEF Recounted
      <3>3. PICK h \in Nat : h = kept[w]
        BY <2>2
      <3>4. Holding(t) = h /\ used[w] = read + h
        BY <2>2, <2>4, <3>3
      <3>5. PICK a \in Nat, b \in Nat : a = Sum(used, Len(Chunks)) /\ b = Sum(kept, Len(Chunks))
        BY <3>1, <3>2
      <3>6. Sum(spent, Len(Chunks)) = a - h
        BY <3>1, <3>4, <3>5
      <3>7. Sum(left, Len(Chunks)) = b - h
        BY <3>2, <3>3, <3>5
      <3>8. QED
        BY <3>4, <3>5, <3>6, <3>7
    <2>9. \A v \in Tasks : spent[v] <= SizeOf(v)
      <3>1. spent[w] <= used[w]
        BY <2>2, <2>4, <2>7
      <3>2. used[w] <= SizeOf(w) /\ SizeOf(w) \in Nat
        BY <2>1, SizesTyped DEF Balanced
      <3>3. spent[w] <= SizeOf(w)
        BY <2>2, <2>7, <3>1, <3>2
      <3>4. QED
        BY <2>1, <2>7, <3>3 DEF Balanced
    <2>10. fragment'[w] > 0 => spent[w] = SizeOf(w)
      <3>1. SUFFICES ASSUME fragment'[w] > 0 PROVE spent[w] = SizeOf(w)
        OBVIOUS
      <3>2. PICK m \in Nat : m = Len(Chunks[w])
        BY SizesTyped
      <3>3. thread[t].chunk - 1 = m
        BY <1>7, <3>1, <3>2
      <3>4. QED
        BY <2>4, <2>7, <3>2, <3>3 DEF SizeOf
    <2>11. \A v \in Tasks : fragment'[v] > 0 => spent[v] = SizeOf(v)
      BY <2>1, <2>7, <2>10 DEF Balanced
    <2>12. \A v \in Tasks : v >= next' => spent[v] = 0
      <3>1. ~(w >= next)
        BY <1>1, <1>7, SizesTyped DEF EvidenceTypes
      <3>2. QED
        BY <2>1, <2>7, <3>1 DEF Balanced
    <2>13. ASSUME NEW v \in Tasks PROVE left[v] = 0 \/ \E s \in Threads : Busy(s)' /\ At(s)' = v
      <3>1. CASE v = w
        BY <2>7, <3>1
      <3>2. CASE v # w
        <4>1. kept[v] = 0 \/ \E s \in Threads : Busy(s) /\ At(s) = v
          BY <2>1 DEF Balanced
        <4>2. ASSUME NEW s \in Threads, Busy(s), At(s) = v PROVE Busy(s)' /\ At(s)' = v
          BY <1>3, <1>4, <3>2, <4>2
        <4>3. QED
          BY <2>7, <3>2, <4>1, <4>2
      <3>3. QED
        BY <3>1, <3>2
    <2>14. ASSUME NEW s \in Threads, Busy(s)'
           PROVE  /\ spent[At(s)'] = Sum(Chunks[At(s)'], thread'[s].chunk - 1) + left[At(s)']
                  /\ left[At(s)'] = Holding(s)'
      <3>1. Busy(s) /\ s # t
        BY <1>3, <2>14
      <3>2. thread'[s] = thread[s] /\ At(s)' = At(s) /\ Holding(s)' = Holding(s) /\ At(s) # w
        BY <1>4, <3>1
      <3>3. At(s) \in Tasks
        BY <1>1, <3>1 DEF Working
      <3>4. used[At(s)] = Sum(Chunks[At(s)], thread[s].chunk - 1) + kept[At(s)] /\ kept[At(s)] = Holding(s)
        BY <2>1, <3>1 DEF Balanced
      <3>5. QED
        BY <2>7, <3>2, <3>3, <3>4
    <2>15. /\ admission'.bytes + admission'.reserved = Sum(spent, Len(Chunks))
           /\ admission'.reserved = Sum(left, Len(Chunks))
      <3>1. /\ admission.bytes + admission.reserved = Sum(used, Len(Chunks))
            /\ admission.reserved = Sum(kept, Len(Chunks))
        BY <2>1 DEF Balanced
      <3>2. admission.bytes \in Int /\ admission.reserved \in Int /\ Holding(t) \in Nat
        BY <1>1, <2>2 DEF EvidenceTypes
      <3>3. QED
        BY <2>8, <3>1, <3>2
    <2>16. Balanced(spent, left)'
      BY <2>7, <2>9, <2>11, <2>12, <2>13, <2>14, <2>15 DEF Balanced
    <2>17. QED
      BY <2>16 DEF Account
  <1>13. CaptureConcluded'
    BY <1>2 DEF CaptureConcluded
  <1>14. QED
    BY <1>8, <1>9, <1>10, <1>11, <1>12, <1>13 DEF EvidenceInv

\* A thread goes on with its worktree.
LEMMA TaskGoesOn ==
    ASSUME EvidenceInv, NEW t \in Threads, Busy(t), NEW w \in Tasks, w = At(t),
           UNCHANGED <<budget, shared, seen, next, fragment, result>>,
           thread' \in [Threads -> ThreadRecords], Busy(t)', thread'[t].task = w,
           thread'[t].saw = thread[t].saw, thread'[t].chunk \in 1..(Len(Chunks[w]) + 1),
           thread'[t].pc = "holding" => thread'[t].chunk <= Len(Chunks[w]),
           \A s \in Threads : s # t => thread'[s] = thread[s],
           admission' \in [bytes : Int, reserved : Int, cancelled : BOOLEAN],
           admission'.cancelled = admission.cancelled, admission'.bytes + admission'.reserved <= budget,
           NEW old \in Nat, old = Sum(Chunks[w], thread[t].chunk - 1) + Holding(t),
           NEW more \in Nat, more = Sum(Chunks[w], thread'[t].chunk - 1) + Holding(t)', more <= SizeOf(w),
           Holding(t) \in Nat, Holding(t)' \in Nat,
           admission'.bytes + admission'.reserved = admission.bytes + admission.reserved - old + more,
           admission'.reserved = admission.reserved - Holding(t) + Holding(t)'
    PROVE  EvidenceInv'
  <1>1. EvidenceTypes /\ Working /\ Taken /\ Account /\ Refusals /\ CaptureConcluded
    BY DEF EvidenceInv
  <1>2. result = "none" /\ thread[1].pc \notin {"new", "refused"}
    <2>1. thread[t].pc \in {"free", "reading", "holding"} /\ thread[t].pc # "new"
      BY DEF Busy
    <2>2. QED
      BY <2>1, StillRunning
  <1>3. ASSUME NEW s \in Threads
        PROVE  (Busy(s)' <=> Busy(s)) /\ (Busy(s) => At(s)' = At(s) /\ thread'[s].saw = thread[s].saw)
    BY DEF Busy, At
  <1>4. ASSUME NEW s \in Threads, Busy(s), s # t
        PROVE  thread'[s] = thread[s] /\ Holding(s)' = Holding(s) /\ At(s) # w
    BY <1>1, <1>4 DEF At, Holding, Size, Working
  <1>5. Panicked <=> Panicked'
    BY DEF Panicked, Busy
  <1>6. EvidenceTypes'
    BY <1>1 DEF EvidenceTypes
  <1>7. Working'
    <2>1. ASSUME NEW s \in Threads, Busy(s)'
          PROVE  /\ At(s)' \in Tasks /\ At(s)' < next' /\ fragment'[At(s)'] = -1 /\ thread'[s].saw \in 1..2
                 /\ thread'[s].chunk \in 1..(Len(Chunks[At(s)']) + 1)
                 /\ thread'[s].pc = "holding" => thread'[s].chunk <= Len(Chunks[At(s)'])
      <3>1. Busy(s) /\ At(s)' = At(s) /\ thread'[s].saw = thread[s].saw
        BY <1>3, <2>1
      <3>2. At(s) \in Tasks /\ At(s) < next /\ fragment[At(s)] = -1 /\ thread[s].saw \in 1..2
        BY <1>1, <3>1 DEF Working
      <3>3. CASE s = t
        BY <3>1, <3>2, <3>3
      <3>4. CASE s # t
        BY <1>1, <1>4, <3>1, <3>2, <3>4 DEF Working
      <3>5. QED
        BY <3>3, <3>4
    <2>2. ASSUME NEW s \in Threads, NEW u \in Threads, Busy(s)', Busy(u)', At(s)' = At(u)' PROVE s = u
      BY <1>1, <1>3, <2>2 DEF Working
    <2>3. QED
      BY <2>1, <2>2 DEF Working
  <1>8. Taken'
    <2>1. ASSUME NEW s \in Threads, NEW u \in Threads, s < u, thread'[s].pc \in {"new", "refused"}
          PROVE  thread'[u].pc = "new"
      <3>1. s # t /\ thread[s].pc \in {"new", "refused"}
        BY <2>1 DEF Busy
      <3>2. thread[u].pc = "new"
        BY <1>1, <2>1, <3>1 DEF Taken
      <3>3. u # t
        BY <3>2 DEF Busy
      <3>4. QED
        BY <3>2, <3>3
    <2>2. thread'[1].pc \notin {"new", "refused"}
      BY <1>2, SizesTyped DEF Busy
    <2>3. (\E s \in Threads : thread'[s].pc = "ended") => next' > Len(Chunks)
      BY <1>1 DEF Taken, Busy
    <2>4. ASSUME NEW v \in Tasks, v < next'
          PROVE  Panicked' \/ fragment'[v] # -1 \/ \E s \in Threads : Busy(s)' /\ At(s)' = v
      BY <1>1, <1>3, <1>5, <2>4 DEF Taken
    <2>5. \A v \in Tasks : v >= next' => fragment'[v] = -1
      BY <1>1 DEF Taken
    <2>6. QED
      BY <2>1, <2>2, <2>3, <2>4, <2>5 DEF Taken
  <1>9. Refusals'
    BY <1>1, <1>5 DEF Refusals
  <1>10. Account'
    <2>1. PICK used, kept : Balanced(used, kept)
      BY <1>1 DEF Account
    <2>2. /\ used \in [Tasks -> Nat] /\ kept \in [Tasks -> Nat]
          /\ used[w] = old /\ kept[w] = Holding(t)
      BY <2>1 DEF Balanced
    <2>3. PICK held \in Nat : held = Holding(t)'
      OBVIOUS
    <2>4. PICK spent : spent = [used EXCEPT ![w] = more]
      OBVIOUS
    <2>5. PICK left : left = [kept EXCEPT ![w] = held]
      OBVIOUS
    <2>6. /\ spent \in [Tasks -> Nat] /\ spent[w] = more /\ \A v \in Tasks : v # w => spent[v] = used[v]
          /\ left \in [Tasks -> Nat] /\ left[w] = held /\ \A v \in Tasks : v # w => left[v] = kept[v]
      BY <2>2, <2>4, <2>5
    <2>7. /\ Sum(used, Len(Chunks)) \in Nat /\ Sum(spent, Len(Chunks)) = Sum(used, Len(Chunks)) - old + more
      <3>1. /\ Sum(used, Len(Chunks)) \in Nat
            /\ Sum(spent, Len(Chunks)) = Sum(used, Len(Chunks)) - used[w] + more
        <4>1. Rewritten(spent, used, w, more)
          BY <2>2, <2>4 DEF Rewritten
        <4>2. Recounted(spent, used, w, more)
          BY <4>1, AccountChanges
        <4>3. QED
          BY <4>2 DEF Recounted
      <3>2. QED
        BY <2>2, <3>1, Zenon
    <2>8. /\ Sum(kept, Len(Chunks)) \in Nat /\ Sum(left, Len(Chunks)) = Sum(kept, Len(Chunks)) - Holding(t) + held
      <3>1. /\ Sum(kept, Len(Chunks)) \in Nat
            /\ Sum(left, Len(Chunks)) = Sum(kept, Len(Chunks)) - kept[w] + held
        <4>1. Rewritten(left, kept, w, held)
          BY <2>2, <2>5 DEF Rewritten
        <4>2. Recounted(left, kept, w, held)
          BY <4>1, AccountChanges
        <4>3. QED
          BY <4>2 DEF Recounted
      <3>2. QED
        BY <2>2, <3>1, Zenon
    <2>9. \A v \in Tasks : spent[v] <= SizeOf(v)
      BY <2>1, <2>6 DEF Balanced
    <2>10. /\ fragment[w] = -1 /\ ~(w >= next)
      <3>1. fragment[w] = -1 /\ w < next
        BY <1>1 DEF Working
      <3>2. w \in Nat /\ next \in Nat
        BY <1>1, SizesTyped DEF EvidenceTypes
      <3>3. QED
        BY <3>1, <3>2
    <2>11. \A v \in Tasks : fragment'[v] > 0 => spent[v] = SizeOf(v)
      BY <2>1, <2>6, <2>10 DEF Balanced
    <2>12. \A v \in Tasks : v >= next' => spent[v] = 0
      BY <2>1, <2>6, <2>10 DEF Balanced
    <2>13. ASSUME NEW v \in Tasks PROVE left[v] = 0 \/ \E s \in Threads : Busy(s)' /\ At(s)' = v
      <3>1. CASE v = w
        BY <1>3, <3>1
      <3>2. CASE v # w
        <4>1. kept[v] = 0 \/ \E s \in Threads : Busy(s) /\ At(s) = v
          BY <2>1 DEF Balanced
        <4>2. QED
          BY <1>3, <2>6, <3>2, <4>1
      <3>3. QED
        BY <3>1, <3>2
    <2>14. ASSUME NEW s \in Threads, Busy(s)'
           PROVE  /\ spent[At(s)'] = Sum(Chunks[At(s)'], thread'[s].chunk - 1) + left[At(s)']
                  /\ left[At(s)'] = Holding(s)'
      <3>1. Busy(s) /\ At(s)' = At(s)
        BY <1>3, <2>14
      <3>2. CASE s = t
        BY <2>3, <2>6, <3>1, <3>2
      <3>3. CASE s # t
        <4>1. thread'[s] = thread[s] /\ Holding(s)' = Holding(s) /\ At(s) # w
          BY <1>4, <3>1, <3>3
        <4>2. At(s) \in Tasks
          BY <1>1, <3>1 DEF Working
        <4>3. used[At(s)] = Sum(Chunks[At(s)], thread[s].chunk - 1) + kept[At(s)] /\ kept[At(s)] = Holding(s)
          BY <2>1, <3>1 DEF Balanced
        <4>4. QED
          BY <2>6, <3>1, <4>1, <4>2, <4>3
      <3>4. QED
        BY <3>2, <3>3
    <2>15. /\ admission'.bytes + admission'.reserved = Sum(spent, Len(Chunks))
           /\ admission'.reserved = Sum(left, Len(Chunks))
      <3>1. /\ admission.bytes + admission.reserved = Sum(used, Len(Chunks))
            /\ admission.reserved = Sum(kept, Len(Chunks))
        BY <2>1 DEF Balanced
      <3>2. PICK a \in Nat, b \in Int : a = Sum(used, Len(Chunks)) /\ b = Sum(kept, Len(Chunks))
        BY <2>7, <2>8
      <3>3. Sum(spent, Len(Chunks)) = a - old + more /\ Sum(left, Len(Chunks)) = b - Holding(t) + held
        BY <2>7, <2>8, <3>2
      <3>4. admission.bytes + admission.reserved = a /\ admission.reserved = b
        BY <3>1, <3>2
      <3>5. admission'.bytes + admission'.reserved = a - old + more
        <4>1. PICK sum \in Nat : sum = admission.bytes + admission.reserved
          BY <3>4
        <4>2. admission'.bytes + admission'.reserved = sum - old + more
          <5>1. PICK x \in Int, y \in Int : x = admission.bytes /\ y = admission.reserved
            BY <1>1 DEF EvidenceTypes
          <5>2. PICK p \in Int, q \in Int : p = admission'.bytes /\ q = admission'.reserved
            OBVIOUS
          <5>3. sum = x + y /\ p + q = x + y - old + more
            BY <4>1, <5>1, <5>2
          <5>4. QED
            BY <5>2, <5>3
        <4>3. QED
          BY <3>4, <4>1, <4>2
      <3>6. admission'.reserved = b - Holding(t) + held
        BY <2>3, <3>4
      <3>7. QED
        BY <3>3, <3>5, <3>6
    <2>16. Balanced(spent, left)'
      BY <2>6, <2>9, <2>11, <2>12, <2>13, <2>14, <2>15 DEF Balanced
    <2>17. QED
      BY <2>16 DEF Account
  <1>11. CaptureConcluded'
    BY <1>2 DEF CaptureConcluded
  <1>12. QED
    BY <1>6, <1>7, <1>8, <1>9, <1>10, <1>11 DEF EvidenceInv

\* A thread's place, as the moves change it.
LEMMA MoveIs ==
    ASSUME EvidenceInv, NEW t \in Threads, NEW pc \in {"free", "reading", "holding", "panicked"}, Move(t, pc)
    PROVE  /\ thread' \in [Threads -> ThreadRecords] /\ thread'[t].pc = pc /\ thread'[t].task = thread[t].task
           /\ thread'[t].chunk = thread[t].chunk /\ thread'[t].saw = thread[t].saw
           /\ \A s \in Threads : s # t => thread'[s] = thread[s]
  <1>1. thread \in [Threads -> ThreadRecords] /\ thread' = [thread EXCEPT ![t].pc = pc]
    BY DEF EvidenceInv, EvidenceTypes, Move
  <1>2. PICK c \in ThreadRecords : c = thread[t]
    BY <1>1
  <1>3. PICK d : d = [c EXCEPT !.pc = pc]
    OBVIOUS
  <1>4. d \in ThreadRecords /\ d.pc = pc /\ d.task = c.task /\ d.chunk = c.chunk /\ d.saw = c.saw
    BY <1>3 DEF ThreadRecords
  <1>5. thread' = [thread EXCEPT ![t] = d]
    BY <1>1, <1>2, <1>3
  <1>6. QED
    BY <1>1, <1>2, <1>4, <1>5

LEMMA BusyFacts ==
    ASSUME EvidenceInv, NEW t \in Threads, Busy(t)
    PROVE  /\ At(t) \in Tasks /\ fragment[At(t)] = -1 /\ thread[t].saw \in 1..2
           /\ thread[t].chunk \in 1..(Len(Chunks[At(t)]) + 1) /\ Len(Chunks[At(t)]) \in Nat
           /\ thread[t].pc = "holding" => thread[t].chunk \in 1..Len(Chunks[At(t)])
           /\ Holding(t) \in Nat
  <1>1. /\ At(t) \in Tasks /\ fragment[At(t)] = -1 /\ thread[t].saw \in 1..2
        /\ thread[t].chunk \in 1..(Len(Chunks[At(t)]) + 1) /\ Len(Chunks[At(t)]) \in Nat
        /\ thread[t].pc = "holding" => thread[t].chunk <= Len(Chunks[At(t)])
    BY SizesTyped DEF EvidenceInv, Working
  <1>2. thread[t].pc = "holding" => thread[t].chunk \in 1..Len(Chunks[At(t)])
    BY <1>1
  <1>3. Holding(t) \in Nat
    <2>1. CASE thread[t].pc = "holding"
      <3>1. Chunks[At(t)][thread[t].chunk] \in Nat
        BY <1>1, <1>2, <2>1, ChunkSums
      <3>2. QED
        BY <2>1, <3>1 DEF Holding, Size, At
    <2>2. CASE thread[t].pc # "holding"
      BY <2>2 DEF Holding
    <2>3. QED
      BY <2>1, <2>2
  <1>4. QED
    BY <1>1, <1>2, <1>3

\* A chunk that finds no room would find none after the others either.
LEMMA RefusedIsTooMuch ==
    ASSUME EvidenceInv, NEW t \in Threads, thread[t].pc = "reading", thread[t].chunk <= Len(Chunks[thread[t].task])
    PROVE  admission.bytes + admission.reserved + Size(t) <= Total
  <1>1. PICK used, kept : Balanced(used, kept)
    BY DEF EvidenceInv, Account
  <1>2. Busy(t)
    BY DEF Busy
  <1>3. PICK w \in Tasks : w = At(t)
    BY <1>2, BusyFacts
  <1>4. thread[t].chunk \in 1..Len(Chunks[w])
    BY <1>2, <1>3, BusyFacts DEF At
  <1>5. PICK c \in 1..Len(Chunks[w]) : c = thread[t].chunk
    BY <1>4
  <1>6. /\ Chunks[w][c] \in Nat /\ Sum(Chunks[w], c - 1) \in Nat
        /\ Sum(Chunks[w], c) = Sum(Chunks[w], c - 1) + Chunks[w][c] /\ Sum(Chunks[w], c) <= SizeOf(w)
    BY ChunkSums
  <1>7. used[w] = Sum(Chunks[w], c - 1) /\ used \in [Tasks -> Nat] /\ Size(t) = Chunks[w][c]
    <2>1. used[w] = Sum(Chunks[w], c - 1) + kept[w] /\ kept[w] = Holding(t) /\ Holding(t) = 0
      BY <1>1, <1>2, <1>3, <1>5 DEF Balanced, Holding
    <2>2. QED
      BY <1>1, <1>3, <1>5, <1>6, <2>1 DEF Balanced, Size, At
  <1>8. PICK more \in Nat : more = Sum(Chunks[w], c)
    BY <1>6
  <1>9. PICK spent : spent = [used EXCEPT ![w] = more]
    OBVIOUS
  <1>10. spent \in [Tasks -> Nat] /\ spent[w] = more /\ \A v \in Tasks : v # w => spent[v] = used[v]
    BY <1>7, <1>9
  <1>11. Sum(used, Len(Chunks)) \in Nat /\ Sum(spent, Len(Chunks)) = Sum(used, Len(Chunks)) - used[w] + more
    <2>1. Rewritten(spent, used, w, more)
      BY <1>7, <1>9 DEF Rewritten
    <2>2. Recounted(spent, used, w, more)
      BY <2>1, AccountChanges
    <2>3. QED
      BY <2>2 DEF Recounted
  <1>12. \A v \in Tasks : spent[v] <= SizeOf(v)
    BY <1>1, <1>6, <1>8, <1>10 DEF Balanced
  <1>13. Sum(spent, Len(Chunks)) <= Total
    BY <1>10, <1>12, UsedFits
  <1>14. admission.bytes + admission.reserved = Sum(used, Len(Chunks))
    BY <1>1 DEF Balanced
  <1>15. PICK low \in Nat, size \in Nat : low = Sum(Chunks[w], c - 1) /\ size = Chunks[w][c]
    BY <1>6
  <1>16. used[w] = low /\ Size(t) = size /\ more = low + size
    BY <1>6, <1>7, <1>8, <1>15
  <1>17. PICK all \in Nat : all = Sum(used, Len(Chunks))
    BY <1>11
  <1>18. all - low + more <= Total
    BY <1>11, <1>13, <1>16, <1>17
  <1>19. all + size <= Total
    BY <1>16, <1>18, SizesTyped
  <1>20. QED
    BY <1>14, <1>16, <1>17, <1>19

LEMMA ReserveKeeps ==
    ASSUME EvidenceInv, NEW t \in Threads, Reserve(t)
    PROVE  EvidenceInv'
  <1>1. EvidenceTypes /\ Refusals
    BY DEF EvidenceInv
  <1>2. /\ thread[t].pc = "reading" /\ thread[t].chunk <= Len(Chunks[thread[t].task])
        /\ UNCHANGED <<budget, shared, seen, next, result>>
    BY DEF Reserve
  <1>3. Busy(t) /\ Holding(t) = 0
    BY <1>2 DEF Busy, Holding
  <1>4. PICK w \in Tasks : w = At(t)
    BY <1>3, BusyFacts
  <1>5. fragment[w] = -1 /\ thread[t].chunk \in 1..Len(Chunks[w])
    BY <1>2, <1>3, <1>4, BusyFacts DEF At
  <1>6. PICK c \in 1..Len(Chunks[w]) : c = thread[t].chunk
    BY <1>5
  <1>7. /\ Chunks[w][c] \in Nat /\ Sum(Chunks[w], c - 1) \in Nat
        /\ Sum(Chunks[w], c) = Sum(Chunks[w], c - 1) + Chunks[w][c] /\ Sum(Chunks[w], c) <= SizeOf(w)
    BY ChunkSums
  <1>8. PICK size \in Nat : size = Chunks[w][c]
    BY <1>7
  <1>9. Size(t) = size
    BY <1>4, <1>6, <1>8 DEF Size, At
  <1>10. PICK entry \in [bytes : Int, reserved : Int, cancelled : BOOLEAN] : entry = admission
    BY <1>1 DEF EvidenceTypes
  <1>11. CASE Admissible(t)
    <2>1. admission' = [admission EXCEPT !.reserved = @ + Size(t)] /\ Move(t, "holding") /\ fragment' = fragment
      BY <1>11 DEF Reserve
    <2>2. /\ admission' \in [bytes : Int, reserved : Int, cancelled : BOOLEAN]
          /\ admission'.bytes = admission.bytes /\ admission'.reserved = admission.reserved + size
          /\ admission'.cancelled = admission.cancelled
      BY <1>9, <1>10, <2>1
    <2>3. /\ thread' \in [Threads -> ThreadRecords] /\ thread'[t].pc = "holding" /\ thread'[t].task = thread[t].task
          /\ thread'[t].chunk = thread[t].chunk /\ thread'[t].saw = thread[t].saw
          /\ \A s \in Threads : s # t => thread'[s] = thread[s]
      BY <2>1, MoveIs
    <2>4. Holding(t)' = size
      BY <1>4, <1>6, <1>8, <2>3 DEF Holding, Size, At
    <2>5. PICK old \in Nat : old = Sum(Chunks[w], thread[t].chunk - 1) + Holding(t)
      BY <1>3, <1>6, <1>7
    <2>6. PICK more \in Nat : more = Sum(Chunks[w], thread'[t].chunk - 1) + Holding(t)'
      BY <1>6, <1>7, <1>8, <2>3, <2>4
    <2>7. more = old + size /\ more <= SizeOf(w)
      BY <1>3, <1>6, <1>7, <1>8, <2>3, <2>4, <2>5, <2>6, SizesTyped
    <2>8. Busy(t)' /\ thread'[t].task = w
      BY <1>4, <2>3 DEF Busy, At
    <2>9. admission'.bytes + admission'.reserved <= budget
      BY <1>9, <1>10, <1>11, <2>2, <1>1 DEF Admissible, EvidenceTypes
    <2>10. /\ admission'.bytes + admission'.reserved = admission.bytes + admission.reserved - old + more
           /\ admission'.reserved = admission.reserved - Holding(t) + Holding(t)'
      BY <1>3, <1>10, <2>2, <2>4, <2>7
    <2>11. thread'[t].chunk \in 1..(Len(Chunks[w]) + 1) /\ thread'[t].chunk <= Len(Chunks[w])
      BY <1>6, <2>3, SizesTyped
    <2>12. Holding(t) \in Nat /\ Holding(t)' \in Nat
      BY <1>3, <2>4
    <2>13. QED
      BY <1>2, <1>3, <1>4, <2>1, <2>2, <2>3, <2>5, <2>6, <2>7, <2>8, <2>9, <2>10, <2>11, <2>12, TaskGoesOn
  <1>12. CASE ~Admissible(t)
    <2>1. /\ fragment' = [fragment EXCEPT ![thread[t].task] = 0] /\ Move(t, "free")
          /\ admission' = admission
      BY <1>12 DEF Reserve
    <2>2. fragment' \in [Tasks -> -1..2] /\ fragment'[w] = 0 /\ \A v \in Tasks : v # w => fragment'[v] = fragment[v]
      BY <1>1, <1>4, <2>1 DEF EvidenceTypes, At
    <2>3. /\ thread' \in [Threads -> ThreadRecords] /\ thread'[t].pc = "free"
          /\ \A s \in Threads : s # t => thread'[s] = thread[s]
      BY <2>1, MoveIs
    <2>4. Panicked \/ Total > budget
      <3>1. CASE admission.cancelled
        BY <1>1, <3>1 DEF Refusals
      <3>2. CASE ~admission.cancelled
        <4>1. ~(admission.bytes + admission.reserved + Size(t) <= budget)
          BY <1>12, <3>2 DEF Admissible
        <4>2. admission.bytes + admission.reserved + Size(t) <= Total
          BY <1>2, RefusedIsTooMuch
        <4>3. QED
          BY <1>1, <1>9, <1>10, <4>1, <4>2, SizesTyped DEF EvidenceTypes
      <3>3. QED
        BY <3>1, <3>2
    <2>5. /\ admission' \in [bytes : Int, reserved : Int, cancelled : BOOLEAN]
          /\ admission'.bytes = admission.bytes /\ admission'.reserved = admission.reserved - Holding(t)
          /\ admission'.cancelled = admission.cancelled
      BY <1>3, <1>10, <2>1
    <2>6. (fragment'[w] = -1 => thread'[t].pc = "panicked") /\ (fragment'[w] = 0 => Panicked \/ Total > budget)
      BY <2>2, <2>4
    <2>7. fragment'[w] > 0 => thread[t].pc = "reading" /\ thread[t].chunk > Len(Chunks[w])
      BY <2>2
    <2>8. QED
      BY <1>2, <1>3, <1>4, <2>2, <2>3, <2>5, <2>6, <2>7, TaskLeft
  <1>13. QED
    BY <1>11, <1>12

LEMMA CommitKeeps ==
    ASSUME EvidenceInv, NEW t \in Threads, Commit(t)
    PROVE  EvidenceInv'
  <1>1. EvidenceTypes /\ Refusals
    BY DEF EvidenceInv
  <1>2. thread[t].pc = "holding" /\ UNCHANGED <<budget, shared, seen, next, result>>
    BY DEF Commit
  <1>3. Busy(t)
    BY <1>2 DEF Busy
  <1>4. PICK w \in Tasks : w = At(t)
    BY <1>3, BusyFacts
  <1>5. fragment[w] = -1 /\ thread[t].chunk \in 1..Len(Chunks[w])
    BY <1>2, <1>3, <1>4, BusyFacts
  <1>6. PICK c \in 1..Len(Chunks[w]) : c = thread[t].chunk
    BY <1>5
  <1>7. /\ Chunks[w][c] \in Nat /\ Sum(Chunks[w], c - 1) \in Nat
        /\ Sum(Chunks[w], c) = Sum(Chunks[w], c - 1) + Chunks[w][c] /\ Sum(Chunks[w], c) <= SizeOf(w)
    BY ChunkSums
  <1>8. PICK size \in Nat : size = Chunks[w][c]
    BY <1>7
  <1>9. Size(t) = size /\ Holding(t) = size
    BY <1>2, <1>4, <1>6, <1>8 DEF Size, At, Holding
  <1>10. PICK entry \in [bytes : Int, reserved : Int, cancelled : BOOLEAN] : entry = admission
    BY <1>1 DEF EvidenceTypes
  <1>11. CASE admission.cancelled
    <2>1. /\ admission' = [admission EXCEPT !.reserved = @ - Size(t)]
          /\ fragment' = [fragment EXCEPT ![thread[t].task] = 0] /\ Move(t, "free")
      BY <1>11 DEF Commit
    <2>2. fragment' \in [Tasks -> -1..2] /\ fragment'[w] = 0 /\ \A v \in Tasks : v # w => fragment'[v] = fragment[v]
      BY <1>1, <1>4, <2>1 DEF EvidenceTypes, At
    <2>3. /\ thread' \in [Threads -> ThreadRecords] /\ thread'[t].pc = "free"
          /\ \A s \in Threads : s # t => thread'[s] = thread[s]
      BY <2>1, MoveIs
    <2>4. Panicked
      BY <1>1, <1>11 DEF Refusals
    <2>5. /\ admission' \in [bytes : Int, reserved : Int, cancelled : BOOLEAN]
          /\ admission'.bytes = admission.bytes /\ admission'.reserved = admission.reserved - Holding(t)
          /\ admission'.cancelled = admission.cancelled
      BY <1>9, <1>10, <2>1
    <2>6. (fragment'[w] = -1 => thread'[t].pc = "panicked") /\ (fragment'[w] = 0 => Panicked \/ Total > budget)
      BY <2>2, <2>4
    <2>7. fragment'[w] > 0 => thread[t].pc = "reading" /\ thread[t].chunk > Len(Chunks[w])
      BY <2>2
    <2>8. QED
      BY <1>2, <1>3, <1>4, <2>2, <2>3, <2>5, <2>6, <2>7, TaskLeft
  <1>12. CASE ~admission.cancelled
    <2>1. /\ admission' = [admission EXCEPT !.reserved = @ - Size(t), !.bytes = @ + Size(t)]
          /\ thread' = [thread EXCEPT ![t].pc = "reading", ![t].chunk = @ + 1]
          /\ fragment' = fragment
      BY <1>12 DEF Commit
    <2>2. /\ admission' \in [bytes : Int, reserved : Int, cancelled : BOOLEAN]
          /\ admission'.bytes = admission.bytes + size /\ admission'.reserved = admission.reserved - size
          /\ admission'.cancelled = admission.cancelled
      <3>1. admission' = [entry EXCEPT !.reserved = entry.reserved - size, !.bytes = entry.bytes + size]
        BY <1>9, <1>10, <2>1
      <3>2. PICK b \in Int, r \in Int, x \in BOOLEAN :
                entry = [bytes |-> b, reserved |-> r, cancelled |-> x]
        OBVIOUS
      <3>3. admission' = [bytes |-> b + size, reserved |-> r - size, cancelled |-> x]
        BY <3>1, <3>2
      <3>4. QED
        BY <1>10, <3>2, <3>3
    <2>3. /\ thread' \in [Threads -> ThreadRecords] /\ thread'[t].pc = "reading" /\ thread'[t].task = thread[t].task
          /\ thread'[t].chunk = c + 1 /\ thread'[t].saw = thread[t].saw
          /\ \A s \in Threads : s # t => thread'[s] = thread[s]
      <3>1. PICK place \in ThreadRecords : place = thread[t]
        BY <1>1 DEF EvidenceTypes
      <3>2. PICK moved : moved = [place EXCEPT !.pc = "reading", !.chunk = @ + 1]
        OBVIOUS
      <3>3. /\ moved \in ThreadRecords /\ moved.pc = "reading" /\ moved.task = place.task
            /\ moved.chunk = c + 1 /\ moved.saw = place.saw
        <4>1. place.chunk = c /\ c \in Nat
          BY <1>6, <3>1
        <4>2. PICK d \in Nat : d = c + 1
          BY <4>1
        <4>3. moved = [place EXCEPT !.pc = "reading", !.chunk = d]
          BY <3>2, <4>1, <4>2
        <4>4. QED
          BY <4>2, <4>3 DEF ThreadRecords
      <3>4. thread' = [thread EXCEPT ![t] = moved]
        BY <1>1, <2>1, <3>1, <3>2 DEF EvidenceTypes
      <3>5. QED
        BY <1>1, <3>1, <3>3, <3>4 DEF EvidenceTypes
    <2>4. Holding(t)' = 0
      BY <2>3 DEF Holding
    <2>5. PICK old \in Nat : old = Sum(Chunks[w], thread[t].chunk - 1) + Holding(t)
      BY <1>6, <1>7, <1>8, <1>9
    <2>6. c + 1 - 1 = c
      BY SizesTyped
    <2>7. PICK more \in Nat : more = Sum(Chunks[w], thread'[t].chunk - 1) + Holding(t)'
      BY <1>7, <2>3, <2>4, <2>6
    <2>8. more = old /\ more <= SizeOf(w)
      <3>1. PICK low \in Nat : low = Sum(Chunks[w], c - 1)
        BY <1>7
      <3>2. Sum(Chunks[w], c) = low + size
        BY <1>7, <1>8, <3>1
      <3>3. old = low + size
        BY <1>6, <1>9, <2>5, <3>1
      <3>4. thread'[t].chunk - 1 = c
        BY <2>3, <2>6
      <3>5. more = Sum(Chunks[w], c) + 0
        BY <2>4, <2>7, <3>4
      <3>6. QED
        BY <1>7, <3>2, <3>3, <3>5
    <2>9. Busy(t)' /\ thread'[t].task = w
      BY <1>4, <2>3 DEF Busy, At
    <2>10. admission'.bytes + admission'.reserved = admission.bytes + admission.reserved
      BY <1>10, <2>2
    <2>11. admission'.bytes + admission'.reserved <= budget
      BY <1>1, <2>10 DEF Refusals
    <2>12. /\ admission'.bytes + admission'.reserved = admission.bytes + admission.reserved - old + more
           /\ admission'.reserved = admission.reserved - Holding(t) + Holding(t)'
      BY <1>9, <1>10, <2>2, <2>4, <2>8
    <2>13. thread'[t].chunk \in 1..(Len(Chunks[w]) + 1) /\ thread'[t].pc # "holding"
      BY <1>6, <2>3, SizesTyped
    <2>14. Holding(t) \in Nat /\ Holding(t)' \in Nat
      BY <1>9, <2>4
    <2>15. QED
      BY <1>2, <1>3, <1>4, <2>1, <2>2, <2>3, <2>5, <2>7, <2>8, <2>9, <2>11, <2>12, <2>13, <2>14, TaskGoesOn
  <1>13. QED
    BY <1>11, <1>12

LEMMA CompleteKeeps ==
    ASSUME EvidenceInv, NEW t \in Threads, Complete(t)
    PROVE  EvidenceInv'
  <1>1. EvidenceTypes
    BY DEF EvidenceInv
  <1>2. /\ thread[t].pc = "reading" /\ thread[t].chunk > Len(Chunks[thread[t].task])
        /\ fragment' = [fragment EXCEPT ![thread[t].task] = thread[t].saw] /\ Move(t, "free")
        /\ UNCHANGED <<budget, shared, seen, next, admission, result>>
    BY DEF Complete
  <1>3. Busy(t) /\ Holding(t) = 0
    BY <1>2 DEF Busy, Holding
  <1>4. PICK w \in Tasks : w = At(t)
    BY <1>3, BusyFacts
  <1>5. thread[t].saw \in 1..2 /\ thread[t].chunk > Len(Chunks[w])
    BY <1>2, <1>3, <1>4, BusyFacts DEF At
  <1>6. /\ fragment' \in [Tasks -> -1..2] /\ fragment'[w] \in 1..2
        /\ \A v \in Tasks : v # w => fragment'[v] = fragment[v]
    BY <1>1, <1>2, <1>4, <1>5 DEF EvidenceTypes, At
  <1>7. /\ thread' \in [Threads -> ThreadRecords] /\ thread'[t].pc = "free"
        /\ \A s \in Threads : s # t => thread'[s] = thread[s]
    BY <1>2, MoveIs
  <1>8. /\ admission' \in [bytes : Int, reserved : Int, cancelled : BOOLEAN]
        /\ admission'.bytes = admission.bytes /\ admission'.reserved = admission.reserved - Holding(t)
        /\ admission'.cancelled = admission.cancelled
    BY <1>1, <1>2, <1>3 DEF EvidenceTypes
  <1>9. fragment'[w] # -1 /\ fragment'[w] # 0
    BY <1>6
  <1>10. QED
    BY <1>2, <1>3, <1>4, <1>5, <1>6, <1>7, <1>8, <1>9, TaskLeft

LEMMA PanicKeeps ==
    ASSUME EvidenceInv, NEW t \in Threads, Panic(t)
    PROVE  EvidenceInv'
  <1>1. EvidenceTypes
    BY DEF EvidenceInv
  <1>2. /\ thread[t].pc \in {"reading", "holding"} /\ Move(t, "panicked")
        /\ admission' = IF thread[t].pc = "holding"
                        THEN [admission EXCEPT !.reserved = @ - Size(t)] ELSE admission
        /\ UNCHANGED <<budget, shared, seen, next, fragment, result>>
    BY DEF Panic
  <1>3. Busy(t)
    BY <1>2 DEF Busy
  <1>4. PICK w \in Tasks : w = At(t)
    BY <1>3, BusyFacts
  <1>5. fragment[w] = -1 /\ Holding(t) \in Nat
    BY <1>3, <1>4, BusyFacts
  <1>6. PICK entry \in [bytes : Int, reserved : Int, cancelled : BOOLEAN] : entry = admission
    BY <1>1 DEF EvidenceTypes
  <1>7. /\ admission' \in [bytes : Int, reserved : Int, cancelled : BOOLEAN]
        /\ admission'.bytes = admission.bytes /\ admission'.reserved = admission.reserved - Holding(t)
        /\ admission'.cancelled = admission.cancelled
    <2>1. CASE thread[t].pc = "holding"
      <3>1. Holding(t) = Size(t) /\ admission' = [admission EXCEPT !.reserved = @ - Size(t)]
        BY <1>2, <2>1 DEF Holding
      <3>2. QED
        BY <1>5, <1>6, <3>1
    <2>2. CASE thread[t].pc # "holding"
      BY <1>2, <1>6, <2>2 DEF Holding
    <2>3. QED
      BY <2>1, <2>2
  <1>8. /\ thread' \in [Threads -> ThreadRecords] /\ thread'[t].pc = "panicked"
        /\ \A s \in Threads : s # t => thread'[s] = thread[s]
    BY <1>2, MoveIs
  <1>9. fragment' \in [Tasks -> -1..2] /\ fragment'[w] = -1 /\ \A v \in Tasks : v # w => fragment'[v] = fragment[v]
    BY <1>1, <1>2, <1>5 DEF EvidenceTypes
  <1>10. fragment'[w] # 0 /\ ~(fragment'[w] > 0)
    BY <1>9
  <1>11. QED
    BY <1>2, <1>3, <1>4, <1>7, <1>8, <1>9, <1>10, TaskLeft

LEMMA CancelRestKeeps ==
    ASSUME EvidenceInv, CancelRest
    PROVE  EvidenceInv'
  <1>1. EvidenceTypes /\ Working /\ Taken /\ Account /\ Refusals /\ CaptureConcluded
    BY DEF EvidenceInv
  <1>2. /\ admission' = [admission EXCEPT !.cancelled = TRUE]
        /\ UNCHANGED <<budget, shared, seen, next, thread, fragment, result>>
    BY DEF CancelRest
  <1>3. Panicked /\ (Panicked' <=> Panicked)
    BY <1>2 DEF CancelRest, Panicked
  <1>4. /\ admission' \in [bytes : Int, reserved : Int, cancelled : BOOLEAN]
        /\ admission'.bytes = admission.bytes /\ admission'.reserved = admission.reserved
    BY <1>1, <1>2 DEF EvidenceTypes
  <1>5. EvidenceTypes'
    BY <1>1, <1>2, <1>4 DEF EvidenceTypes
  <1>6. Working' /\ Taken'
    BY <1>1, <1>2, <1>3 DEF Working, Taken, Busy, At
  <1>7. Account'
    <2>1. PICK used, kept : Balanced(used, kept)
      BY <1>1 DEF Account
    <2>2. \A t \in Threads : (Busy(t)' <=> Busy(t)) /\ At(t)' = At(t) /\ Holding(t)' = Holding(t)
      BY <1>2 DEF Busy, At, Holding, Size
    <2>3. Balanced(used, kept)'
      BY <1>2, <1>4, <2>1, <2>2 DEF Balanced
    <2>4. QED
      BY <2>3 DEF Account
  <1>8. Refusals'
    BY <1>1, <1>2, <1>3, <1>4 DEF Refusals
  <1>9. CaptureConcluded'
    <2>1. Joined' <=> Joined
      BY <1>2 DEF Joined, Ended
    <2>2. QED
      BY <1>1, <1>2, <1>3, <1>4, <2>1 DEF CaptureConcluded
  <1>10. QED
    BY <1>5, <1>6, <1>7, <1>8, <1>9 DEF EvidenceInv

LEMMA ReplaceKeeps ==
    ASSUME EvidenceInv, Replace
    PROVE  EvidenceInv'
  <1>1. EvidenceTypes /\ Working /\ Taken /\ Account /\ Refusals /\ CaptureConcluded
    BY DEF EvidenceInv
  <1>2. /\ shared' = 2 /\ result = "none"
        /\ UNCHANGED <<budget, seen, next, thread, admission, fragment, result>>
    BY DEF Replace
  <1>3. Panicked' <=> Panicked
    BY <1>2 DEF Panicked
  <1>4. EvidenceTypes' /\ Working' /\ Taken' /\ Refusals' /\ CaptureConcluded'
    BY <1>1, <1>2, <1>3 DEF EvidenceTypes, Working, Taken, Refusals, CaptureConcluded, Busy, At
  <1>5. Account'
    <2>1. PICK used, kept : Balanced(used, kept)
      BY <1>1 DEF Account
    <2>2. \A t \in Threads : (Busy(t)' <=> Busy(t)) /\ At(t)' = At(t) /\ Holding(t)' = Holding(t)
      BY <1>2 DEF Busy, At, Holding, Size
    <2>3. Balanced(used, kept)'
      BY <1>2, <2>1, <2>2 DEF Balanced
    <2>4. QED
      BY <2>3 DEF Account
  <1>6. QED
    BY <1>4, <1>5 DEF EvidenceInv

\* Once all are joined nobody holds a reservation, and every worktree was
\* captured unless a thread panicked or none was ever started.
LEMMA JoinedIsDone ==
    ASSUME EvidenceInv, Joined
    PROVE  /\ \A t \in Threads : ~Busy(t)
           /\ admission.reserved = 0
           /\ Panicked \/ Missing = {} \/ (RefusedSlot /\ next = 1)
  <1>1. EvidenceTypes /\ Taken /\ Account
    BY DEF EvidenceInv
  <1>2. ASSUME NEW t \in Threads, Busy(t) PROVE FALSE
    <2>1. t \in Nat /\ t >= 1 /\ t <= Slots /\ Slots \in Nat
      BY SizesTyped DEF Threads
    <2>2. ~Ended(t) /\ thread[t].pc # "refused" /\ thread[t].pc # "new"
      BY <1>2 DEF Busy, Ended
    <2>3. PICK s \in 1..t : thread[s].pc = "refused"
      BY <2>2 DEF Joined
    <2>4. s \in Threads /\ s < t
      <3>1. s # t
        BY <2>2, <2>3
      <3>2. QED
        BY <2>1, <3>1 DEF Threads
    <2>5. thread[t].pc = "new"
      BY <1>1, <2>3, <2>4 DEF Taken
    <2>6. QED
      BY <2>2, <2>5
  <1>3. admission.reserved = 0
    <2>1. PICK used, kept : Balanced(used, kept)
      BY <1>1 DEF Account
    <2>2. kept \in [Tasks -> Nat] /\ \A v \in Tasks : kept[v] = 0
      BY <1>2, <2>1 DEF Balanced
    <2>3. kept = [v \in Tasks |-> 0]
      BY <2>2
    <2>4. PICK m \in Nat : m = Len(Chunks)
      BY SizesTyped
    <2>5. Sum(kept, m) = 0
      BY <2>3, <2>4, SumOfNothing, SizesTyped
    <2>6. QED
      BY <2>1, <2>4, <2>5 DEF Balanced
  <1>4. ASSUME ~Panicked PROVE Missing = {} \/ (RefusedSlot /\ next = 1)
    <2>1. 1 \in Threads
      BY SizesTyped
    <2>2. Ended(1) \/ thread[1].pc = "refused"
      <3>1. \A s \in 1..1 : s = 1
        OBVIOUS
      <3>2. QED
        BY <2>1, <3>1 DEF Joined
    <2>3. CASE thread[1].pc = "refused"
      BY <1>1, <2>1, <2>3 DEF Taken, RefusedSlot
    <2>4. CASE Ended(1)
      <3>1. thread[1].pc = "ended"
        BY <1>4, <2>1, <2>4 DEF Ended, Panicked
      <3>2. next > Len(Chunks)
        BY <1>1, <2>1, <3>1 DEF Taken
      <3>3. ASSUME NEW v \in Tasks PROVE fragment[v] # -1
        <4>1. v < next
          BY <1>1, <3>2, SizesTyped DEF EvidenceTypes
        <4>2. QED
          BY <1>1, <1>2, <1>4, <4>1 DEF Taken
      <3>4. QED
        BY <3>3 DEF Missing
    <2>5. QED
      BY <2>2, <2>3, <2>4
  <1>5. QED
    BY <1>2, <1>3, <1>4

LEMMA MergeKeeps ==
    ASSUME EvidenceInv, Merge
    PROVE  EvidenceInv'
  <1>1. EvidenceTypes /\ Working /\ Taken /\ Account /\ Refusals
    BY DEF EvidenceInv
  <1>2. /\ Joined
        /\ result' = IF \/ Panicked
                        \/ \E w \in Tasks : fragment[w] = 0
                        \/ Missing # {} /\ ~(RefusedSlot /\ next = 1)
                        \/ admission.cancelled \/ admission.reserved # 0
                     THEN "error"
                     ELSE IF RefusedSlot \/ \E w \in Tasks : fragment[w] # seen THEN Serial
                     ELSE "evidence"
        /\ UNCHANGED <<budget, shared, seen, next, thread, admission, fragment>>
    BY DEF Merge
  <1>3. /\ \A t \in Threads : ~Busy(t)
        /\ admission.reserved = 0
        /\ Panicked \/ Missing = {} \/ (RefusedSlot /\ next = 1)
    BY <1>2, JoinedIsDone
  <1>4. (Panicked' <=> Panicked) /\ (Joined' <=> Joined)
    BY <1>2 DEF Panicked, Joined, Ended
  <1>5. result' \in {"error", "serial", "evidence"}
    BY <1>2 DEF Serial
  <1>6. Panicked => result' = "error"
    BY <1>2
  <1>7. ASSUME ~Panicked, \A w \in Tasks : fragment[w] # 0
        PROVE  result' = IF RefusedSlot \/ \E w \in Tasks : fragment[w] # seen THEN Serial ELSE "evidence"
    BY <1>1, <1>2, <1>3, <1>7 DEF Refusals
  <1>8. ASSUME \A w \in Tasks : fragment[w] = seen
        PROVE  admission.bytes = Total /\ Total <= budget
    <2>1. PICK used, kept : Balanced(used, kept)
      BY <1>1 DEF Account
    <2>2. \A w \in Tasks : fragment[w] > 0
      BY <1>1, <1>8 DEF EvidenceTypes
    <2>3. used \in [Tasks -> Nat] /\ \A w \in Tasks : used[w] = Sizes[w]
      BY <2>1, <2>2 DEF Balanced, Sizes
    <2>4. used = Sizes
      BY <2>3, SizesTyped
    <2>5. admission.bytes + admission.reserved = Total
      BY <2>1, <2>4, SizesTyped DEF Balanced
    <2>6. admission.bytes \in Int
      BY <1>1 DEF EvidenceTypes
    <2>7. QED
      BY <1>1, <1>3, <2>5, <2>6 DEF Refusals
  <1>9. ASSUME ~Panicked
        PROVE  (result' = "error" <=> Total > budget)
    <2>1. CASE \E w \in Tasks : fragment[w] = 0
      <3>1. Total > budget
        BY <1>1, <1>9, <2>1 DEF Refusals
      <3>2. result' = "error"
        BY <1>2, <2>1
      <3>3. QED
        BY <3>1, <3>2
    <2>2. CASE \A w \in Tasks : fragment[w] # 0
      <3>1. CASE RefusedSlot \/ \E w \in Tasks : fragment[w] # seen
        BY <1>7, <1>9, <2>2, <3>1 DEF Serial
      <3>2. CASE ~(RefusedSlot \/ \E w \in Tasks : fragment[w] # seen)
        <4>1. Total <= budget
          BY <1>8, <3>2
        <4>2. ~(Total > budget)
          BY <1>1, <4>1, SizesTyped DEF EvidenceTypes
        <4>3. result' = "evidence"
          BY <1>7, <1>9, <2>2, <3>2
        <4>4. QED
          BY <4>2, <4>3
      <3>3. QED
        BY <3>1, <3>2
    <2>3. QED
      BY <2>1, <2>2
  <1>10. ASSUME result' = "evidence"
         PROVE  admission'.bytes = Total /\ \A w \in Tasks : fragment'[w] = seen'
    <2>1. \A w \in Tasks : fragment[w] = seen
      BY <1>2, <1>10 DEF Serial
    <2>2. QED
      BY <1>2, <1>8, <2>1
  <1>11. CaptureConcluded'
    <2>1. Joined'
      BY <1>2, <1>4
    <2>2. Panicked' => result' = "error"
      BY <1>4, <1>6
    <2>3. ~Panicked' => (result' = "error" <=> Total > budget')
      BY <1>2, <1>4, <1>9
    <2>4. QED
      BY <1>10, <2>1, <2>2, <2>3 DEF CaptureConcluded
  <1>12. EvidenceTypes'
    BY <1>1, <1>2, <1>5 DEF EvidenceTypes
  <1>13. Working' /\ Taken' /\ Refusals'
    BY <1>1, <1>2, <1>4 DEF Working, Taken, Refusals, Busy, At
  <1>14. Account'
    <2>1. PICK used, kept : Balanced(used, kept)
      BY <1>1 DEF Account
    <2>2. \A t \in Threads : (Busy(t)' <=> Busy(t)) /\ At(t)' = At(t) /\ Holding(t)' = Holding(t)
      BY <1>2 DEF Busy, At, Holding, Size
    <2>3. Balanced(used, kept)'
      BY <1>2, <2>1, <2>2 DEF Balanced
    <2>4. QED
      BY <2>3 DEF Account
  <1>15. QED
    BY <1>11, <1>12, <1>13, <1>14 DEF EvidenceInv

LEMMA EvidenceInvariant == EvidenceSpec => []EvidenceInv
  <1>1. EvidenceInv /\ [EvidenceNext]_evidenceVars => EvidenceInv'
    <2>1. SUFFICES ASSUME EvidenceInv, [EvidenceNext]_evidenceVars PROVE EvidenceInv'
      OBVIOUS
    <2>2. ASSUME NEW t \in Threads, Start(t) PROVE EvidenceInv'
      BY <2>1, <2>2, StartKeeps
    <2>3. ASSUME NEW t \in Threads, TakeTask(t) PROVE EvidenceInv'
      BY <2>1, <2>3, TakeTaskKeeps
    <2>4. ASSUME NEW t \in Threads, Reserve(t) PROVE EvidenceInv'
      BY <2>1, <2>4, ReserveKeeps
    <2>5. ASSUME NEW t \in Threads, Commit(t) PROVE EvidenceInv'
      BY <2>1, <2>5, CommitKeeps
    <2>6. ASSUME NEW t \in Threads, Complete(t) PROVE EvidenceInv'
      BY <2>1, <2>6, CompleteKeeps
    <2>7. ASSUME NEW t \in Threads, Panic(t) PROVE EvidenceInv'
      BY <2>1, <2>7, PanicKeeps
    <2>8. CASE CancelRest
      BY <2>1, <2>8, CancelRestKeeps
    <2>9. CASE Replace
      BY <2>1, <2>9, ReplaceKeeps
    <2>10. CASE Merge
      BY <2>1, <2>10, MergeKeeps
    <2>11. CASE UNCHANGED evidenceVars
      <3>1. UNCHANGED <<budget, shared, seen, next, thread, admission, fragment, result>>
        BY <2>11 DEF evidenceVars
      <3>2. EvidenceTypes' /\ Working' /\ Taken' /\ Refusals' /\ CaptureConcluded'
        BY <2>1, <3>1 DEF EvidenceInv, EvidenceTypes, Working, Taken, Refusals, CaptureConcluded, Busy, At, Panicked, Joined, Ended
      <3>3. Account'
        <4>1. PICK used, kept : Balanced(used, kept)
          BY <2>1 DEF EvidenceInv, Account
        <4>2. \A t \in Threads : (Busy(t)' <=> Busy(t)) /\ At(t)' = At(t) /\ Holding(t)' = Holding(t)
          BY <3>1 DEF Busy, At, Holding, Size
        <4>3. Balanced(used, kept)'
          BY <3>1, <4>1, <4>2 DEF Balanced
        <4>4. QED
          BY <4>3 DEF Account
      <3>4. QED
        BY <3>2, <3>3 DEF EvidenceInv
    <2>12. QED
      BY <2>1, <2>2, <2>3, <2>4, <2>5, <2>6, <2>7, <2>8, <2>9, <2>10, <2>11 DEF EvidenceNext
  <1>2. QED
    BY <1>1, EvidenceInitInv, PTL DEF EvidenceSpec

\* Whatever order the threads run in, however many of them could be started and
\* wherever one panics, the parallel capture keeps within its budget and comes
\* to what the serial capture would have come to (collect, Admission).
THEOREM ParallelCaptureAgrees == EvidenceSpec => []CapturesAgree
  <1>1. EvidenceInv => CapturesAgree
    BY DEF EvidenceInv, Refusals, CaptureConcluded, CapturesAgree
  <1>2. QED
    BY <1>1, EvidenceInvariant, PTL

-----------------------------------------------------------------------------
(* The graph of the map (GitTopology).  What is reached from a commit is the  *)
(* least set that holds it and, with a commit, its parents.                   *)

Histories == {P \in [Commits -> SUBSET Commits] : \A c \in Commits : P[c] \subseteq Parents[c]}
ParentClosed(P, S) == \A x \in S : P[x] \subseteq S
Walk(P) == [c \in Commits |-> {x \in Commits : \A S \in SUBSET Commits : c \in S /\ ParentClosed(P, S) => x \in S}]

LEMMA WalkSteps ==
    ASSUME NEW P \in Histories, NEW c \in Commits
    PROVE  /\ Walk(P)[c] \in SUBSET Commits /\ c \in Walk(P)[c] /\ ParentClosed(P, Walk(P)[c])
           /\ Walk(P)[c] = {c} \cup UNION {Walk(P)[p] : p \in P[c]}
  <1>1. P \in [Commits -> SUBSET Commits]
    BY DEF Histories
  <1> DEFINE W(x) == {y \in Commits : \A S \in SUBSET Commits : x \in S /\ ParentClosed(P, S) => y \in S}
  <1>2. \A x \in Commits : Walk(P)[x] = W(x)
    BY DEF Walk
  <1>3. ASSUME NEW x \in Commits PROVE W(x) \in SUBSET Commits /\ x \in W(x) /\ ParentClosed(P, W(x))
    <2>1. ASSUME NEW y \in W(x), NEW z \in P[y] PROVE z \in W(x)
      BY <1>1, <2>1 DEF ParentClosed
    <2>2. QED
      BY <2>1 DEF ParentClosed
  <1>4. ASSUME NEW p \in P[c] PROVE W(p) \subseteq W(c)
    <2>1. p \in Commits /\ p \in W(c)
      BY <1>1, <1>3 DEF ParentClosed
    <2>2. QED
      BY <2>1
  <1> DEFINE U == {c} \cup UNION {W(p) : p \in P[c]}
  <1>5. U \in SUBSET Commits /\ c \in U
    BY <1>1
  <1>6. ParentClosed(P, U)
    <2>1. ASSUME NEW y \in U, NEW z \in P[y] PROVE z \in U
      <3>1. CASE y = c
        BY <1>1, <1>3, <2>1, <3>1
      <3>2. CASE y # c
        <4>1. PICK p \in P[c] : y \in W(p)
          BY <3>2
        <4>2. p \in Commits
          BY <1>1
        <4>3. z \in W(p)
          BY <1>3, <2>1, <4>1, <4>2 DEF ParentClosed
        <4>4. QED
          BY <4>3
      <3>3. QED
        BY <3>1, <3>2
    <2>2. QED
      BY <2>1 DEF ParentClosed
  <1>7. W(c) = U
    <2>1. W(c) \subseteq U
      BY <1>5, <1>6
    <2>2. U \subseteq W(c)
      BY <1>3, <1>4
    <2>3. QED
      BY <2>1, <2>2
  <1>8. {W(p) : p \in P[c]} = {Walk(P)[p] : p \in P[c]}
    <2>1. \A p \in P[c] : Walk(P)[p] = W(p)
      BY <1>1, <1>2
    <2>2. QED
      <3> HIDE DEF W
      <3>1. QED
        BY <2>1
  <1>9. QED
    BY <1>2, <1>3, <1>7, <1>8

LEMMA Places ==
    /\ \A c \in Commits : \E i \in DOMAIN TopoOrder : TopoOrder[i] = c
    /\ DOMAIN TopoOrder \in SUBSET Nat /\ Len(TopoOrder) \in Nat /\ DOMAIN TopoOrder = 1..Len(TopoOrder)
  BY TopologyAssumption DEF Range

\* The recursion along the parents comes to that set, because a history has an
\* order in which children come first.
LEMMA ReachedIsWalk ==
    ASSUME NEW P \in Histories, NEW c \in Commits
    PROVE  Reached(P, c) = Walk(P)[c]
  <1> DEFINE F(r) == [x \in Commits |-> {x} \cup UNION {r[p] : p \in P[x]}]
  <1>1. P \in [Commits -> SUBSET Commits] /\ \A x \in Commits : P[x] \subseteq Parents[x]
    BY DEF Histories
  <1>2. PICK g : g = Walk(P)
    OBVIOUS
  <1>3. g = F(g)
    <2>1. ASSUME NEW x \in Commits PROVE g[x] = {x} \cup UNION {g[p] : p \in P[x]}
      BY <1>2, WalkSteps
    <2>2. g = [x \in Commits |-> g[x]]
      BY <1>2 DEF Walk
    <2>3. QED
      BY <2>1, <2>2
  <1>4. PICK r : r = (CHOOSE h : h = F(h))
    OBVIOUS
  <1>5. r = F(r)
    <2>1. \E h : h = F(h)
      BY <1>3
    <2>2. (CHOOSE h : h = F(h)) = F(CHOOSE h : h = F(h))
      <3> HIDE DEF F
      <3>1. QED
        BY <2>1
    <2>3. QED
      <3> HIDE DEF F
      <3>1. QED
        BY <1>4, <2>2, Zenon
  <1>6. Reached(P, c) = r[c]
    BY <1>4 DEF Reached
  <1> DEFINE T == {n \in Nat : \E i \in DOMAIN TopoOrder :
                     n = Len(TopoOrder) - i /\ r[TopoOrder[i]] # g[TopoOrder[i]]}
  <1>7. SUFFICES ASSUME r[c] # g[c] PROVE FALSE
    BY <1>2, <1>6
  <1>8. T # {}
    <2>1. PICK i \in DOMAIN TopoOrder : TopoOrder[i] = c
      BY Places
    <2>2. Len(TopoOrder) - i \in Nat
      BY Places
    <2>3. QED
      BY <1>7, <2>1, <2>2
  <1>9. T \in SUBSET Nat
    OBVIOUS
  <1>10. PICK n \in T : \A y \in T : n <= y
    BY <1>8, <1>9, LeastOf
  <1>11. PICK i \in DOMAIN TopoOrder : n = Len(TopoOrder) - i /\ r[TopoOrder[i]] # g[TopoOrder[i]]
    BY <1>10
  <1>12. PICK x \in Commits : x = TopoOrder[i]
    BY TopologyAssumption, Places
  <1>13. ASSUME NEW p \in P[x] PROVE r[p] = g[p]
    <2>1. p \in Parents[x] /\ p \in Commits
      BY <1>1
    <2>2. PICK j \in DOMAIN TopoOrder : TopoOrder[j] = p
      BY <2>1, Places
    <2>3. i < j
      BY <1>12, <2>1, <2>2, TopologyAssumption
    <2>4. PICK len \in Nat : len = Len(TopoOrder)
      BY Places
    <2>5. i \in 1..len /\ j \in 1..len
      BY <2>4, Places
    <2>6. len - j \in Nat /\ ~(n <= len - j)
      BY <1>11, <2>3, <2>4, <2>5
    <2>7. len - j \notin T
      BY <1>10, <2>6
    <2>8. QED
      BY <2>2, <2>4, <2>6, <2>7
  <1>14. {r[p] : p \in P[x]} = {g[p] : p \in P[x]}
    BY <1>13
  <1>15. r[x] = {x} \cup UNION {r[p] : p \in P[x]}
    BY <1>5
  <1>16. g[x] = {x} \cup UNION {g[p] : p \in P[x]}
    BY <1>3
  <1>17. QED
    BY <1>11, <1>12, <1>14, <1>15, <1>16

LEMMA ReachedIs ==
    ASSUME NEW P \in Histories, NEW c \in Commits
    PROVE  /\ Reached(P, c) \in SUBSET Commits /\ c \in Reached(P, c) /\ ParentClosed(P, Reached(P, c))
           /\ \A S \in SUBSET Commits : c \in S /\ ParentClosed(P, S) => Reached(P, c) \subseteq S
  <1>1. Reached(P, c) = Walk(P)[c]
    BY ReachedIsWalk
  <1>2. QED
    BY <1>1, WalkSteps DEF Walk

\* Less is reached where fewer parents are shown.
LEMMA ReachedLess ==
    ASSUME NEW P \in Histories, NEW Q \in Histories, NEW c \in Commits,
           \A x \in Commits : P[x] \subseteq Q[x]
    PROVE  Reached(P, c) \subseteq Reached(Q, c)
  <1>1. Reached(Q, c) \in SUBSET Commits /\ c \in Reached(Q, c) /\ ParentClosed(Q, Reached(Q, c))
    BY ReachedIs
  <1>2. ParentClosed(P, Reached(Q, c))
    BY <1>1 DEF ParentClosed
  <1>3. QED
    BY <1>1, <1>2, ReachedIs

\* A walk that stays inside the commits of the graph is not cut short by them.
LEMMA ReachedInside ==
    ASSUME NEW P \in Histories, NEW Q \in Histories, NEW c \in Commits, NEW S \in SUBSET Commits,
           \A x \in S : P[x] = Q[x], Reached(Q, c) \subseteq S, Reached(P, c) \subseteq Reached(Q, c)
    PROVE  Reached(P, c) = Reached(Q, c)
  <1>1. Reached(P, c) \in SUBSET Commits /\ c \in Reached(P, c) /\ ParentClosed(P, Reached(P, c))
    BY ReachedIs
  <1>2. ParentClosed(Q, Reached(P, c))
    BY <1>1 DEF ParentClosed
  <1>3. Reached(Q, c) \subseteq Reached(P, c)
    BY <1>1, <1>2, ReachedIs
  <1>4. QED
    BY <1>3

-----------------------------------------------------------------------------
(* The first members of a set, and the histories Git and the map show.        *)

LEMMA FirstIs ==
    ASSUME NEW S, NEW order, NEW n
    PROVE  First(S, order, n) \subseteq S
  BY DEF First

LEMMA FirstOfAll ==
    ASSUME NEW S, IsFiniteSet(S), NEW order, NEW n \in Nat, Cardinality(S) <= n
    PROVE  First(S, order, n) = S
  <1>1. ASSUME NEW y \in S PROVE Cardinality({x \in S \ {y} : Before(order, x, y)}) < n
    <2>1. PICK T : T = {x \in S \ {y} : Before(order, x, y)}
      OBVIOUS
    <2>2. T \in SUBSET S /\ T # S
      BY <2>1
    <2>3. IsFiniteSet(T) /\ Cardinality(T) < Cardinality(S)
      <3>1. IsFiniteSet(T) /\ Cardinality(T) <= Cardinality(S) /\ Cardinality(S) # Cardinality(T)
        BY <2>2, FS_Subset
      <3>2. Cardinality(S) \in Nat /\ Cardinality(T) \in Nat
        BY <3>1, FS_CardinalityType
      <3>3. QED
        BY <3>1, <3>2
    <2>4. Cardinality(S) \in Nat /\ Cardinality(T) \in Nat
      BY <2>3, FS_CardinalityType
    <2>5. QED
      BY <2>1, <2>3, <2>4
  <1>2. QED
    BY <1>1 DEF First

LEMMA FiniteHistory ==
    /\ IsFiniteSet(Commits) /\ IsFiniteSet(Names)
  <1>1. ASSUME NEW s, NEW S, s \in Seq(S) PROVE IsFiniteSet(Range(s))
    <2>1. PICK m \in Nat : m = Len(s) /\ DOMAIN s = 1..m
      BY <1>1
    <2>2. s \in Surjection(1..m, Range(s))
      BY <1>1, <2>1 DEF Surjection, Range
    <2>3. IsFiniteSet(1..m)
      BY FS_Interval
    <2>4. QED
      BY <2>2, <2>3, FS_Surjection
  <1>2. QED
    BY <1>1, TopologyAssumption DEF Names

\* Where a name stands among the references.
LEMMA NamePlaces ==
    /\ \A n \in Names : \E i \in DOMAIN RefOrder : RefOrder[i] = n
    /\ DOMAIN RefOrder \in SUBSET Nat /\ MaxRefs \in Nat
    /\ \A i, j \in DOMAIN RefOrder : RefOrder[i] = RefOrder[j] => i = j
  BY TopologyAssumption DEF Names, Range

\* A set of names all of which are among its first n has no more than n.
LEMMA FirstFits ==
    ASSUME NEW S \in SUBSET Names, NEW n \in Nat, First(S, RefOrder, n) = S
    PROVE  Cardinality(S) <= n
  <1> DEFINE T == {i \in DOMAIN RefOrder : RefOrder[i] \in S}
  <1>1. IsFiniteSet(S) /\ Cardinality(S) \in Nat
    BY FiniteHistory, FS_Subset, FS_CardinalityType
  <1>2. CASE S = {}
    BY <1>2, FS_EmptySet
  <1>3. CASE S # {}
    <2>1. T # {} /\ T \in SUBSET Nat
      BY <1>3, NamePlaces
    <2>2. PICK m \in Nat : DOMAIN RefOrder = 1 .. m
      BY TopologyAssumption
    <2> DEFINE U == {k \in Nat : m - k \in T}
    <2>3. U # {}
      <3>1. PICK i \in T : TRUE
        BY <2>1
      <3>2. m - i \in Nat /\ m - (m - i) = i
        BY <2>2
      <3>3. m - i \in U
        BY <3>1, <3>2
      <3>4. QED
        BY <3>3
    <2>4. PICK k \in U : \A y \in U : k <= y
      BY <2>3, LeastOf
    <2>5. PICK i \in T : i = m - k
      BY <2>4
    <2>6. PICK y \in S : y = RefOrder[i]
      BY <2>5
    <2>7. ASSUME NEW x \in S \ {y} PROVE Before(RefOrder, x, y)
      <3>1. PICK j \in DOMAIN RefOrder : RefOrder[j] = x
        BY NamePlaces
      <3>2. m - j \in Nat /\ m - (m - j) = j /\ j \in T
        BY <2>2, <3>1
      <3>3. m - j \in U
        BY <3>2
      <3>4. k <= m - j /\ j # i /\ i \in 1 .. m /\ j \in 1 .. m
        BY <2>2, <2>4, <2>6, <2>7, <3>1, <3>3
      <3>5. j < i
        BY <2>4, <2>5, <3>4
      <3>6. QED
        BY <2>6, <3>1, <3>5 DEF Before
    <2>8. {x \in S \ {y} : Before(RefOrder, x, y)} = S \ {y}
      BY <2>7
    <2>9. Cardinality(S \ {y}) < n
      BY <2>8 DEF First
    <2>10. Cardinality(S \ {y}) = Cardinality(S) - 1
      BY <1>1, FS_RemoveElement
    <2>11. QED
      BY <1>1, <2>9, <2>10
  <1>4. QED
    BY <1>2, <1>3

\* Where fewer than n names are among the first n, they are all of them.
LEMMA FirstWhole ==
    ASSUME NEW S \in SUBSET Names, NEW n \in Nat, Cardinality(First(S, RefOrder, n)) < n
    PROVE  First(S, RefOrder, n) = S
  <1> DEFINE F == First(S, RefOrder, n)
             T == {i \in DOMAIN RefOrder : RefOrder[i] \in S \ F}
  <1>1. F \in SUBSET S
    BY FirstIs
  <1>2. SUFFICES ASSUME S # F PROVE FALSE
    OBVIOUS
  <1>3. T # {} /\ T \in SUBSET Nat
    BY <1>1, <1>2, NamePlaces
  <1>4. PICK i \in T : \A j \in T : i <= j
    BY <1>3, LeastOf
  <1>5. PICK y \in S \ F : y = RefOrder[i]
    BY <1>4
  <1>6. PICK P : P = {x \in S \ {y} : Before(RefOrder, x, y)}
    OBVIOUS
  <1>7. ASSUME NEW x \in P PROVE x \in F
    <2>1. PICK j \in DOMAIN RefOrder, k \in DOMAIN RefOrder :
             j < k /\ RefOrder[j] = x /\ RefOrder[k] = y
      BY <1>6, <1>7 DEF Before
    <2>2. k = i
      BY <1>4, <1>5, <2>1, NamePlaces
    <2>3. j \notin T
      BY <1>3, <1>4, <2>1, <2>2, NamePlaces
    <2>4. x \in S
      BY <1>6, <1>7
    <2>5. QED
      BY <2>1, <2>3, <2>4
  <1>8. IsFiniteSet(F)
    BY <1>1, FiniteHistory, FS_Subset
  <1>9. Cardinality(P) <= Cardinality(F) /\ Cardinality(P) \in Nat /\ Cardinality(F) \in Nat
    BY <1>7, <1>8, FS_Subset, FS_CardinalityType
  <1>10. ~(Cardinality(P) < n)
    BY <1>5, <1>6 DEF First
  <1>11. QED
    BY <1>9, <1>10

\* A graph holds what is reached of it.
GraphWalk(g) == [c \in Commits |-> IF c \in g.commits THEN GitParents[c] ELSE {}]

LEMMA Shown ==
    /\ Parents \in Histories /\ GitParents \in Histories
    /\ \A c \in Commits : GitParents[c] \subseteq Parents[c]
    /\ shallow = {} => GitParents = Parents
  <1>1. Parents \in [Commits -> SUBSET Commits]
    BY TopologyAssumption
  <1>2. ASSUME shallow = {} PROVE GitParents = Parents
    BY <1>1, <1>2 DEF GitParents
  <1>3. QED
    BY <1>1, <1>2 DEF GitParents, Histories

LEMMA WalkShown ==
    ASSUME NEW g
    PROVE  /\ GraphWalk(g) \in Histories
           /\ \A c \in Commits : GraphWalk(g)[c] \subseteq GitParents[c] /\ GraphWalk(g)[c] \subseteq Parents[c]
           /\ \A c \in Commits \cap g.commits : GraphWalk(g)[c] = GitParents[c]
  <1>1. \A c \in Commits : GraphWalk(g)[c] = IF c \in g.commits THEN GitParents[c] ELSE {}
    BY DEF GraphWalk
  <1>2. \A c \in Commits : GraphWalk(g)[c] \subseteq GitParents[c] /\ GitParents[c] \subseteq Parents[c]
    BY <1>1, Shown
  <1>3. Parents \in [Commits -> SUBSET Commits]
    BY TopologyAssumption
  <1>4. GraphWalk(g) \in [Commits -> SUBSET Commits]
    BY <1>2, <1>3 DEF GraphWalk
  <1>5. QED
    BY <1>1, <1>2, <1>4 DEF Histories

-----------------------------------------------------------------------------
(* What is collected.                                                         *)

Repos == [refs : [Names -> RefTargets], head : HeadOids]

LEMMA TipsTyped ==
    ASSUME NEW refs \in [Names -> RefTargets], NEW tip \in HeadOids
    PROVE  /\ Displayed(refs) \subseteq Listed(refs)
           /\ \A n \in Displayed(refs) : n \in Names /\ refs[n] \in Commits /\ refs[n] \in Tips(refs, tip)
           /\ Tips(refs, tip) \in SUBSET Commits /\ {tip} \cap Commits \subseteq Tips(refs, tip)
           /\ RevList(refs, tip) \in SUBSET Commits /\ Tips(refs, tip) \subseteq RevList(refs, tip)
           /\ IsFiniteSet(RevList(refs, tip)) /\ Cardinality(RevList(refs, tip)) \in Nat
  <1>1. Displayed(refs) \subseteq Listed(refs) /\ Counted(refs) \subseteq Names
    BY FirstIs DEF Displayed, Counted
  <1>2. \A n \in Displayed(refs) : n \in Names /\ refs[n] \in Commits /\ refs[n] \in Tips(refs, tip)
    BY <1>1 DEF Listed, Tips
  <1>3. Tips(refs, tip) \in SUBSET Commits /\ {tip} \cap Commits \subseteq Tips(refs, tip)
    BY <1>2 DEF Tips
  <1>4. \A c \in Tips(refs, tip) : Reached(GitParents, c) \in SUBSET Commits /\ c \in Reached(GitParents, c)
    BY <1>3, ReachedIs, Shown
  <1>5. RevList(refs, tip) \in SUBSET Commits /\ Tips(refs, tip) \subseteq RevList(refs, tip)
    BY <1>4 DEF RevList
  <1>6. IsFiniteSet(RevList(refs, tip)) /\ Cardinality(RevList(refs, tip)) \in Nat
    BY <1>5, FiniteHistory, FS_Subset, FS_CardinalityType
  <1>7. QED
    BY <1>1, <1>2, <1>3, <1>5, <1>6

\* The parts of a graph that was collected.
Meets(g, x) == x \in g.commits \/ \E b \in g.boundaries : b.oid = x

LEMMA CollectedIs ==
    ASSUME NEW refs \in [Names -> RefTargets], NEW tip \in HeadOids, NEW g, g = Collected(refs, tip)
    PROVE  /\ g = [commits |-> g.commits, edges |-> g.edges, complete |-> g.complete,
                    shown |-> g.shown, boundaries |-> g.boundaries]
           /\ g.commits \in SUBSET RevList(refs, tip)
           /\ Cardinality(RevList(refs, tip)) <= MaxCommits => g.commits = RevList(refs, tip)
           /\ g.shown = [n \in Displayed(refs) |-> refs[n]]
           /\ \A e \in g.edges : e.to \in g.commits
           /\ \A e \in g.edges : Meets(g, e.from)
           /\ \A c \in Tips(refs, tip) : Meets(g, c)
           /\ g.complete => /\ Cardinality(RevList(refs, tip)) <= MaxCommits
                            /\ Omitted(refs) = {} /\ (Tips(refs, tip) # {} => shallow = {})
                            /\ Unsupported(refs) = {}
  <1> DEFINE rows == RevList(refs, tip)
             cut == Cardinality(rows) > MaxCommits
             kept == First(rows, TopoOrder, MaxCommits)
             edges == {e \in [from : Commits, to : kept] : e.from \in GitParents[e.to]}
             outside == {e.from : e \in edges} \ kept
             limits == Bound("history_limit", {refs[n] : n \in Omitted(refs)})
                       \cup Bound("missing", {refs[n] : n \in Unsupported(refs)})
                       \cup Bound("history_limit", IF cut THEN Tips(refs, tip) \ kept ELSE {})
                       \cup Bound("shallow", shallow \cap kept)
                       \cup Bound(IF cut THEN "history_limit" ELSE "missing", outside)
             complete == /\ ~cut /\ Omitted(refs) = {}
                         /\ Tips(refs, tip) # {} => shallow = {}
                         /\ ~\E b \in limits : b.reason = "missing"
  <1>1. g = [commits |-> kept, edges |-> edges, complete |-> complete,
             shown |-> [n \in Displayed(refs) |-> refs[n]],
             boundaries |-> limits \cup
                 (IF complete THEN Bound("unrelated", Unrelated(kept, edges)) ELSE {})]
    BY DEF Collected
  <1>2. /\ g.commits = kept /\ g.edges = edges /\ g.complete = complete
        /\ g.shown = [n \in Displayed(refs) |-> refs[n]] /\ limits \subseteq g.boundaries
    BY <1>1
  <1>3. rows \in SUBSET Commits /\ IsFiniteSet(rows) /\ Cardinality(rows) \in Nat /\ MaxCommits \in Nat
    BY TipsTyped, TopologyAssumption
  <1>4. kept \in SUBSET rows
    BY FirstIs
  <1>5. ~cut => kept = rows
    BY <1>3, FirstOfAll
  <1>6. \A r, oids : \A o \in oids : [reason |-> r, oid |-> o] \in Bound(r, oids)
    BY DEF Bound
  <1>7. ASSUME NEW e \in edges PROVE e.from \in kept \/ \E b \in limits : b.oid = e.from
    <2>1. CASE e.from \in kept
      BY <2>1
    <2>2. CASE e.from \notin kept
      <3>1. PICK r : r = IF cut THEN "history_limit" ELSE "missing"
        OBVIOUS
      <3>2. e.from \in outside
        BY <2>2
      <3>3. [reason |-> r, oid |-> e.from] \in Bound(r, outside)
        BY <1>6, <3>2
      <3>4. [reason |-> r, oid |-> e.from] \in limits
        BY <3>1, <3>3
      <3>5. QED
        BY <3>4
    <2>3. QED
      BY <2>1, <2>2
  <1>8. ASSUME NEW c \in Tips(refs, tip) PROVE c \in kept \/ \E b \in limits : b.oid = c
    <2>1. c \in rows
      BY TipsTyped
    <2>2. CASE ~cut
      BY <1>5, <2>1, <2>2
    <2>3. CASE cut /\ c \notin kept
      <3>1. [reason |-> "history_limit", oid |-> c] \in Bound("history_limit", Tips(refs, tip) \ kept)
        BY <1>6, <2>3
      <3>2. [reason |-> "history_limit", oid |-> c] \in limits
        BY <2>3, <3>1
      <3>3. QED
        BY <3>2
    <2>4. QED
      BY <2>2, <2>3
  <1>9. ~cut <=> Cardinality(rows) <= MaxCommits
    BY <1>3
  <1>16. Unsupported(refs) # {} => \E b \in limits : b.reason = "missing"
    <2>1. SUFFICES ASSUME NEW n \in Unsupported(refs) PROVE \E b \in limits : b.reason = "missing"
      OBVIOUS
    <2>2. [reason |-> "missing", oid |-> refs[n]] \in Bound("missing", {refs[m] : m \in Unsupported(refs)})
      BY <1>6
    <2>3. [reason |-> "missing", oid |-> refs[n]] \in limits
      BY <2>2
    <2>4. QED
      BY <2>3
  <1>17. complete => Unsupported(refs) = {}
    BY <1>16
  <1> HIDE DEF rows, cut, kept, edges, limits, complete
  <1>10. \A e \in edges : e.to \in kept
    BY DEF edges
  <1>11. complete => ~cut /\ Omitted(refs) = {} /\ (Tips(refs, tip) # {} => shallow = {})
    BY DEF complete
  <1>12. \A e \in g.edges : Meets(g, e.from)
    BY <1>2, <1>7 DEF Meets
  <1>13. \A c \in Tips(refs, tip) : Meets(g, c)
    BY <1>2, <1>8 DEF Meets
  <1>14. g = [commits |-> g.commits, edges |-> g.edges, complete |-> g.complete,
               shown |-> g.shown, boundaries |-> g.boundaries]
    BY <1>1
  <1>15. QED
    BY <1>2, <1>4, <1>5, <1>9, <1>10, <1>11, <1>12, <1>13, <1>14, <1>17 DEF rows

\* Whatever is cut off, what is left hangs together.

LEMMA WithinIs ==
    ASSUME NEW refs \in [Names -> RefTargets], NEW tip \in HeadOids, NEW n \in Nat,
           NEW g, g = Collected(refs, tip), NEW k, k = Within(g, tip, n)
    PROVE  /\ \A e \in k.edges : e.to \in k.commits /\ Meets(k, e.from)
           /\ \A x \in Range(k.shown) \cup ({tip} \cap Commits) : Meets(k, x)
           /\ k.complete => k = g
  <1>1. Range(g.shown) \cup ({tip} \cap Commits) \subseteq Tips(refs, tip)
    <2>1. g.shown = [m \in Displayed(refs) |-> refs[m]]
      BY CollectedIs
    <2>2. QED
      BY <2>1, TipsTyped DEF Range
  <1>2. CASE n = 0
    <2>1. k = g
      BY <1>2 DEF Within
    <2>2. (\A e \in g.edges : e.to \in g.commits) /\ (\A e \in g.edges : Meets(g, e.from))
          /\ (\A c \in Tips(refs, tip) : Meets(g, c))
      BY CollectedIs
    <2>3. QED
      BY <1>1, <2>1, <2>2
  <1>3. CASE n # 0
    <2> DEFINE kept(i) == First(g.commits, TopoOrder, Left(Cardinality(g.commits), i))
               more == UNION {Bound("history_limit", Attached(g, tip, kept(i))) : i \in 1 .. n}
    <2>1. k = [g EXCEPT !.commits = kept(n), !.complete = FALSE, !.edges = EdgesOf(g, kept(n)),
                        !.boundaries = @ \cup more]
      BY <1>3 DEF Within
    <2>2. g = [commits |-> g.commits, edges |-> g.edges, complete |-> g.complete,
               shown |-> g.shown, boundaries |-> g.boundaries]
      BY CollectedIs
    <2>3. PICK K : K = kept(n)
      OBVIOUS
    <2>4. PICK M : M = more
      OBVIOUS
    <2>5. k.commits = K /\ k.complete = FALSE /\ k.edges = EdgesOf(g, K) /\ k.shown = g.shown
          /\ M \subseteq k.boundaries
      <3>1. k = [commits |-> K, edges |-> EdgesOf(g, K), complete |-> FALSE,
                 shown |-> g.shown, boundaries |-> g.boundaries \cup M]
        <4> HIDE DEF kept, more
        <4>1. QED
          BY <2>1, <2>2, <2>3, <2>4
      <3>2. QED
        BY <3>1
    <2>6. ASSUME NEW x \in Attached(g, tip, K) PROVE Meets(k, x)
      <3>1. n \in 1 .. n
        BY <1>3
      <3>2. Bound("history_limit", Attached(g, tip, K)) \subseteq M
        BY <2>3, <2>4, <3>1
      <3>3. [reason |-> "history_limit", oid |-> x] \in Bound("history_limit", Attached(g, tip, K))
        BY <2>6 DEF Bound
      <3>4. [reason |-> "history_limit", oid |-> x] \in k.boundaries
        BY <2>5, <3>2, <3>3
      <3>5. [reason |-> "history_limit", oid |-> x].oid = x
        OBVIOUS
      <3>6. QED
        BY <3>4, <3>5 DEF Meets
    <2>7. \A x \in Range(g.shown) \cup ({tip} \cap Commits) : x \in K \/ x \in Attached(g, tip, K)
      BY DEF Attached
    <2>8. \A e \in EdgesOf(g, K) : e.to \in K /\ (e.from \in K \/ e.from \in Attached(g, tip, K))
      BY DEF Attached, EdgesOf
    <2>9. QED
      BY <2>5, <2>6, <2>7, <2>8 DEF Meets
  <1>4. QED
    BY <1>2, <1>3

\* A reference protects the head in the graph only if it does in the repository.
LEMMA ShownProtects ==
    ASSUME NEW r \in Repos, NEW g, g = Collected(r.refs, r.head), NEW n \in DOMAIN g.shown
    PROVE  /\ n \in Names
           /\ Reaches(g, g.shown[n], r.head) => Protects(n, r)
  <1>1. r.refs \in [Names -> RefTargets] /\ r.head \in HeadOids
    BY DEF Repos
  <1>2. g.shown = [m \in Displayed(r.refs) |-> r.refs[m]]
    BY <1>1, CollectedIs
  <1>3. n \in Names /\ r.refs[n] \in Commits /\ g.shown[n] = r.refs[n]
    BY <1>1, <1>2, TipsTyped
  <1>4. Reached(GraphWalk(g), r.refs[n]) \subseteq Reached(Parents, r.refs[n])
    BY <1>3, WalkShown, Shown, ReachedLess
  <1>5. Reaches(g, g.shown[n], r.head) <=> r.head \in Reached(GraphWalk(g), r.refs[n])
    BY <1>3 DEF Reaches, GraphWalk
  <1>6. QED
    BY <1>3, <1>4, <1>5 DEF Protects

\* A complete graph was made of all references: none was past the ones counted.
Existing(refs) == {n \in Names : refs[n] # Gone}

LEMMA CompleteCounts ==
    ASSUME NEW refs \in [Names -> RefTargets], NEW tip \in HeadOids, Collected(refs, tip).complete
    PROVE  /\ Displayed(refs) = Counted(refs) /\ Counted(refs) = Existing(refs)
           /\ Cardinality(Counted(refs)) <= MaxRefs
  <1>1. Omitted(refs) = {} /\ Unsupported(refs) = {}
    BY CollectedIs
  <1>2. Counted(refs) \in SUBSET Existing(refs) /\ Existing(refs) \in SUBSET Names
    BY FirstIs DEF Counted, Existing
  <1>3. Listed(refs) = Counted(refs)
    BY <1>1, <1>2 DEF Listed, Unsupported, Existing, RefTargets
  <1>4. Displayed(refs) = Listed(refs)
    BY <1>1, FirstIs DEF Displayed, Omitted
  <1>5. MaxRefs \in Nat
    BY TopologyAssumption
  <1>6. Cardinality(Counted(refs)) <= MaxRefs
    <2>1. First(Counted(refs), RefOrder, MaxRefs) = Counted(refs) /\ Counted(refs) \in SUBSET Names
      BY <1>2, <1>3, <1>4 DEF Displayed
    <2>2. QED
      BY <1>5, <2>1, FirstFits
  <1>7. Counted(refs) = Existing(refs)
    <2>1. Cardinality(Counted(refs)) \in Nat
      BY <1>2, FiniteHistory, FS_Subset, FS_CardinalityType
    <2>2. Cardinality(First(Existing(refs), RefOrder, MaxRefs + 1)) < MaxRefs + 1
      BY <1>5, <1>6, <2>1 DEF Counted, Existing
    <2>3. MaxRefs + 1 \in Nat
      BY <1>5
    <2>4. First(Existing(refs), RefOrder, MaxRefs + 1) = Existing(refs)
      BY <1>2, <2>2, <2>3, FirstWhole
    <2>5. QED
      BY <2>4 DEF Counted, Existing
  <1>8. QED
    BY <1>3, <1>4, <1>6, <1>7

\* References that look the same to the key of a complete graph are the same.
LEMMA KeyedWhole ==
    ASSUME NEW refs \in [Names -> RefTargets], NEW others \in [Names -> RefTargets],
           NEW tip \in HeadOids, Collected(refs, tip).complete, Keyed(others) = Keyed(refs)
    PROVE  others = refs
  <1>1. /\ Counted(refs) = Existing(refs) /\ Cardinality(Counted(refs)) <= MaxRefs
    BY CompleteCounts
  <1>2. Counted(others) = Counted(refs)
    <2>1. DOMAIN Keyed(others) = Counted(others) /\ DOMAIN Keyed(refs) = Counted(refs)
      BY DEF Keyed, Restrict
    <2>2. QED
      BY <2>1
  <1>3. ASSUME NEW n \in Counted(refs) PROVE others[n] = refs[n]
    <2>1. Keyed(others)[n] = others[n] /\ Keyed(refs)[n] = refs[n]
      BY <1>2, <1>3 DEF Keyed, Restrict
    <2>2. QED
      BY <2>1
  <1>4. Existing(refs) \in SUBSET Names /\ Existing(others) \in SUBSET Names
    BY DEF Existing
  <1>5. Existing(others) = Existing(refs)
    <2>1. Cardinality(Counted(refs)) \in Nat /\ MaxRefs \in Nat
      BY <1>1, <1>4, FiniteHistory, FS_Subset, FS_CardinalityType, TopologyAssumption
    <2>2. Cardinality(First(Existing(others), RefOrder, MaxRefs + 1)) < MaxRefs + 1
      BY <1>1, <1>2, <2>1 DEF Counted, Existing
    <2>3. MaxRefs + 1 \in Nat
      BY <2>1
    <2>4. First(Existing(others), RefOrder, MaxRefs + 1) = Existing(others)
      BY <1>4, <2>2, <2>3, FirstWhole
    <2>5. QED
      BY <1>1, <1>2, <2>4 DEF Counted, Existing
  <1>6. ASSUME NEW n \in Names PROVE others[n] = refs[n]
    <2>1. CASE n \in Existing(refs)
      BY <1>1, <1>3, <2>1
    <2>2. CASE n \notin Existing(refs)
      BY <1>5, <2>2 DEF Existing
    <2>3. QED
      BY <2>1, <2>2
  <1>7. QED
    BY <1>6

\* A complete graph is the whole history of every reference and of the head.
LEMMA CompleteHolds ==
    ASSUME NEW r \in Repos, NEW g, g = Collected(r.refs, r.head), g.complete
    PROVE  /\ g.commits = UNION {Reached(Parents, c) : c \in ({r.head} \cup Range(r.refs)) \cap Commits}
           /\ \A n \in Names : r.refs[n] \in Commits => n \in DOMAIN g.shown /\ g.shown[n] = r.refs[n]
           /\ Tips(r.refs, r.head) # {} => shallow = {}
  <1>1. r.refs \in [Names -> RefTargets] /\ r.head \in HeadOids
    BY DEF Repos
  <1>2. Cardinality(RevList(r.refs, r.head)) <= MaxCommits /\ Omitted(r.refs) = {}
        /\ (Tips(r.refs, r.head) # {} => shallow = {})
    BY <1>1, CollectedIs
  <1>3. Displayed(r.refs) = Existing(r.refs) /\ Displayed(r.refs) = Listed(r.refs)
    <2>1. PICK refs \in [Names -> RefTargets] : refs = r.refs
      BY <1>1
    <2>2. PICK tip \in HeadOids : tip = r.head
      BY <1>1
    <2>3. Collected(refs, tip).complete
      BY <2>1, <2>2
    <2>4. QED
      BY <1>1, <1>2, <2>1, <2>3, CompleteCounts, TipsTyped DEF Omitted
  <1>10. \A n \in Names : r.refs[n] \in Commits => n \in Displayed(r.refs)
    BY <1>3, TopologyAssumption DEF Existing
  <1>4. Tips(r.refs, r.head) = ({r.head} \cup Range(r.refs)) \cap Commits
    BY <1>1, <1>10, TipsTyped DEF Tips, Range
  <1>5. g.commits = RevList(r.refs, r.head)
    <2>1. PICK refs \in [Names -> RefTargets] : refs = r.refs
      BY <1>1
    <2>2. PICK tip \in HeadOids : tip = r.head
      BY <1>1
    <2>3. g = Collected(refs, tip) /\ Cardinality(RevList(refs, tip)) <= MaxCommits
      BY <1>2, <2>1, <2>2
    <2>4. g.commits = RevList(refs, tip)
      BY <2>3, CollectedIs
    <2>5. QED
      BY <2>1, <2>2, <2>4
  <1>6. RevList(r.refs, r.head) = UNION {Reached(Parents, c) : c \in Tips(r.refs, r.head)}
    <2>1. CASE Tips(r.refs, r.head) = {}
      BY <2>1 DEF RevList
    <2>2. CASE Tips(r.refs, r.head) # {}
      <3>1. GitParents = Parents
        BY <1>2, <2>2, Shown
      <3>2. QED
        BY <3>1 DEF RevList
    <2>3. QED
      BY <2>1, <2>2
  <1>7. g.shown = [m \in Displayed(r.refs) |-> r.refs[m]]
    BY <1>1, CollectedIs
  <1>8. \A n \in Names : r.refs[n] \in Commits => n \in DOMAIN g.shown /\ g.shown[n] = r.refs[n]
    BY <1>7, <1>10
  <1>9. QED
    BY <1>2, <1>4, <1>5, <1>6, <1>8

LEMMA ProtectsShown ==
    ASSUME NEW r \in Repos, NEW g, g = Collected(r.refs, r.head), g.complete,
           NEW n \in Names, Protects(n, r)
    PROVE  n \in DOMAIN g.shown /\ Reaches(g, g.shown[n], r.head)
  <1>1. r.refs \in [Names -> RefTargets] /\ r.head \in HeadOids
    BY DEF Repos
  <1>2. PICK c \in Commits : c = r.refs[n]
    BY DEF Protects
  <1>3. r.head \in Reached(Parents, c)
    BY <1>2 DEF Protects
  <1>4. n \in DOMAIN g.shown /\ g.shown[n] = c
    BY <1>2, CompleteHolds
  <1>5. c \in ({r.head} \cup Range(r.refs)) \cap Commits
    BY <1>1, <1>2 DEF Range
  <1>6. Reached(Parents, c) \subseteq g.commits
    BY <1>5, CompleteHolds
  <1>7. g.commits \in SUBSET Commits
    <2>1. PICK refs \in [Names -> RefTargets] : refs = r.refs
      BY <1>1
    <2>2. PICK tip \in HeadOids : tip = r.head
      BY <1>1
    <2>3. g = Collected(refs, tip)
      BY <2>1, <2>2
    <2>4. g.commits \in SUBSET RevList(refs, tip)
      BY <2>3, CollectedIs
    <2>5. QED
      BY <2>4, TipsTyped
  <1>8. Tips(r.refs, r.head) # {}
    <2>1. n \in Displayed(r.refs)
      <3>1. g.shown = [m \in Displayed(r.refs) |-> r.refs[m]]
        BY <1>1, CollectedIs
      <3>2. QED
        BY <1>4, <3>1
    <2>2. QED
      BY <1>1, <2>1, TipsTyped
  <1>9. GitParents = Parents
    BY <1>8, CompleteHolds, Shown
  <1>10. PICK W : W = GraphWalk(g)
    OBVIOUS
  <1>11. W \in Histories /\ (\A x \in Commits : W[x] \subseteq Parents[x])
         /\ (\A x \in g.commits : W[x] = Parents[x])
    BY <1>7, <1>9, <1>10, WalkShown
  <1>12. Parents \in Histories
    BY Shown
  <1>13. Reached(W, c) \subseteq Reached(Parents, c)
    BY <1>11, <1>12, ReachedLess
  <1>14. Reached(W, c) = Reached(Parents, c)
    BY <1>6, <1>7, <1>11, <1>12, <1>13, ReachedInside
  <1>15. Reaches(g, c, r.head) <=> r.head \in Reached(W, c)
    BY <1>10 DEF Reaches, GraphWalk
  <1>16. QED
    BY <1>3, <1>4, <1>14, <1>15

LEMMA SaysTrue ==
    ASSUME NEW r \in Repos, NEW g, g = Collected(r.refs, r.head)
    PROVE  /\ HeadCoverage(g, r.head) = "protected" => \E n \in Names : Protects(n, r)
           /\ HeadCoverage(g, r.head) = "unprotected" => ~\E n \in Names : Protects(n, r)
           /\ Upstream(g, r.head) = "published" =>
                 \E n \in Names : Kind[n] = "remote" /\ Protects(n, r)
  <1>1. \A n \in DOMAIN g.shown : n \in Names /\ (Reaches(g, g.shown[n], r.head) => Protects(n, r))
    BY ShownProtects
  <1>2. ASSUME HeadCoverage(g, r.head) = "protected" PROVE \E n \in Names : Protects(n, r)
    BY <1>1, <1>2 DEF HeadCoverage
  <1>3. ASSUME HeadCoverage(g, r.head) = "unprotected", NEW n \in Names, Protects(n, r) PROVE FALSE
    <2>1. g.complete /\ ~\E m \in DOMAIN g.shown : Reaches(g, g.shown[m], r.head)
      BY <1>3 DEF HeadCoverage
    <2>2. n \in DOMAIN g.shown /\ Reaches(g, g.shown[n], r.head)
      BY <1>3, <2>1, ProtectsShown
    <2>3. QED
      BY <2>1, <2>2
  <1>4. ASSUME Upstream(g, r.head) = "published"
        PROVE  \E n \in Names : Kind[n] = "remote" /\ Protects(n, r)
    BY <1>1, <1>4 DEF Upstream
  <1>5. QED
    BY <1>2, <1>3, <1>4

-----------------------------------------------------------------------------
(* One collection: the repository moves at most once between the two keys, so *)
(* whatever was read agrees with the closing key when the keys agree.         *)

Fits(refs) ==
    /\ refs \in [Names -> RefTargets]
    /\ shallow = {} /\ Keyed(repo.refs) = scan.key.refs => Keyed(refs) = Keyed(repo.refs)

ReadInto(graph, r) ==
    /\ graph = [asOf |-> r, body |-> Collected(r.refs, scan.head)]
    /\ Fits(r.refs)
    /\ repo.head = scan.head => r.head = scan.head

TopologyTyped == repo \in Repos /\ shallow \in SUBSET Commits

HeadScanned ==
    scan.pc \in {"key", "read"} =>
        scan.head \in HeadOids /\ (~disturbed => repo.head = scan.head)

KeyTaken ==
    scan.pc = "read" =>
        /\ shallow = {} /\ ~disturbed => Keyed(repo.refs) = scan.key.refs
        /\ scan.graph = Gone \/ \E r \in Repos : ReadInto(scan.graph, r)
        /\ scan.related = Gone \/ Fits(scan.related)

TopologyInv == TopologyTyped /\ HeadScanned /\ KeyTaken /\ TopologyHonest

LEMMA CollectedStays ==
    ASSUME shallow' = shallow, NEW refs, NEW tip
    PROVE  Collected(refs, tip)' = Collected(refs, tip)
  <1>1. GitParents' = GitParents
    BY DEF GitParents
  <1>2. RevList(refs, tip)' = RevList(refs, tip)
    BY <1>1 DEF RevList
  <1>3. QED
    BY <1>1, <1>2 DEF Collected

LEMMA StartsWhole == TopologyInit => TopologyInv
  BY DEF TopologyInit, TopologyInv, TopologyTyped, HeadScanned, KeyTaken, TopologyHonest, Repos

\* The map that is published.
LEMMA PublishedHonest ==
    ASSUME TopologyInv, Publish
    PROVE  TopologyHonest'
  <1>1. PICK n : /\ n \in 0 .. Cardinality(scan.graph.body.commits)
                 /\ chart' = [asOf |-> scan.graph.asOf, head |-> scan.head, related |-> scan.related,
                              coverage |-> HeadCoverage(scan.graph.body, scan.head),
                              upstream |-> Upstream(scan.graph.body, scan.head),
                              graph |-> Within(scan.graph.body, scan.head, n)]
    BY DEF Publish
  <1>2. /\ scan.pc = "read" /\ scan.graph # Gone /\ scan.related # Gone
        /\ repo.head = scan.head /\ Key(repo.head) = scan.key /\ shallow' = shallow
    BY DEF Publish, Read, UnchangedSince
  <1>3. PICK r \in Repos : ReadInto(scan.graph, r)
    BY <1>2 DEF TopologyInv, KeyTaken
  <1>4. PICK g : g = Collected(r.refs, r.head)
    OBVIOUS
  <1>5. scan.graph.asOf = r /\ scan.graph.body = g /\ r.head = scan.head /\ Fits(r.refs)
    BY <1>2, <1>3, <1>4 DEF ReadInto
  <1>6. shallow = {} => scan.key.refs = Keyed(repo.refs)
    BY <1>2 DEF Key
  <1>7. /\ scan.related \in [Names -> RefTargets]
        /\ shallow = {} => Keyed(scan.related) = Keyed(r.refs)
    BY <1>2, <1>5, <1>6 DEF TopologyInv, KeyTaken, Fits
  <1>8. PICK k : k = Within(g, r.head, n)
    OBVIOUS
  <1>9. /\ chart'.asOf = r /\ chart'.head = r.head /\ chart'.related = scan.related
        /\ chart'.coverage = HeadCoverage(g, r.head) /\ chart'.upstream = Upstream(g, r.head)
        /\ chart'.graph = k
    BY <1>1, <1>5, <1>8
  <1>10. n \in Nat
    BY <1>1
  <1>11. r.refs \in [Names -> RefTargets] /\ r.head \in HeadOids
    BY DEF Repos
  <1>12. /\ \A e \in k.edges : e.to \in k.commits /\ Meets(k, e.from)
         /\ \A x \in Range(k.shown) \cup ({r.head} \cap Commits) : Meets(k, x)
         /\ k.complete => k = g
    BY <1>4, <1>8, <1>10, <1>11, WithinIs
  <1>13. CoverageTrue'
    <2>1. /\ chart'.coverage = "protected" => \E m \in Names : Protects(m, r)
          /\ chart'.coverage = "unprotected" => ~\E m \in Names : Protects(m, r)
          /\ chart'.upstream = "published" => \E m \in Names : Kind[m] = "remote" /\ Protects(m, r)
      BY <1>4, <1>9, SaysTrue
    <2>2. QED
      BY <1>9, <2>1 DEF CoverageTrue
  <1>14. NothingLoose'
    <2>1. \A x : Meets(k, x) => x \in k.commits \cup {b.oid : b \in k.boundaries}
      BY DEF Meets
    <2>2. QED
      BY <1>9, <1>12, <2>1 DEF NothingLoose
  <1>15. CompleteIsWhole'
    <2>1. ASSUME k.complete
          PROVE  k.commits = UNION {Reached(Parents, c) : c \in ({r.head} \cup Range(r.refs)) \cap Commits}
      BY <1>4, <1>12, <2>1, CompleteHolds
    <2>2. QED
      BY <1>9, <2>1 DEF CompleteIsWhole
  <1>16. shallow' = {} => /\ Keyed(chart'.related) = Keyed(chart'.asOf.refs)
                          /\ chart'.graph.complete => chart'.related = chart'.asOf.refs
    <2>1. ASSUME shallow = {}, k.complete PROVE scan.related = r.refs
      <3>1. PICK refs \in [Names -> RefTargets] : refs = r.refs
        BY <1>11
      <3>2. PICK tip \in HeadOids : tip = r.head
        BY <1>11
      <3>3. Collected(refs, tip).complete
        BY <1>4, <1>12, <2>1, <3>1, <3>2
      <3>4. PICK others \in [Names -> RefTargets] : others = scan.related
        BY <1>7
      <3>5. Keyed(others) = Keyed(refs)
        BY <1>7, <2>1, <3>1, <3>4
      <3>6. QED
        BY <3>1, <3>3, <3>4, <3>5, KeyedWhole
    <2>2. QED
      BY <1>2, <1>7, <1>9, <2>1
  <1>17. QED
    BY <1>13, <1>14, <1>15, <1>16 DEF TopologyHonest

\* What moves neither the map nor the shallow commits.
LEMMA HonestStays ==
    ASSUME TopologyHonest, UNCHANGED <<shallow, chart>>
    PROVE  TopologyHonest'
  BY DEF TopologyHonest, CoverageTrue, NothingLoose, CompleteIsWhole

\* The reads of a collection while neither the repository nor the key moves.
LEMMA ReadStays ==
    ASSUME UNCHANGED <<repo, shallow>>, scan'.head = scan.head, scan'.key = scan.key
    PROVE  /\ \A refs : Fits(refs) => Fits(refs)'
           /\ \A graph, r : ReadInto(graph, r) => ReadInto(graph, r)'
  <1>1. \A refs : Fits(refs) => Fits(refs)'
    BY DEF Fits
  <1>2. ASSUME NEW graph, NEW r, ReadInto(graph, r) PROVE ReadInto(graph, r)'
    <2>1. PICK h : h = scan.head
      OBVIOUS
    <2>2. Collected(r.refs, h)' = Collected(r.refs, h)
      BY CollectedStays
    <2>3. graph = [asOf |-> r, body |-> Collected(r.refs, h)]'
      BY <1>2, <2>1, <2>2 DEF ReadInto
    <2>4. QED
      BY <1>1, <1>2, <2>1, <2>3 DEF ReadInto
  <1>3. QED
    BY <1>1, <1>2

\* The move of another process, of which there is one between the keys.
LEMMA MoveKeeps ==
    ASSUME TopologyInv, NEW now \in Repos, MoveRepository(now)
    PROVE  TopologyInv'
  <1>1. /\ repo' = now /\ disturbed' = TRUE /\ ~disturbed /\ UNCHANGED <<shallow, scan, chart>>
        /\ scan.pc \in {"key", "read"}
    BY DEF MoveRepository
  <1>2. TopologyTyped' /\ HeadScanned'
    BY <1>1 DEF TopologyInv, TopologyTyped, HeadScanned
  <1>3. KeyTaken'
    <2>1. SUFFICES ASSUME scan.pc = "read" PROVE KeyTaken'
      BY <1>1 DEF KeyTaken
    <2>2. (shallow = {} => Keyed(repo.refs) = scan.key.refs) /\ repo.head = scan.head
      BY <1>1, <2>1 DEF TopologyInv, HeadScanned, KeyTaken
    <2>3. ASSUME NEW refs, Fits(refs) PROVE Fits(refs)'
      BY <1>1, <2>2, <2>3 DEF Fits
    <2>4. ASSUME NEW r, ReadInto(scan.graph, r) PROVE ReadInto(scan.graph, r)'
      <3>1. PICK h : h = scan.head
        OBVIOUS
      <3>2. Collected(r.refs, h)' = Collected(r.refs, h)
        BY <1>1, CollectedStays
      <3>3. scan.graph = [asOf |-> r, body |-> Collected(r.refs, h)]
        BY <2>4, <3>1 DEF ReadInto
      <3>4. scan'.graph = [asOf |-> r, body |-> Collected(r.refs, h)']
        BY <1>1, <3>2, <3>3
      <3>5. r.head = scan.head
        BY <2>2, <2>4 DEF ReadInto
      <3>6. Fits(r.refs)'
        BY <2>3, <2>4 DEF ReadInto
      <3>7. QED
        BY <1>1, <3>1, <3>4, <3>5, <3>6 DEF ReadInto
    <2>5. scan.graph = Gone \/ \E r \in Repos : ReadInto(scan.graph, r)
      BY <2>1 DEF TopologyInv, KeyTaken
    <2>6. scan.related = Gone \/ Fits(scan.related)
      BY <2>1 DEF TopologyInv, KeyTaken
    <2>7. (scan.graph = Gone \/ \E r \in Repos : ReadInto(scan.graph, r))'
      BY <1>1, <2>4, <2>5
    <2>8. (scan.related = Gone \/ Fits(scan.related))'
      <3>1. PICK related : related = scan.related
        OBVIOUS
      <3>2. QED
        BY <1>1, <2>3, <2>6, <3>1 DEF Fits
    <2>9. QED
      BY <1>1, <2>7, <2>8 DEF KeyTaken
  <1>4. TopologyHonest'
    BY <1>1, HonestStays DEF TopologyInv
  <1>5. QED
    BY <1>2, <1>3, <1>4 DEF TopologyInv

LEMMA TopologyKeeps ==
    ASSUME TopologyInv, [TopologyNext]_topologyVars
    PROVE  TopologyInv'
  <1> USE DEF TopologyInv
  <1>1. CASE ScanWorktrees
    <2>1. /\ scan'.pc = "key" /\ scan'.head = repo.head /\ disturbed' = FALSE
          /\ UNCHANGED <<repo, shallow, chart>>
      BY <1>1 DEF ScanWorktrees
    <2>2. TopologyTyped' /\ HeadScanned' /\ KeyTaken'
      BY <2>1 DEF TopologyTyped, Repos, HeadScanned, KeyTaken
    <2>3. QED
      BY <2>1, <2>2, HonestStays
  <1>2. CASE OpeningKey
    <2>1. /\ scan.pc = "key" /\ scan'.pc = "read" /\ scan'.head = scan.head
          /\ scan'.key = Key(scan.head) /\ scan'.graph = Gone /\ scan'.related = Gone
          /\ UNCHANGED <<repo, shallow, chart, disturbed>>
      BY <1>2 DEF OpeningKey
    <2>2. shallow = {} => scan'.key.refs = Keyed(repo.refs)
      BY <2>1 DEF Key
    <2>3. TopologyTyped' /\ HeadScanned' /\ KeyTaken'
      BY <2>1, <2>2 DEF TopologyTyped, HeadScanned, KeyTaken
    <2>4. QED
      BY <2>1, <2>3, HonestStays
  <1>3. CASE ReadTopology
    <2>1. /\ scan.pc = "read"
          /\ scan' = [scan EXCEPT !.graph = [asOf |-> repo, body |-> Collected(repo.refs, scan.head)]]
          /\ UNCHANGED <<repo, shallow, chart, disturbed>>
      BY <1>3 DEF ReadTopology
    <2>2. /\ scan'.pc = "read" /\ scan'.head = scan.head /\ scan'.key = scan.key
          /\ scan'.related = scan.related
          /\ scan'.graph = [asOf |-> repo, body |-> Collected(repo.refs, scan.head)]
      BY <2>1
    <2>3. PICK r \in Repos : r = repo
      BY DEF TopologyTyped
    <2>4. PICK h : h = scan.head
      OBVIOUS
    <2>5. Collected(r.refs, h)' = Collected(r.refs, h)
      BY <2>1, CollectedStays
    <2>6. ReadInto(scan.graph, r)'
      BY <2>1, <2>2, <2>3, <2>4, <2>5 DEF ReadInto, Fits, Repos
    <2>7. (scan.related = Gone \/ Fits(scan.related))'
      BY <2>1, <2>2 DEF KeyTaken, Fits
    <2>8. (\E q \in Repos : ReadInto(scan.graph, q))'
      BY <2>6
    <2>9. KeyTaken'
      BY <2>1, <2>2, <2>7, <2>8 DEF KeyTaken
    <2>10. TopologyTyped' /\ HeadScanned'
      BY <2>1, <2>2 DEF TopologyTyped, HeadScanned
    <2>11. QED
      BY <2>1, <2>9, <2>10, HonestStays
  <1>4. CASE ReadRelationships
    <2>1. /\ scan.pc = "read" /\ scan' = [scan EXCEPT !.related = repo.refs]
          /\ UNCHANGED <<repo, shallow, chart, disturbed>>
      BY <1>4 DEF ReadRelationships
    <2>2. /\ scan'.pc = "read" /\ scan'.head = scan.head /\ scan'.key = scan.key
          /\ scan'.related = repo.refs /\ scan'.graph = scan.graph
      BY <2>1
    <2>3. Fits(scan.related)'
      BY <2>1, <2>2 DEF Fits, TopologyTyped, Repos
    <2>4. (scan.graph = Gone \/ \E r \in Repos : ReadInto(scan.graph, r))'
      <3>1. CASE scan.graph = Gone
        BY <2>2, <3>1
      <3>2. CASE scan.graph # Gone
        <4>1. PICK graph : graph = scan.graph
          OBVIOUS
        <4>2. PICK r \in Repos : ReadInto(graph, r)
          BY <2>1, <3>2, <4>1 DEF KeyTaken
        <4>3. ReadInto(graph, r)'
          BY <2>1, <2>2, <4>2, ReadStays
        <4>4. ReadInto(scan.graph, r)'
          BY <2>2, <4>1, <4>3 DEF ReadInto
        <4>5. QED
          BY <4>4
      <3>3. QED
        BY <3>1, <3>2
    <2>5. KeyTaken'
      BY <2>1, <2>2, <2>3, <2>4 DEF KeyTaken
    <2>6. TopologyTyped' /\ HeadScanned'
      BY <2>1, <2>2 DEF TopologyTyped, HeadScanned
    <2>7. QED
      BY <2>1, <2>5, <2>6, HonestStays
  <1>5. CASE Publish
    <2>1. scan'.pc = "done" /\ UNCHANGED <<repo, shallow>>
      BY <1>5 DEF Publish
    <2>2. TopologyTyped' /\ HeadScanned' /\ KeyTaken'
      BY <2>1 DEF TopologyTyped, HeadScanned, KeyTaken
    <2>3. QED
      BY <1>5, <2>2, PublishedHonest
  <1>6. CASE Changed
    <2>1. scan'.pc \in {"done", "rest"} /\ UNCHANGED <<repo, shallow, chart>>
      BY <1>6 DEF Changed
    <2>2. TopologyTyped' /\ HeadScanned' /\ KeyTaken'
      BY <2>1 DEF TopologyTyped, HeadScanned, KeyTaken
    <2>3. QED
      BY <2>1, <2>2, HonestStays
  <1>7. ASSUME NEW n \in Names, NEW t \in RefTargets, MoveRepository([repo EXCEPT !.refs[n] = t])
        PROVE  TopologyInv'
    <2>1. PICK now : now = [repo EXCEPT !.refs[n] = t]
      OBVIOUS
    <2>2. now \in Repos
      BY <2>1 DEF TopologyTyped, Repos
    <2>3. QED
      BY <1>7, <2>1, <2>2, MoveKeeps
  <1>8. ASSUME NEW h \in HeadOids, MoveRepository([repo EXCEPT !.head = h])
        PROVE  TopologyInv'
    <2>1. PICK now : now = [repo EXCEPT !.head = h]
      OBVIOUS
    <2>2. now \in Repos
      BY <2>1 DEF TopologyTyped, Repos
    <2>3. QED
      BY <1>8, <2>1, <2>2, MoveKeeps
  <1>9. CASE UNCHANGED topologyVars
    <2>1. UNCHANGED <<repo, shallow, scan, chart, disturbed>>
      BY <1>9 DEF topologyVars
    <2>2. TopologyTyped' /\ HeadScanned'
      BY <2>1 DEF TopologyTyped, HeadScanned
    <2>3. KeyTaken'
      <3>1. PICK graph : graph = scan.graph
        OBVIOUS
      <3>2. PICK related : related = scan.related
        OBVIOUS
      <3>3. \A r : ReadInto(graph, r) => ReadInto(graph, r)'
        BY <2>1, ReadStays
      <3>4. Fits(related) => Fits(related)'
        BY <2>1, ReadStays
      <3>5. scan.pc = "read" => (graph = Gone \/ \E r \in Repos : ReadInto(graph, r)')
        BY <3>1, <3>3 DEF KeyTaken
      <3>6. scan.pc = "read" => (scan.graph = Gone \/ \E r \in Repos : ReadInto(scan.graph, r))'
        BY <2>1, <3>1, <3>5 DEF ReadInto
      <3>7. scan.pc = "read" => (scan.related = Gone \/ Fits(scan.related))'
        BY <2>1 DEF KeyTaken, Fits
      <3>8. QED
        BY <2>1, <3>6, <3>7 DEF KeyTaken
    <2>4. QED
      BY <2>1, <2>2, <2>3, HonestStays
  <1>10. QED
    BY <1>1, <1>2, <1>3, <1>4, <1>5, <1>6, <1>7, <1>8, <1>9 DEF TopologyNext

\* The map shows the history as it was at one instant: what it says of the head
\* is true of it, nothing hangs in the air, complete means complete, and graph
\* and relationships agree on what the keys hold, for any history, references,
\* limits and move of the repository
\* (GitTopologyCollector.scan, DockProjectionContext.collect, bound_model).
THEOREM TopologyIsHonest == TopologySpec => []TopologyHonest
  <1>1. TopologyInv => TopologyHonest
    BY DEF TopologyInv
  <1>2. QED
    BY StartsWhole, TopologyKeeps, <1>1, PTL DEF TopologySpec

=============================================================================
