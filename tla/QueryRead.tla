----------------------------- MODULE QueryRead ------------------------------
(* One query of the repository owner: runtime/query_validation.rs,           *)
(* application.rs, store/snapshot.rs and store/origin_observation/.          *)
(*                                                                           *)
(* An answer is put together from four readings of a world that goes on      *)
(* changing: the rows of the store, the registered worktrees, the Git        *)
(* configuration with its refs, and Git facts collected earlier.  Each is    *)
(* cached with the evidence it was read under.  A query takes one of four    *)
(* paths: epoch (a proof leased from the reader, checked before and after),  *)
(* verified (the client's source is proven, the reader checks for itself),   *)
(* cold (the source is proven first) and fallback (nothing is reused but the *)
(* Git facts).                                                               *)
EXTENDS Integers

CONSTANTS Clients,    \* source worktrees that ask
          None,
          MaxEdits    \* bound: changes of the world

VARIABLES world,    \* what is read: see WorldInit; counters stand for contents
          reader,   \* InputReader: open store, cached rows, version, proof, fingerprint
          app,      \* RepositoryApplication: home worktree, Git facts, dirty, aged
          sources,  \* QueryValidation: per client, the configuration it was proven under
          query     \* the query being answered

queryVars == <<world, reader, app, sources, query>>

Closed == [open |-> FALSE, cached |-> None, version |-> None, proof |-> None, fp |-> None]
Idle == [pc |-> "rest"]

WorldInit ==
    \E s \in {"files", "shadow", "active"} :
        world = [store |-> s, rows |-> 0, frozen |-> 0, version |-> 0,
                 trees |-> 0, conf |-> 0, gone |-> {}, edits |-> 0]

QueryInit ==
    /\ WorldInit
    /\ reader = Closed
    /\ app = [home |-> None, git |-> None, dirty |-> TRUE, aged |-> FALSE, fp |-> None]
    /\ sources = [c \in Clients |-> None]
    /\ query = Idle

\* Targets of the route plans among the rows; some writes change them.
Targets(rows) == rows % 2

---------------------------------------------------------------------------
(* The world: a write, a commit of something else, a worktree added or       *)
(* removed, a ref or a configuration, the activation of the database.        *)

Edit(w) ==
    /\ world.edits < MaxEdits
    /\ world' = [w EXCEPT !.edits = @ + 1]
    /\ UNCHANGED <<reader, app, sources, query>>

WriteRows == Edit([world EXCEPT !.rows = @ + 1, !.version = @ + 1])
WriteOther == Edit([world EXCEPT !.version = @ + 1])
AddWorktree == Edit([world EXCEPT !.trees = @ + 1])
MoveRef == Edit([world EXCEPT !.conf = @ + 1])
RemoveWorktree(c) ==
    c \notin world.gone /\ Edit([world EXCEPT !.trees = @ + 1, !.gone = @ \cup {c}])
CreateStore == world.store = "files" /\ Edit([world EXCEPT !.store = "shadow"])
Activate ==
    world.store = "shadow" /\ Edit([world EXCEPT !.store = "active", !.frozen = world.rows])

WorldNext ==
    \/ WriteRows \/ WriteOther \/ AddWorktree \/ MoveRef \/ CreateStore \/ Activate
    \/ \E c \in Clients : RemoveWorktree(c)

\* The Git facts reach their greatest age.
Age ==
    /\ app.git # None /\ ~app.aged
    /\ app' = [app EXCEPT !.aged = TRUE]
    /\ UNCHANGED <<world, reader, sources, query>>

---------------------------------------------------------------------------
\* InputReader.invalidate; an outstanding lease is revoked with it.
Discarded(a) == [a EXCEPT !.git = None, !.dirty = TRUE, !.fp = None]

\* QueryAttemptGuard: a lease that is not handed back costs every cache.
DiscardCaches == reader' = Closed /\ app' = Discarded(app)

Goto(pc) == query' = [query EXCEPT !.pc = pc]
Take(path, pc) == query' = [query EXCEPT !.path = path, !.pc = pc]

\* The query ends in an error; a failing read forgets its proof, one that saw
\* the backend switch twice everything.
Fail ==
    /\ query' = Idle
    /\ IF query.path = "epoch" THEN DiscardCaches
       ELSE /\ reader' = CASE query.pc = "reprobe" -> Closed
                           [] query.pc = "recheck" -> [reader EXCEPT !.proof = None]
                           [] OTHER -> reader
            /\ UNCHANGED app
    /\ UNCHANGED <<world, sources>>

\* A source that no longer holds is forgotten and proven anew.
DropSource == sources' = [sources EXCEPT ![query.client] = None]

SourceGone == query.client \in world.gone
HomeGone == app.home \in world.gone

\* take_query_epoch: rows are cached, and the proof was made under the very
\* configuration this client was proven under.
Leasable(c) ==
    /\ app.home = c /\ reader.open /\ reader.cached # None
    /\ reader.proof # None /\ reader.proof.conf = sources[c]

Begin(c) ==
    /\ query = Idle /\ c \notin world.gone
    /\ LET q == [pc |-> "capture", client |-> c, path |-> "cold", conf |-> sources[c],
                 start |-> [rows |-> world.rows, trees |-> world.trees, conf |-> world.conf],
                 lease |-> None, tries |-> 0, rows |-> 0, version |-> 0, trees |-> None, evidence |-> None]
       IN IF sources[c] = None THEN query' = q /\ UNCHANGED reader
          ELSE IF Leasable(c)
          THEN /\ query' = [q EXCEPT !.pc = "opening", !.path = "epoch", !.lease = reader.proof]
               /\ reader' = [reader EXCEPT !.proof = None]
          ELSE query' = [q EXCEPT !.pc = "validate", !.path = "verified"] /\ UNCHANGED reader
    /\ UNCHANGED <<world, app, sources>>

SourceValid == query.conf = world.conf

\* FAULT: the evidence alone decides, the configuration is not read again.
FaultOriginValid == query.lease.evidence = world.trees

\* query_boundary: the origin proof was made under the source's configuration
\* (Leasable), and rests on its own evidence besides.
OriginValid == SourceValid /\ query.lease.evidence = world.trees

Opening ==
    /\ query.pc = "opening"
    /\ IF ~SourceValid
       THEN DiscardCaches /\ DropSource /\ Take("cold", "capture")
       ELSE IF ~OriginValid \/ HomeGone
       THEN DiscardCaches /\ Take("verified", "validate") /\ UNCHANGED sources
       ELSE Goto("anchor") /\ UNCHANGED <<reader, app, sources>>
    /\ UNCHANGED world

\* proof.valid before the projection.
Validate ==
    /\ query.pc = "validate" /\ ~SourceGone
    /\ IF SourceValid THEN Goto("anchor") /\ UNCHANGED sources
                      ELSE DropSource /\ Take("cold", "capture")
    /\ UNCHANGED <<world, reader, app>>

\* Cold: the configuration is a candidate until Git has inspected the source
\* and the candidate still holds; otherwise nothing proves the source.
Capture ==
    /\ query.pc = "capture"
    /\ \E conf \in {world.conf, None} :
        query' = [query EXCEPT !.pc = "inspect", !.conf = conf]
    /\ UNCHANGED <<world, reader, app, sources>>

Inspect ==
    /\ query.pc = "inspect" /\ ~SourceGone
    /\ app' = [app EXCEPT !.home = IF @ = None THEN query.client ELSE @]
    /\ Take(IF SourceValid THEN "cold" ELSE "fallback", "anchor")
    /\ UNCHANGED <<world, reader, sources>>

\* The application's own worktree may have gone: it moves to the client's.
Anchor ==
    /\ query.pc = "anchor" /\ ~SourceGone
    /\ HomeGone => query.path # "epoch"
    /\ IF HomeGone
       THEN /\ app' = [Discarded(app) EXCEPT !.home = query.client, !.fp = app.fp]
            /\ reader' = Closed
       ELSE UNCHANGED <<reader, app>>
    /\ Goto("read")
    /\ UNCHANGED <<world, sources>>

---------------------------------------------------------------------------
(* InputReader: the rows are pinned by a transaction; the version of the     *)
(* connection says whether the cached ones are still those.                  *)

Pin ==
    /\ query.pc = "read"
    /\ LET cached == IF reader.version = world.version THEN reader.cached ELSE None
       IN /\ reader' = [reader EXCEPT !.open = @ \/ world.store # "files", !.cached = cached]
          /\ query' = [query EXCEPT !.rows = IF cached = None THEN world.rows ELSE cached,
                              !.version = world.version,
                              !.pc = IF world.store = "active" THEN "origins" ELSE "legacy"]
    /\ UNCHANGED <<world, app, sources>>

\* Files are read without a transaction, and belong to the store only if it
\* was not switched meanwhile: one more attempt, and then an error.
ReadLegacy ==
    /\ query.pc = "legacy"
    /\ query' = [query EXCEPT !.pc = "reprobe",
            !.rows = IF world.store = "active" THEN world.frozen ELSE world.rows]
    /\ UNCHANGED <<world, reader, app, sources>>

Switched == world.store = "active" \/ (world.store # "files" /\ ~reader.open)

Reprobe ==
    /\ query.pc = "reprobe"
    /\ IF Switched
       THEN /\ query.tries = 0
            /\ reader' = Closed
            /\ query' = [query EXCEPT !.pc = "read", !.tries = 1]
       ELSE Goto("collect") /\ UNCHANGED reader
    /\ UNCHANGED <<world, app, sources>>

ProofValid == reader.proof.evidence = world.trees /\ reader.proof.conf = world.conf

\* The worktrees: from the lease, from the reader's own proof if it still
\* holds, or enumerated anew, between two captures of the evidence.
Origins ==
    /\ query.pc = "origins"
    /\ IF query.path = "epoch"
       THEN query' = [query EXCEPT !.pc = "close", !.trees = query.lease.origins] /\ UNCHANGED reader
       ELSE IF reader.proof # None /\ ProofValid
       THEN query' = [query EXCEPT !.pc = "recheck", !.trees = reader.proof.origins] /\ UNCHANGED reader
       ELSE /\ reader' = [reader EXCEPT !.proof = None]
            /\ \/ query' = [query EXCEPT !.pc = "enumerate",
                                !.evidence = [trees |-> world.trees, conf |-> world.conf]]
               \/ query' = [query EXCEPT !.pc = "close", !.trees = world.trees]
    /\ UNCHANGED <<world, app, sources>>

Enumerate ==
    /\ query.pc = "enumerate"
    /\ query' = [query EXCEPT !.pc = "acquire", !.trees = world.trees]
    /\ UNCHANGED <<world, reader, app, sources>>

Sandwiched ==
    /\ query.evidence.trees = world.trees /\ query.trees = world.trees
    /\ query.evidence.conf = world.conf

Acquire ==
    /\ query.pc = "acquire"
    /\ IF Sandwiched
       THEN /\ reader' = [reader EXCEPT !.proof = [evidence |-> query.evidence.trees,
                            origins |-> query.trees, conf |-> query.evidence.conf]]
            /\ query' = [query EXCEPT !.pc = "recheck", !.evidence = None]
       ELSE /\ query' = [query EXCEPT !.pc = "close", !.trees = world.trees, !.evidence = None]
            /\ UNCHANGED reader
    /\ UNCHANGED <<world, app, sources>>

\* Once more after the whole observation, before anything is published.
Recheck ==
    /\ query.pc = "recheck" /\ ProofValid
    /\ Goto("close")
    /\ UNCHANGED <<world, reader, app, sources>>

\* Rows pinned before an external commit are not kept under its version.
CloseRead ==
    /\ query.pc = "close"
    /\ reader' = IF query.version = world.version
                 THEN [reader EXCEPT !.cached = query.rows, !.version = query.version,
                                     !.fp = query.trees]
                 ELSE [reader EXCEPT !.cached = None, !.version = None, !.fp = query.trees]
    /\ Goto("collect")
    /\ UNCHANGED <<world, app, sources>>

---------------------------------------------------------------------------
\* The Git facts are collected again when something calls for it.
Collectable ==
    \/ app.dirty \/ app.aged \/ app.git = None
    \/ app.fp # reader.fp
    \/ app.git # None /\ app.git.targets # Targets(query.rows)

Collect ==
    /\ query.pc = "collect"
    /\ app' = IF Collectable
              THEN [app EXCEPT !.git = [trees |-> world.trees, conf |-> world.conf,
                                        targets |-> Targets(query.rows)],
                               !.dirty = FALSE, !.aged = FALSE, !.fp = reader.fp]
              ELSE app
    /\ Goto("closing")
    /\ UNCHANGED <<world, reader, sources>>

\* Every path checks again what it relied on before the answer leaves.  Under a
\* lease any drift is an error (Refused), not a reason to try the cold path; as
\* the proof shares the source's configuration, the code's later branch for a
\* stale source is never reached.
CloseEpoch ==
    /\ query.pc = "closing" /\ query.path = "epoch"
    /\ OriginValid /\ ~HomeGone /\ ~SourceGone
    /\ reader' = [reader EXCEPT !.proof = query.lease]
    /\ Goto("answer")
    /\ UNCHANGED <<world, app, sources>>

CloseVerified ==
    /\ query.pc = "closing" /\ query.path = "verified" /\ ~SourceGone
    /\ IF SourceValid THEN Goto("answer") /\ UNCHANGED sources
                      ELSE DropSource /\ Take("cold", "capture")
    /\ UNCHANGED <<world, reader, app>>

CloseCold ==
    /\ query.pc = "closing" /\ query.path = "cold" /\ ~SourceGone
    /\ IF SourceValid
       THEN sources' = [sources EXCEPT ![query.client] = query.conf] /\ Goto("answer")
       ELSE query' = [query EXCEPT !.path = "fallback", !.pc = "anchor", !.tries = 0]
            /\ UNCHANGED sources
    /\ UNCHANGED <<world, reader, app>>

CloseFallback ==
    /\ query.pc = "closing" /\ query.path = "fallback"
    /\ Goto("answer")
    /\ UNCHANGED <<world, reader, app, sources>>

\* The connection's origin is validated once more around the whole query.
Answer ==
    /\ query.pc = "answer" /\ ~SourceGone
    /\ Goto("done")
    /\ UNCHANGED <<world, reader, app, sources>>

Finish ==
    /\ query.pc = "done"
    /\ query' = Idle
    /\ UNCHANGED <<world, reader, app, sources>>

\* Where a check of a step above does not hold, the query fails; a collection
\* fails when Git changes during both of its attempts.
Refused ==
    /\ \/ query.pc \in {"validate", "inspect", "anchor", "closing"} /\ SourceGone
       \/ query.pc \in {"anchor", "closing"} /\ query.path = "epoch" /\ HomeGone
       \/ query.pc = "reprobe" /\ Switched /\ query.tries = 1
       \/ query.pc = "recheck" /\ ~ProofValid
       \/ query.pc = "closing" /\ query.path = "epoch" /\ ~OriginValid
       \/ query.pc = "collect" /\ Collectable
    /\ Fail

\* The answer exists, but the origin is no longer the connection's.
Withheld ==
    /\ query.pc = "answer" /\ SourceGone
    /\ query' = Idle
    /\ UNCHANGED <<world, reader, app, sources>>

QueryNext ==
    \/ WorldNext \/ Age
    \/ \E c \in Clients : Begin(c)
    \/ Opening \/ Validate \/ Capture \/ Inspect \/ Anchor
    \/ Pin \/ ReadLegacy \/ Reprobe \/ Origins \/ Enumerate \/ Acquire \/ Recheck \/ CloseRead
    \/ Collect \/ CloseEpoch \/ CloseVerified \/ CloseCold \/ CloseFallback
    \/ Answer \/ Finish \/ Refused \/ Withheld

QuerySpec == QueryInit /\ [][QueryNext]_queryVars

---------------------------------------------------------------------------
(* An answer shows rows and worktrees the world had while the query was       *)
(* asked, never older cached ones, and Git facts collected no earlier than    *)
(* the worktrees it shows and for the targets it shows.  Unless nothing       *)
(* proved its source (fallback), the configuration its source was proven      *)
(* under is no older than the query and than those facts; an answer under a   *)
(* lease shows one and the same set of worktrees throughout.                  *)
(* QueryValidation.project_inner, try_project_query_boundary,                 *)
(* InputReader.read_checked_in_epoch.                                         *)
AnswersCurrent ==
    query.pc = "done" =>
        /\ query.start.rows <= query.rows /\ query.rows <= world.rows
        /\ app.git.targets = Targets(query.rows)
        /\ query.trees # None =>
            /\ query.start.trees <= query.trees /\ query.trees <= app.git.trees
            /\ query.path = "epoch" => query.trees = app.git.trees
        /\ query.path # "fallback" =>
            query.start.conf <= query.conf /\ app.git.conf <= query.conf
=============================================================================
