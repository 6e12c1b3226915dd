--------------------------- MODULE Relationships ---------------------------
(* How worktrees relate to the branches they were forked from:               *)
(* src/src/git_relationship.rs and src/src/git_relationship/shared_facts.rs. *)
(*                                                                           *)
(* One resolution runs many Git commands against a repository that moves all *)
(* the while.  It picks the targets, then computes what several worktrees at *)
(* one head have in common once, from object ids, and publishes that only if *)
(* the repository looks as before; every other worktree is asked on its own. *)
EXTENDS Integers, FiniteSets

CONSTANTS Absent,
          Commits, Parents,       \* the commit graph, which does not change
          Branches,               \* references: heads and origin/main
          Trees,                  \* the worktrees of the inventory
          Listed,                 \* per worktree: its branch, or Absent, and head
          MaxChanges, MaxFailures \* bounds

VARIABLES repo,      \* the repository: references, tagged commits, HEADs, configuration
          since,     \* history: the repository's states since the resolution began
          changes,   \* bound: how often it changed
          failures,  \* bound: commands that failed
          stopped,   \* history: a command was ended by its supervisor
          probe,     \* what the first, parallel commands answered
          targets,   \* the root and the development target and their heads
          proof,     \* the evidence of the opening and of the closing capture
          work,      \* the shared computation: groups left, tags read, results
          row,       \* per worktree: its own computation
          step       \* where the resolution is

relationVars == <<repo, since, changes, failures, stopped, probe, targets, proof, work,
                  row, step>>

Ancestors[c \in Commits] == {c} \cup UNION {Ancestors[p] : p \in Parents[c]}
Beyond(c, d) == Cardinality(Ancestors[c] \ Ancestors[d])    \* rev-list --count d..c
MergeBase(c, d) ==
    LET common == Ancestors[c] \cap Ancestors[d]
        best == {b \in common : \A x \in common \ {b} : b \notin Ancestors[x]}
    IN  IF best = {} THEN Absent ELSE CHOOSE b \in best : TRUE


\* A command reads the repository, fails, or is ended by its supervisor.
Ask(how) ==
    /\ how = "read" \/ failures < MaxFailures
    /\ failures' = IF how = "read" THEN failures ELSE failures + 1
    /\ stopped' = (stopped \/ how = "stopped")
\* optional_text: a command that fails says that there is nothing.
Optional(value, how) == IF how = "read" THEN value ELSE IF how = "failed" THEN Absent ELSE how
Answers == {"read", "failed", "stopped"}
Broken(answer) == answer \in {"failed", "stopped"}
Fails == step' = "error"

NoTags == [c \in {} |-> FALSE]
NoProof == [heads |-> Absent, refs |-> Absent, tags |-> NoTags, remote |-> Absent]
NoWork == [groups |-> {}, tags |-> NoTags, rows |-> [t \in {} |-> 0]]
Unread == [at |-> "base", base |-> Absent, tags |-> FALSE, ahead |-> 0, behind |-> 0, distance |-> 0]
Probes == {"config", "root", "dev", "develop"} \cup Trees

RelationInit ==
    /\ \E refs \in [Branches -> Commits \cup {Absent}], config \in Branches \cup {Absent} :
          /\ \A t \in Trees : Listed[t].branch # Absent => refs[Listed[t].branch] = Listed[t].head
          /\ repo = [refs |-> refs, tags |-> [c \in Commits |-> FALSE], config |-> config,
                     heads |-> [t \in Trees |-> IF Listed[t].branch = Absent THEN Listed[t].head
                                                ELSE Listed[t].branch],
                     remote |-> "origin/main", plain |-> TRUE]
    /\ since = {repo} /\ changes = 0 /\ failures = 0 /\ stopped = FALSE
    /\ probe = [p \in Probes |-> "unread"]
    /\ targets = [root |-> Absent, development |-> Absent, integration |-> [b \in {} |-> Absent]]
    /\ proof = [opening |-> NoProof, closing |-> NoProof] /\ work = NoWork
    /\ row = [t \in Trees |-> Unread] /\ step = "probes"

---------------------------------------------------------------------------
(* The first commands, all at once; the root target takes several.           *)

Exists(ref) == ref \in Branches /\ repo.refs[ref] # Absent
Answered(p, answer) == probe' = [probe EXCEPT ![p] = answer]

ReadConfiguration(how) ==
    /\ step = "probes" /\ probe.config = "unread" /\ Ask(how)
    /\ Answered("config", Optional(repo.config, how))
    /\ UNCHANGED <<repo, since, changes, targets, proof, work, row, step>>

ProbeBranch(b, how) ==
    /\ step = "probes" /\ b \in {"dev", "develop"} /\ probe[b] = "unread" /\ Ask(how)
    /\ Answered(b, IF how # "read" THEN how ELSE IF Exists(b) THEN "there" ELSE "missing")
    /\ UNCHANGED <<repo, since, changes, targets, proof, work, row, step>>

\* dirty_state: what it says of changed files is left out.
ReadStatus(t, how) ==
    /\ step = "probes" /\ probe[t] = "unread" /\ Ask(how) /\ Answered(t, how)
    /\ UNCHANGED <<repo, since, changes, targets, proof, work, row, step>>

\* select_root_target: what origin's HEAD names, else main, else master.
NextRoot(ref) == CASE ref = "main" -> "master" [] ref = "master" -> "none" [] OTHER -> "main"
ReadRemoteHead(how) ==
    /\ step = "probes" /\ probe.root = "unread" /\ Ask(how)
    /\ LET named == Optional(repo.remote, how)
       IN IF how = "stopped" THEN Answered("root", how) /\ UNCHANGED targets
          ELSE /\ Answered("root", "trying")
               /\ targets' = [targets EXCEPT !.root = IF named = Absent THEN "main" ELSE named]
    /\ UNCHANGED <<repo, since, changes, proof, work, row, step>>
ProbeRoot(how) ==
    /\ step = "probes" /\ probe.root = "trying" /\ Ask(how)
    /\ IF how # "read" THEN Answered("root", how) /\ UNCHANGED targets
       ELSE IF Exists(targets.root) THEN Answered("root", "there") /\ UNCHANGED targets
       ELSE IF NextRoot(targets.root) = "none"
            THEN Answered("root", "missing") /\ targets' = [targets EXCEPT !.root = Absent]
       ELSE UNCHANGED probe /\ targets' = [targets EXCEPT !.root = NextRoot(@)]
    /\ UNCHANGED <<repo, since, changes, proof, work, row, step>>

---------------------------------------------------------------------------
(* The targets, from what was read first; errors count where they are used.  *)

\* Prefetched answers serve dev and develop; another configured branch is asked
\* for now.
SelectDevelopment(how) ==
    LET wanted == IF probe.config \in {targets.root, "stopped"} THEN Absent ELSE probe.config
        fresh == wanted # Absent /\ wanted \notin {"dev", "develop"}
        found(b) == IF b \in {Absent, targets.root} THEN "missing"
                    ELSE IF b \in {"dev", "develop"} THEN probe[b]
                    ELSE IF how # "read" THEN how ELSE IF Exists(b) THEN "there" ELSE "missing"
        order == <<wanted, "dev", "develop">>
        hits == {n \in 1..3 : found(order[n]) # "missing"}
        first == CHOOSE n \in hits : \A k \in hits : n <= k
    IN /\ step = "probes" /\ \A p \in Probes : probe[p] \notin {"unread", "trying"}
       /\ IF fresh /\ ~Broken(probe.config) /\ ~Broken(probe.root) THEN Ask(how)
          ELSE how = "read" /\ UNCHANGED <<failures, stopped>>
       /\ IF Broken(probe.config) \/ Broken(probe.root) \/ (hits # {} /\ Broken(found(order[first])))
          THEN Fails /\ UNCHANGED targets
          ELSE /\ targets' = [targets EXCEPT !.development = IF hits = {} THEN Absent ELSE order[first]]
               /\ step' = "integration"
       /\ UNCHANGED <<repo, since, changes, probe, proof, work, row>>

\* integration_branch of the root and then of the development target.
ReadIntegration(how) ==
    LET left == {targets.root, targets.development} \ (DOMAIN targets.integration \cup {Absent})
        ref == IF targets.root \in left THEN targets.root ELSE targets.development
    IN /\ step = "integration" /\ left # {} /\ Ask(how)
       /\ IF how # "read" \/ ~Exists(ref) THEN Fails /\ UNCHANGED targets
          ELSE /\ targets' = [targets EXCEPT !.integration =
                     [b \in DOMAIN @ \cup {ref} |-> IF b = ref THEN repo.refs[ref] ELSE @[b]]]
               /\ UNCHANGED step
       /\ UNCHANGED <<repo, since, changes, probe, proof, work, row>>

ShortName(ref) == IF ref = "origin/main" THEN "main" ELSE ref
TargetOf(t) ==
    LET named(target) == Listed[t].branch # Absent /\ target # Absent /\ ShortName(target) = Listed[t].branch
    IN  IF named(targets.root) THEN Absent
        ELSE IF named(targets.development) THEN targets.root
        ELSE IF targets.development # Absent THEN targets.development ELSE targets.root
Candidates == {t \in Trees : probe[t] = "read" /\ TargetOf(t) # Absent}

\* A probe nobody used may have been ended by its supervisor: that is an error.
FaultUnusedProbes == {}
UnusedProbes == {"dev", "develop"}
TargetsSelected ==
    /\ step = "integration"
    /\ {targets.root, targets.development} \subseteq DOMAIN targets.integration \cup {Absent}
    /\ step' = IF \E p \in UnusedProbes : probe[p] = "stopped" THEN "error"
               ELSE IF \E h \in Commits : Cardinality({t \in Candidates : Listed[t].head = h}) > 1
               THEN "opening" ELSE "rows"
    /\ UNCHANGED <<repo, since, changes, failures, stopped, probe, targets, proof, work, row>>

---------------------------------------------------------------------------
(* The shared computation, between two captures of what it depends on.       *)

Decline == step' = "rows" /\ work' = NoWork
NotShared(how) == IF how = "stopped" THEN Fails /\ UNCHANGED work ELSE Decline

\* What a capture admits: a repository without grafts, alternates and further
\* backends, and configuration that changes no answer of the commands below.
Ordinary == repo.plain

\* The files first, each with its identity: HEAD of every worktree among them.
WitnessedFiles == repo.heads
CaptureFiles(how) ==
    /\ step \in {"opening", "closing"} /\ proof[step].heads = Absent /\ Ask(how)
    /\ IF how = "read" /\ Ordinary
       THEN proof' = [proof EXCEPT ![step].heads = WitnessedFiles] /\ UNCHANGED <<step, work>>
       ELSE UNCHANGED proof /\ NotShared(how)
    /\ UNCHANGED <<repo, since, changes, probe, targets, row>>

\* The references, tags among them, in one command.  Every worktree must still
\* be where the inventory saw it.
CaptureReferences(how) ==
    LET at(t) == LET head == proof[step].heads[t]
                 IN  IF head \in Branches THEN repo.refs[head] ELSE head
        listed(t) == /\ at(t) = Listed[t].head
                     /\ proof[step].heads[t] = IF Listed[t].branch = Absent THEN Listed[t].head
                                               ELSE Listed[t].branch
    IN /\ step \in {"opening", "closing"} /\ proof[step].heads # Absent /\ proof[step].refs = Absent
       /\ Ask(how)
       /\ IF how = "read" /\ Ordinary /\ \A t \in Trees : listed(t)
          THEN /\ proof' = [proof EXCEPT ![step].refs = repo.refs, ![step].tags = repo.tags]
               /\ UNCHANGED <<step, work>>
          ELSE UNCHANGED proof /\ NotShared(how)
       /\ UNCHANGED <<repo, since, changes, probe, targets, row>>

\* recheck
FaultSameEvidence(now) == TRUE
SameEvidence(now) == now = proof.opening

\* direct_ref_oid: the head of a target, if the integration evidence agrees.
Operand(t, refs) ==
    LET target == TargetOf(t)
    IN  IF refs[target] = targets.integration[target] THEN refs[target] ELSE Absent
GroupsOf(refs) ==
    {[head |-> Listed[t].head, oid |-> Operand(t, refs)] : t \in {u \in Candidates : Operand(u, refs) # Absent}}
Members(g, refs) == {t \in Candidates : Listed[t].head = g.head /\ Operand(t, refs) = g.oid}

CaptureRemoteHead(how) ==
    LET now == [proof[step] EXCEPT !.remote = repo.remote]
    IN /\ step \in {"opening", "closing"} /\ proof[step].refs # Absent /\ Ask(how)
       /\ IF how # "read" THEN NotShared(how) /\ UNCHANGED proof
          ELSE IF step = "opening"
          THEN /\ proof' = [proof EXCEPT !.opening = now]
               /\ work' = [work EXCEPT !.groups =
                     {g \in GroupsOf(now.refs) : Cardinality(Members(g, now.refs)) > 1}]
               /\ step' = "groups"
          ELSE /\ proof' = [proof EXCEPT !.closing = now]
               /\ IF SameEvidence(now) THEN step' = "rows" /\ UNCHANGED work ELSE Decline
       /\ UNCHANGED <<repo, since, changes, probe, targets, row>>

\* relationship_for_observed of ids: only the tags may still change.
Observe(g, how) ==
    LET base == MergeBase(g.oid, g.head)
        tags == repo.tags[base]
        facts == [base |-> base, tags |-> tags, ahead |-> Beyond(g.head, g.oid), behind |-> Beyond(g.oid, g.head),
                  distance |-> Beyond(g.oid, base)]
        members == Members(g, proof.opening.refs)
    IN /\ step = "groups" /\ g \in work.groups /\ Ask(how)
       /\ IF how = "stopped" THEN Fails /\ UNCHANGED work
          ELSE IF how = "failed" \/ base = Absent
          THEN work' = [work EXCEPT !.groups = @ \ {g}] /\ UNCHANGED step
          ELSE IF base \in DOMAIN work.tags /\ work.tags[base] # tags THEN Decline
          ELSE /\ work' = [groups |-> work.groups \ {g},
                           tags |-> [b \in DOMAIN work.tags \cup {base} |->
                                        IF b = base THEN tags ELSE work.tags[b]],
                           rows |-> [t \in DOMAIN work.rows \cup members |->
                                        IF t \in members THEN facts ELSE work.rows[t]]]
               /\ UNCHANGED step
       /\ UNCHANGED <<repo, since, changes, probe, targets, proof, row>>

Observed ==
    /\ step = "groups" /\ work.groups = {}
    /\ step' = IF work.rows = NoWork.rows THEN "rows" ELSE "witness"
    /\ UNCHANGED <<repo, since, changes, failures, stopped, probe, targets, proof, work, row>>

\* The tags of every base are read again, then everything is captured again.
RereadTags(how) ==
    /\ step = "witness" /\ Ask(how)
    /\ IF how # "read" THEN NotShared(how)
       ELSE IF \E b \in DOMAIN work.tags : work.tags[b] # repo.tags[b] THEN Decline
       ELSE step' = "closing" /\ UNCHANGED work
    /\ UNCHANGED <<repo, since, changes, probe, targets, proof, row>>

---------------------------------------------------------------------------
(* A worktree on its own: four commands, each reads the target's name anew.   *)

Asked(t) == step = "rows" /\ t \in Candidates \ DOMAIN work.rows
Row(t, r) == row' = [row EXCEPT ![t] = r]
Lost(t, how) == Row(t, [Unread EXCEPT !.at = how])

ReadBase(t, how) ==
    /\ Asked(t) /\ row[t].at = "base" /\ Ask(how)
    /\ IF how = "stopped" THEN Lost(t, how)
       ELSE LET base == IF how = "failed" \/ ~Exists(TargetOf(t)) THEN Absent
                        ELSE MergeBase(repo.refs[TargetOf(t)], Listed[t].head)
            IN  Row(t, [row[t] EXCEPT !.at = IF base = Absent THEN "unknown" ELSE "tags", !.base = base])
    /\ UNCHANGED <<repo, since, changes, probe, targets, proof, work, step>>
ReadTags(t, how) ==
    /\ Asked(t) /\ row[t].at = "tags" /\ Ask(how)
    /\ IF how # "read" THEN Lost(t, how)
       ELSE Row(t, [row[t] EXCEPT !.at = "counts", !.tags = repo.tags[row[t].base]])
    /\ UNCHANGED <<repo, since, changes, probe, targets, proof, work, step>>

\* Only the head of an ancestor has the distance that was just counted.
FaultCounted(r, head) == r.ahead = 0
Counted(r, head) == r.base = head /\ r.ahead = 0
ReadCounts(t, how) ==
    /\ Asked(t) /\ row[t].at = "counts" /\ Ask(how)
    /\ IF how # "read" \/ ~Exists(TargetOf(t)) THEN Lost(t, IF how = "read" THEN "failed" ELSE how)
       ELSE LET target == repo.refs[TargetOf(t)]
                r == [row[t] EXCEPT !.ahead = Beyond(Listed[t].head, target),
                                    !.behind = Beyond(target, Listed[t].head)]
            IN  Row(t, IF Counted(r, Listed[t].head) THEN [r EXCEPT !.at = "done", !.distance = r.behind]
                       ELSE [r EXCEPT !.at = "distance"])
    /\ UNCHANGED <<repo, since, changes, probe, targets, proof, work, step>>
ReadDistance(t, how) ==
    /\ Asked(t) /\ row[t].at = "distance" /\ Ask(how)
    /\ IF how # "read" \/ ~Exists(TargetOf(t)) THEN Lost(t, IF how = "read" THEN "failed" ELSE how)
       ELSE Row(t, [row[t] EXCEPT !.at = "done", !.distance = Beyond(repo.refs[TargetOf(t)], row[t].base)])
    /\ UNCHANGED <<repo, since, changes, probe, targets, proof, work, step>>

\* A row ended by a supervisor fails the resolution; any other failed row is
\* reported without facts.
Resolved ==
    /\ step = "rows"
    /\ \A t \in Trees : Asked(t) => row[t].at \in {"done", "unknown", "failed", "stopped"}
    /\ step' = IF \E t \in Trees : probe[t] = "stopped" \/ row[t].at = "stopped" THEN "error" ELSE "report"
    /\ UNCHANGED <<repo, since, changes, failures, stopped, probe, targets, proof, work, row>>

---------------------------------------------------------------------------
(* Everybody else who uses the repository.                                    *)

RepositoryChanges ==
    /\ changes < MaxChanges /\ step \notin {"report", "error"}
    /\ changes' = changes + 1
    /\ \/ \E b \in Branches, c \in Commits \cup {Absent} : repo' = [repo EXCEPT !.refs[b] = c]
       \/ \E c \in Commits : repo' = [repo EXCEPT !.tags[c] = ~@]
       \/ \E t \in Trees, c \in Commits : repo' = [repo EXCEPT !.heads[t] = c]
       \/ repo' = [repo EXCEPT !.remote = IF @ = Absent THEN "origin/main" ELSE Absent]
       \/ repo' = [repo EXCEPT !.plain = ~@]
    /\ repo' # repo
    /\ since' = since \cup {repo'}
    /\ UNCHANGED <<failures, stopped, probe, targets, proof, work, row, step>>

RelationNext ==
    \/ RepositoryChanges \/ TargetsSelected \/ Observed \/ Resolved
    \/ \E how \in Answers :
          \/ ReadConfiguration(how) \/ ReadRemoteHead(how) \/ ProbeRoot(how)
          \/ SelectDevelopment(how) \/ ReadIntegration(how)
          \/ CaptureFiles(how) \/ CaptureReferences(how) \/ CaptureRemoteHead(how) \/ RereadTags(how)
          \/ \E b \in {"dev", "develop"} : ProbeBranch(b, how)
          \/ \E g \in work.groups : Observe(g, how)
          \/ \E t \in Trees : ReadStatus(t, how) \/ ReadBase(t, how) \/ ReadTags(t, how)
                              \/ ReadCounts(t, how) \/ ReadDistance(t, how)

RelationSpec == RelationInit /\ [][RelationNext]_relationVars

---------------------------------------------------------------------------
(* Properties.                                                                *)

\* Facts shared between worktrees are those of the repository as the closing
\* capture read it: the head of the target, how far it is, its merge base, and
\* the tags there, unless the repository changed more than once, as it has to
\* for a tag to come and go in between.
SharedFactsCurrent ==
    step \in {"rows", "report"} => \A t \in DOMAIN work.rows :
        LET facts == work.rows[t]
            target == proof.closing.refs[TargetOf(t)]
        IN /\ proof.closing.refs # Absent /\ target = targets.integration[TargetOf(t)]
           /\ facts.base = MergeBase(target, Listed[t].head)
           /\ facts.ahead = Beyond(Listed[t].head, target) /\ facts.behind = Beyond(target, Listed[t].head)
           /\ facts.distance = Beyond(target, facts.base)
           /\ facts.tags = proof.closing.tags[facts.base] \/ changes > 1

\* A worktree asked on its own may mix instants, but its base is the merge base
\* with a head its target had, and its distance that of this base from a head
\* its target had, also where the second was not read but taken from a count.
RowsReal ==
    \A t \in Trees : row[t].at = "done" =>
        \E s \in since, u \in since :
            LET before == s.refs[TargetOf(t)]
                after == u.refs[TargetOf(t)]
            IN /\ before # Absent /\ row[t].base = MergeBase(before, Listed[t].head)
               /\ after # Absent /\ row[t].distance = Beyond(after, row[t].base)

\* A command ended by its supervisor is never taken for a branch, a tag or a
\* worktree that is not there: the whole resolution fails.
SupervisionSurfaces == step = "report" => ~stopped
=============================================================================
