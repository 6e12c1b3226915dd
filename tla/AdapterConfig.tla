---------------------------- MODULE AdapterConfig ----------------------------
(* Installing and uninstalling the hooks in an agent's configuration:        *)
(* src/src/adapter.rs.                                                       *)
(*                                                                           *)
(* A plan is reviewed, approved by its digest and carried out under a lock.  *)
(* The lock binds the program alone: the user and the agent write the file   *)
(* whenever they like, in place, through a file opened earlier or by         *)
(* replacing it.  The transaction works with names, temporary and backup,    *)
(* and never replaces a name that exists.  Native hosts keep hooks in a      *)
(* document of the user's; the generic host has a descriptor of its own.     *)
EXTENDS Integers, SequencesExt

CONSTANTS Nothing,
          Installers,     \* processes that install and uninstall
          HookHandlers,   \* the handlers a document may have
          Found,          \* documents there may be at first, per host
          Documents,      \* documents the user writes later, per host
          MaxEdits,       \* bound: writes of the user
          MaxCrashes      \* bound: installers that die

VARIABLES host,      \* "native" or "generic"
          name,      \* the files under the names "config", "backup", "temp"
          opened,    \* the file an editor has open
          latest,    \* what the user wrote last and no plan replaced (history)
          fate,      \* of that write: "kept", "late" or "lost" (history)
          lock,      \* adapter-install.lock
          inst,      \* per installer: its plan and the step it is at
          bound      \* counts of edits and crashes

adapterVars == <<host, name, opened, latest, fate, lock, inst, bound>>

---------------------------------------------------------------------------
(* Documents.  A native document maps events to groups of handlers; a        *)
(* handler with an id of EVENTS is one of ours: as generated, as a former    *)
(* version generated it, or edited.  meta stands for a group's matcher.      *)

Events == {"SessionStart", "SessionEnd"}
Ours(h) == h.id \in Events
ExpectedHandler(e) == [id |-> e, kind |-> "exact"]
ExpectedGroup(e) == [meta |-> FALSE, hooks |-> <<ExpectedHandler(e)>>]

HookGroups == [meta : BOOLEAN, hooks : Seq(HookHandlers)]
Written(h) == Found[h] \cup Documents[h]
HostEvents == Events \cup UNION {DOMAIN d : d \in Written("native")}
HookDocuments(D) == [D -> Seq(HookGroups)]
Descriptors == {"descriptor"} \cup Written("generic")

ASSUME AdapterAssumption ==
    /\ \A e \in Events : ExpectedHandler(e) \in HookHandlers
    /\ \A d \in Written("native") : d \in HookDocuments(DOMAIN d)
    /\ \A D \in SUBSET HostEvents :
          Nothing \notin HookDocuments(D) /\ Nothing \notin [ino : Nat, doc : HookDocuments(D)]
    /\ Nothing \notin Descriptors /\ Nothing \notin [ino : Nat, doc : Descriptors]
    /\ IsFiniteSet(Installers) /\ Nothing \notin Installers

Generated(e, g) ==
    g = ExpectedGroup(e) \/ (e = "SessionEnd" /\ g = [ExpectedGroup(e) EXCEPT !.hooks[1].kind = "old"])

Handlers(doc, e) ==
    UNION {{[event |-> e, group |-> i, hook |-> j] : j \in DOMAIN doc[e][i].hooks} : i \in DOMAIN doc[e]}
Occurrences(doc, id) ==
    {x \in UNION {Handlers(doc, e) : e \in DOMAIN doc} : doc[x.event][x.group].hooks[x.hook].id = id}

\* verify_adapter and desired_result: present exactly once, as generated.
Present(doc, id) ==
    \E x \in Occurrences(doc, id) :
        /\ Occurrences(doc, id) = {x}
        /\ x.event = id /\ ~doc[id][x.group].meta
        /\ doc[id][x.group].hooks[x.hook] = ExpectedHandler(id)
Configured(doc) == \A e \in Events : Present(doc, e)

Foreign(hooks) == FlattenSeq([j \in DOMAIN hooks |-> IF Ours(hooks[j]) THEN <<>> ELSE <<hooks[j]>>])
Stripped(g) == [g EXCEPT !.hooks = Foreign(@)]
Holding(g) == Stripped(g) # g
EmptiedBy(g) == Holding(g) /\ Stripped(g).hooks = <<>>

\* FAULT: every group that is left empty goes, the user's too.
FaultKeptGroups(e, groups) ==
    FlattenSeq([i \in DOMAIN groups |-> IF EmptiedBy(groups[i]) THEN <<>> ELSE <<Stripped(groups[i])>>])

\* A group goes with our handler only if we generated the group.
KeptGroups(e, groups) ==
    FlattenSeq([i \in DOMAIN groups |->
        IF Generated(e, groups[i]) /\ EmptiedBy(groups[i]) THEN <<>> ELSE <<Stripped(groups[i])>>])

RemoveOwned(doc) ==
    LET Emptied(e) == /\ \E i \in DOMAIN doc[e] : Holding(doc[e][i])
                      /\ KeptGroups(e, doc[e]) = <<>>
    IN [e \in {d \in DOMAIN doc : ~Emptied(d)} |-> KeptGroups(e, doc[e])]

Appended(doc) ==
    [e \in DOMAIN doc \cup Events |->
        (IF e \in DOMAIN doc THEN doc[e] ELSE <<>>)
            \o (IF e \in Events THEN <<ExpectedGroup(e)>> ELSE <<>>)]

Empty == [e \in {} |-> <<>>]

\* The document a plan wants, Nothing for no file at all.
DesiredNative(action, doc) ==
    LET old == IF doc = Nothing THEN Empty ELSE doc
    IN IF action = "uninstall" THEN RemoveOwned(old)
       ELSE IF Configured(old) THEN old ELSE Appended(RemoveOwned(old))

DesiredGeneric(action, doc) ==
    IF action = "install" THEN "descriptor"
    ELSE IF doc = "descriptor" THEN Nothing ELSE doc

\* What of a document is the user's.
UsersOf(groups) == FlattenSeq([i \in DOMAIN groups |-> Foreign(groups[i].hooks)])
Matched(groups) == FlattenSeq([i \in DOMAIN groups |-> IF groups[i].meta THEN <<Stripped(groups[i])>> ELSE <<>>])
Users(doc) == [e \in {d \in DOMAIN doc : UsersOf(doc[d]) # <<>>} |-> UsersOf(doc[e])]

---------------------------------------------------------------------------
(* Plans and the lock.                                                       *)

Doc(f) == IF f = Nothing THEN Nothing ELSE f.doc
Desired(action, f) ==
    IF host = "generic" THEN DesiredGeneric(action, Doc(f)) ELSE DesiredNative(action, Doc(f))

\* build_plan: the file's identity and bytes, and what it is to become.  The
\* digest that is approved stands for all of it.
Plan(action) ==
    [action |-> action, prior |-> name.config, desired |-> Desired(action, name.config)]

AdapterInit ==
    /\ host \in {"native", "generic"}
    /\ \E d \in Found[host] \cup {Nothing} :
        /\ latest = d
        /\ name = [config |-> IF d = Nothing THEN Nothing ELSE [ino |-> 0, doc |-> d],
                   backup |-> Nothing, temp |-> Nothing]
    /\ opened = Nothing /\ lock = Nothing /\ fate = "kept"
    /\ inst = [p \in Installers |-> [pc |-> "rest", plan |-> Nothing]]
    /\ bound = [edits |-> 0, crashes |-> 0]

At(p, pc) == inst[p].pc = pc
Goto(p, pc) == inst' = [inst EXCEPT ![p].pc = pc]
End(p) == inst' = [inst EXCEPT ![p] = [pc |-> "rest", plan |-> Nothing]]
Unlock(p) == lock' = IF lock = p THEN Nothing ELSE lock
PlanOf(p) == inst[p].plan
User == <<host, opened, latest, fate, bound>>

\* The command makes its plan anew; only the digest of that very plan, reviewed
\* before, approves: a review is no state of the program.
Approve(p, action) ==
    /\ At(p, "rest")
    /\ inst' = [inst EXCEPT ![p] = [pc |-> "lock", plan |-> Plan(action)]]
    /\ UNCHANGED <<User, name, lock>>

AcquireInstallLock(p) ==
    /\ At(p, "lock") /\ lock = Nothing
    /\ lock' = p
    /\ Goto(p, "current")
    /\ UNCHANGED <<User, name>>

Changed(plan) == Doc(plan.prior) # plan.desired

\* Planned once more under the lock; nothing is written if nothing changes.
ExecutePlan(p) ==
    /\ At(p, "current")
    /\ IF Plan(PlanOf(p).action) = PlanOf(p) /\ Changed(PlanOf(p))
       THEN Goto(p, IF PlanOf(p).desired = Nothing THEN "remove" ELSE "create") /\ UNCHANGED lock
       ELSE End(p) /\ Unlock(p)
    /\ UNCHANGED <<User, name>>

---------------------------------------------------------------------------
(* The transaction.  Snapshots are compared with identity and content.       *)

Unchanged(p) == name.config = PlanOf(p).prior
\* FAULT: what has been moved away is not compared with what was reviewed.
FaultVerified(p) == TRUE
Verified(p) == name.backup = PlanOf(p).prior

\* An error: the temporary file goes, the backup stays.
Abort(p, names) ==
    /\ name' = [names EXCEPT !.temp = Nothing]
    /\ End(p) /\ Unlock(p)

Restored == IF name.config = Nothing THEN [name EXCEPT !.config = name.backup, !.backup = Nothing]
            ELSE name

\* A file of its own: nobody names it, has it open or planned with it.
NewFile(doc) ==
    LET used == {opened} \cup {name[n].ino : n \in {m \in DOMAIN name : name[m] # Nothing}}
                \cup {PlanOf(p).prior.ino : p \in {q \in Installers :
                        IF PlanOf(q) = Nothing THEN FALSE ELSE PlanOf(q).prior # Nothing}}
    IN [ino |-> Min((0..Cardinality(used)) \ used), doc |-> doc]

\* Leftovers of an earlier transaction are in the way, and stay.
Create(p) ==
    /\ At(p, "create")
    /\ IF ~Unchanged(p) \/ name.backup # Nothing \/ name.temp # Nothing
       THEN End(p) /\ Unlock(p) /\ UNCHANGED name
       ELSE /\ name' = [name EXCEPT !.temp = NewFile(PlanOf(p).desired)]
            /\ Goto(p, "created") /\ UNCHANGED lock
    /\ UNCHANGED User

Created(p) ==
    /\ At(p, "created")
    /\ IF ~Unchanged(p) THEN Abort(p, name)
       ELSE Goto(p, IF PlanOf(p).prior = Nothing THEN "link" ELSE "away") /\ UNCHANGED <<name, lock>>
    /\ UNCHANGED User

\* commit_new_target: a hard link, so that both names are one file.
Link(p) ==
    /\ At(p, "link")
    /\ IF name.config # Nothing THEN Abort(p, name)
       ELSE name' = [name EXCEPT !.config = name.temp]
            /\ Goto(p, "named") /\ UNCHANGED lock
    /\ UNCHANGED User

\* Read back; the temporary name goes either way.
Named(p) ==
    /\ At(p, "named")
    /\ Abort(p, name)
    /\ UNCHANGED User

RemoveConfig(p) ==
    /\ At(p, "remove")
    /\ IF name.backup # Nothing \/ ~Unchanged(p)
       THEN End(p) /\ Unlock(p) ELSE Goto(p, "away") /\ UNCHANGED lock
    /\ UNCHANGED <<User, name>>

\* The configuration is moved to the backup name, which must be free.
Away(p) ==
    /\ At(p, "away")
    /\ IF name.config = Nothing \/ name.backup # Nothing THEN Abort(p, name)
       ELSE /\ name' = [name EXCEPT !.backup = name.config, !.config = Nothing]
            /\ Goto(p, "aside") /\ UNCHANGED lock
    /\ UNCHANGED User

\* Not what was reviewed: it goes back, unless the name is taken again.
Aside(p) ==
    /\ At(p, "aside")
    /\ IF ~Verified(p) THEN Abort(p, Restored)
       ELSE Goto(p, IF PlanOf(p).desired = Nothing THEN "verify" ELSE "place") /\ UNCHANGED <<name, lock>>
    /\ UNCHANGED User

\* The new file takes the name, if nobody took it meanwhile.
Place(p) ==
    /\ At(p, "place")
    /\ \/ /\ name.config = Nothing
          /\ name' = [name EXCEPT !.config = name.temp, !.temp = Nothing]
          /\ Goto(p, "placed") /\ UNCHANGED lock
       \/ Abort(p, Restored)
    /\ UNCHANGED User

Placed(p) ==
    /\ At(p, "placed")
    /\ IF Doc(name.config) = PlanOf(p).desired
       THEN Goto(p, "verify") /\ UNCHANGED <<name, lock>> ELSE Abort(p, name)
    /\ UNCHANGED User

\* A late edit of the moved file is kept as the backup.
Verify(p) ==
    /\ At(p, "verify")
    /\ IF Verified(p) THEN Goto(p, "drop") /\ UNCHANGED <<name, lock>> ELSE Abort(p, name)
    /\ UNCHANGED User

\* The reviewed content goes, as the plan says; the generic host's as a whole,
\* and so does another's when someone else has the name by now.
GivenUp(p) ==
    latest = PlanOf(p).prior.doc /\ (host = "generic" \/ Doc(name.config) # PlanOf(p).desired)

DropBackup(p) ==
    /\ At(p, "drop")
    /\ name' = [name EXCEPT !.backup = Nothing]
    /\ latest' = IF GivenUp(p) THEN Nothing ELSE latest
    /\ fate' = IF fate = "late" THEN "lost" ELSE fate
    /\ End(p) /\ Unlock(p)
    /\ UNCHANGED <<host, opened, bound>>

\* The process dies: the system releases its lock, the files stay.
Crash(p) ==
    /\ ~At(p, "rest") /\ bound.crashes < MaxCrashes
    /\ bound' = [bound EXCEPT !.crashes = @ + 1]
    /\ End(p) /\ Unlock(p)
    /\ UNCHANGED <<host, name, opened, latest, fate>>

---------------------------------------------------------------------------
(* The user and the agent.                                                   *)

Wrote(d) ==
    /\ bound.edits < MaxEdits
    /\ bound' = [bound EXCEPT !.edits = @ + 1]
    /\ latest' = d
    /\ UNCHANGED <<host, lock, inst>>

Open == /\ name.config # Nothing /\ opened # name.config.ino
        /\ opened' = name.config.ino
        /\ UNCHANGED <<host, name, latest, fate, lock, inst, bound>>

OpenAs(n) == name[n] # Nothing /\ name[n].ino = opened

\* An editor writes the file it opened, whatever its name is now.  The write is
\* late in the instant between the last look at the backup and its removal, and
\* lost at once when the file has no name any more.
SaveOpened(d) ==
    /\ opened # Nothing
    /\ name' = [n \in DOMAIN name |-> IF OpenAs(n) THEN [name[n] EXCEPT !.doc = d] ELSE name[n]]
    /\ Wrote(d)
    /\ fate' = IF OpenAs("backup") /\ \E p \in Installers : At(p, "drop") THEN "late"
               ELSE IF OpenAs("config") \/ OpenAs("backup") THEN "kept" ELSE "lost"
    /\ UNCHANGED opened

Replace(d) ==
    /\ name' = [name EXCEPT !.config = NewFile(d)]
    /\ Wrote(d) /\ fate' = "kept"
    /\ UNCHANGED opened

Delete ==
    /\ name.config # Nothing
    /\ name' = [name EXCEPT !.config = Nothing]
    /\ Wrote(Nothing) /\ fate' = "kept"
    /\ UNCHANGED opened

Edit(d) == SaveOpened(d) \/ Replace(d)

AdapterNext ==
    \/ \E p \in Installers :
        \/ \E action \in {"install", "uninstall"} : Approve(p, action)
        \/ AcquireInstallLock(p) \/ ExecutePlan(p)
        \/ Create(p) \/ Created(p) \/ Link(p) \/ Named(p)
        \/ RemoveConfig(p) \/ Away(p) \/ Aside(p) \/ Place(p) \/ Placed(p) \/ Verify(p) \/ DropBackup(p)
        \/ Crash(p)
    \/ Open \/ Delete
    \/ \E d \in Documents[host] : Edit(d)

AdapterSpec == AdapterInit /\ [][AdapterNext]_adapterVars

---------------------------------------------------------------------------
(* What the user wrote last, at whatever step of a transaction, of a failed   *)
(* or of a cut off one, is still there: in the configuration or the backup,   *)
(* with our hooks or without, unless a reviewed plan replaced that very       *)
(* content.  Two writes in place are lost, and only these: one between the    *)
(* last look at the backup and its removal, and one through a file opened     *)
(* earlier that has no name any more, as the user replaced or removed it or   *)
(* a transaction removed the backup.  The code reads the backup a second time *)
(* to narrow the first; it cannot see the other.                              *)
(* commit_replacement, remove_planned_config.                                 *)
UserContentKept ==
    \/ latest = Nothing \/ fate = "lost"
    \/ \E n \in {"config", "backup"} :
        /\ name[n] # Nothing
        /\ IF host = "generic" THEN name[n].doc = latest ELSE Users(name[n].doc) = Users(latest)

(* Whatever document has the name: an installation leaves each hook exactly  *)
(* once, as generated, and a second one changes nothing; removal after it     *)
(* leaves no hook of ours; and neither touches a handler of the user's or     *)
(* drops a group with a matcher of his. desired_result, remove_owned_bindings. *)
HooksRoundTrip(doc) ==
    LET installed == DesiredNative("install", doc)
        removed == DesiredNative("uninstall", installed)
    IN /\ Configured(installed)
       /\ DesiredNative("install", installed) = installed
       /\ Users(installed) = Users(doc) /\ Users(removed) = Users(doc)
       /\ \A e \in Events : Occurrences(removed, e) = {}
       /\ \A e \in DOMAIN doc : Matched(doc[e]) # <<>> =>
             e \in DOMAIN removed /\ Matched(removed[e]) = Matched(doc[e])

HooksKept == host = "native" /\ name.config # Nothing => HooksRoundTrip(name.config.doc)
=============================================================================
