------------------------------ MODULE Presence ------------------------------
(* What hooks and tools capture of a session, and the presence record that   *)
(* is projected from it: src/src/hook.rs, capture.rs, mutation.rs and        *)
(* presence.rs.                                                              *)
(*                                                                           *)
(* A call is prepared once, with its identity, times and observed head, and  *)
(* executed again, unchanged, after a lost answer.  The database accepts the *)
(* events and their projection together, and a cursor tells what was         *)
(* projected; the file backend appends first and projects as well as it can. *)
(* The projection takes fewer session and route identifiers than hooks,      *)
(* tools and the journal do: "odd" are those it refuses.                     *)
EXTENDS Integers, Sequences, FiniteSets, FiniteSetsExt

CONSTANTS Unset, Calls,
          Inputs,        \* per call: what a host or a tool may report
          Lease,         \* time for which a record is live (two minutes)
          MaxTime, MaxFaults, MaxWaits   \* bounds

VARIABLES backend,   \* "file" or "sql"
          journal,   \* accepted events of the session
          covered,   \* presence_projection: how many of them were projected
          record,    \* the session's presence record
          guard,     \* the call that holds the writers' guard (file backend)
          call,      \* per call: its prepared events and where it is
          world,     \* the time, the workspace's head, the kind of the session's identifier
          trace,     \* history: what was to be projected, in order
          exact,     \* history: the file backend projected each accepted event once
          faults     \* bound: lost answers, crashes and skipped updates

presenceVars == <<backend, journal, covered, record, guard, call, world, trace, exact, faults>>

PresenceInit ==
    /\ backend \in {"file", "sql"}
    /\ journal = <<>> /\ covered = 0 /\ record = Unset /\ guard = Unset
    /\ call = [p \in Calls |-> [pc |-> "new", events |-> <<>>, received |-> 0]]
    /\ \E kind \in {"plain", "odd"} : world = [now |-> 0, head |-> 1, session |-> kind]
    /\ trace = <<>> /\ exact = TRUE /\ faults = 0

---------------------------------------------------------------------------
(* Normalisation.                                                            *)

\* event_types: what an event of a host is taken for; another one is a gap.
HookTypes(event, writes) ==
    CASE event = "SessionStart" -> <<"SessionStarted">>
      [] event = "UserPromptSubmit" -> <<"InstructionObserved">>
      [] event = "PreToolUse" -> <<"ToolRequested">>
      [] event = "PostToolUse" -> IF writes THEN <<"ToolCompleted", "CaptureGap">> ELSE <<"ToolCompleted">>
      [] event = "PreCompact" -> <<"ContextCompacting">>
      [] event = "PostCompact" -> <<"ContextCompacted">>
      [] event = "SubagentStart" -> <<"AgentStarted">>
      [] event = "SubagentStop" -> <<"AgentStopped">>
      [] event = "Stop" -> <<"TurnCompleted">>
      [] event = "SessionEnd" -> <<"SessionStopped">>
      [] OTHER -> <<"CaptureGap">>

\* CaptureKernel: what an agent records itself, by a tool.
Recorded == [requirement |-> <<"InstructionObserved">>, decision |-> <<"DecisionRecorded">>,
             evidence |-> <<"EvidenceRecorded">>, gap |-> <<"CaptureGap">>]

Types(input) ==
    IF input.event \in DOMAIN Recorded THEN Recorded[input.event] ELSE HookTypes(input.event, input.writes)

\* The identifier is the host's, which a repeated report repeats, or random.
EventId(p, input) == IF input.source = Unset THEN <<input.event, p>> ELSE <<input.event, input.source>>

Ids == UNION {{<<EventId(p, input), n>> : input \in Inputs[p], n \in 1..2} : p \in Calls}

\* check_session_component and is_safe_route_id, of which only the projection
\* knows: "user@host" names a session for hooks and journal, "my route" a route.
Safe(input) == world.session = "plain" /\ input.route = "plain"

\* The envelopes of a call share its identity, its times and the head observed.
Envelopes(p, input) ==
    [n \in DOMAIN Types(input) |->
        [id |-> <<EventId(p, input), n>>, type |-> Types(input)[n], head |-> world.head, safe |-> Safe(input)]]

Prepare(p, input) ==
    /\ call[p].pc = "new"
    /\ call' = [call EXCEPT ![p] = [pc |-> "sent", received |-> world.now, events |-> Envelopes(p, input)]]
    /\ UNCHANGED <<backend, journal, covered, record, guard, world, trace, exact, faults>>

---------------------------------------------------------------------------
(* Projection.                                                               *)

Keeps == {"InstructionObserved", "CaptureGap"}

Status(before, type) ==
    CASE type = "SessionStarted" -> "starting"
      [] type = "TurnCompleted" -> "idle"
      [] type = "SessionStopped" -> "completed"
      [] type \in Keeps -> before
      [] OTHER -> "working"

Blank == [status |-> "working", source |-> "capture", activity |-> Unset, decision |-> Unset,
          gaps |-> 0, lease |-> Unset, head |-> 0, safe |-> TRUE]

\* FAULT: a completed record keeps its lease.
FaultLeaseOf(status, received) == received + Lease
LeaseOf(status, received) == IF status = "completed" THEN Unset ELSE received + Lease

Projected(r, e, received) ==
    LET status == Status(r.status, e.type)
    IN [status |-> status,
        source |-> IF status = "waiting" THEN "host" ELSE "capture",
        activity |-> IF e.type = "ToolRequested" THEN e.id
                     ELSE IF e.type \in {"ToolCompleted", "TurnCompleted", "SessionStopped"} THEN Unset
                     ELSE r.activity,
        decision |-> IF e.type = "DecisionRecorded" THEN e.id ELSE r.decision,
        gaps |-> IF e.type = "CaptureGap" THEN r.gaps + 1 ELSE r.gaps,
        lease |-> LeaseOf(status, received), head |-> e.head, safe |-> e.safe]

\* project_records, of those of the events that are named.
ProjectRecords(events, named, received) ==
    LET after[n \in 0 .. Len(events)] ==
            IF n = 0 THEN IF record = Unset THEN Blank ELSE record
            ELSE IF n \in named THEN Projected(after[n - 1], events[n], received) ELSE after[n - 1]
    IN after[Len(events)]

\* validate_record, as far as a record is not well formed by its construction.
Valid(r) ==
    /\ r.safe
    /\ r.status = "completed" => r.lease = Unset
    /\ r.status = "waiting" => r.source = "host"

\* What a host says it waits for; it is told from every event.
AwaitedId == <<<<"waiting", Unset>>, 1>>
EventTypes == {"SessionStarted", "InstructionObserved", "ToolRequested", "ToolCompleted", "CaptureGap",
               "ContextCompacting", "ContextCompacted", "AgentStarted", "AgentStopped", "TurnCompleted",
               "SessionStopped", "DecisionRecorded", "EvidenceRecorded"}
PresenceRecords ==
    [status : {"starting", "working", "idle", "waiting", "completed"}, source : {"capture", "host"},
     activity : Ids \cup {AwaitedId, Unset}, decision : Ids \cup {Unset},
     gaps : Nat, lease : Nat \cup {Unset}, head : 0..2, safe : BOOLEAN]
Entries == [id : Ids \cup {AwaitedId}, type : EventTypes \cup {"waiting"}, head : 0..2, at : Nat]

ASSUME PresenceAssumption ==
    Lease \in Nat /\ Unset \notin Calls /\ Unset \notin PresenceRecords /\ Unset \notin Entries

---------------------------------------------------------------------------
(* Acceptance.                                                               *)

Known(e) == {n \in DOMAIN journal : journal[n].id = e.id}
Repeated(events) == \A n \in DOMAIN events : Known(events[n]) # {}
Fresh(events) == \A n \in DOMAIN events : Known(events[n]) = {}
\* equivalent_retry: the sequence and the time of the event aside.
Equivalent(events) == \A n \in DOMAIN events : \E k \in Known(events[n]) : journal[k] = events[n]

Accepts(events) == Fresh(events) \/ (Repeated(events) /\ Equivalent(events))
Accepted(events) == IF Fresh(events) THEN journal \o events ELSE journal
Noted(p) ==
    LET e == call[p].events
    IN IF Fresh(e)
       THEN trace \o [n \in DOMAIN e |-> [id |-> e[n].id, type |-> e[n].type, head |-> e[n].head,
                                           at |-> call[p].received]]
       ELSE trace

Ends(p, pc) == call' = [call EXCEPT ![p].pc = pc]
\* The answer reaches the caller, or is lost and the same bytes are sent again.
Answer(p) ==
    \/ Ends(p, "done") /\ UNCHANGED faults
    \/ faults < MaxFaults /\ faults' = faults + 1 /\ Ends(p, "sent")

\* FAULT: what an earlier attempt projected is projected again.
FaultUncovered(events) == DOMAIN events
\* observe_sql: the accepted records above the cursor.
Uncovered(events) == {n \in DOMAIN events : \A k \in Known(events[n]) : k > covered}

\* append_capture_batch_with in one transaction: all of it, or nothing.
CaptureSql(p) ==
    LET events == call[p].events
        fresh == Uncovered(events)
        projected == IF fresh = {} THEN record ELSE ProjectRecords(events, fresh, call[p].received)
    IN /\ call[p].pc = "sent" /\ backend = "sql"
       /\ IF Accepts(events) /\ Valid(projected)
          THEN /\ journal' = Accepted(events) /\ trace' = Noted(p)
               /\ record' = projected
               /\ covered' = IF fresh = {} THEN covered ELSE Len(journal')
               /\ Answer(p)
          ELSE Ends(p, "refused") /\ UNCHANGED <<journal, trace, record, covered, faults>>
       /\ UNCHANGED <<backend, guard, world, exact>>

\* append_legacy, under the guard that is held until the projection is done.
AppendFile(p) ==
    LET events == call[p].events
    IN /\ call[p].pc = "sent" /\ backend = "file" /\ guard = Unset
       /\ IF Accepts(events)
          THEN /\ journal' = Accepted(events) /\ trace' = Noted(p)
               /\ guard' = p /\ Ends(p, "accepted")
               /\ exact' = (exact /\ Fresh(events))
          ELSE Ends(p, "refused") /\ UNCHANGED <<journal, trace, exact, guard>>
       /\ UNCHANGED <<backend, covered, record, world, faults>>

\* observe_legacy: locked, projected and replaced as a whole; the records of a
\* repeated call are projected again, and an update that fails is skipped.
ProjectFile(p) ==
    LET projected == ProjectRecords(call[p].events, DOMAIN call[p].events, call[p].received)
    IN /\ call[p].pc = "accepted"
       /\ guard' = Unset
       /\ \/ /\ record' = IF Valid(projected) THEN projected ELSE record
             /\ exact' = (exact /\ Valid(projected))
             /\ Answer(p)
          \/ /\ faults < MaxFaults /\ faults' = faults + 1
             /\ Ends(p, "done") /\ exact' = FALSE /\ UNCHANGED record
       /\ UNCHANGED <<backend, journal, covered, world, trace>>

\* The process that executes dies between the two; the caller tries again.
CrashFile(p) ==
    /\ call[p].pc = "accepted" /\ faults < MaxFaults
    /\ faults' = faults + 1 /\ guard' = Unset /\ Ends(p, "sent") /\ exact' = FALSE
    /\ UNCHANGED <<backend, journal, covered, record, world, trace>>

\* observe with ExplicitWaiting.
WaitingRecord(activity) ==
    [record EXCEPT !.status = "waiting", !.source = "host", !.activity = activity,
                   !.lease = world.now + Lease]

ExplicitWaiting(activity) ==
    /\ record # Unset /\ guard = Unset
    /\ Cardinality({n \in DOMAIN trace : trace[n].type = "waiting"}) < MaxWaits
    /\ Valid(WaitingRecord(activity)) /\ record' = WaitingRecord(activity)
    /\ trace' = Append(trace, [id |-> activity, type |-> "waiting", head |-> record.head, at |-> world.now])
    /\ UNCHANGED <<backend, journal, covered, guard, call, world, exact, faults>>

Tick == /\ world.now < MaxTime
        /\ world' = [world EXCEPT !.now = @ + 1]
        /\ UNCHANGED <<backend, journal, covered, record, guard, call, trace, exact, faults>>

Commit == /\ world.head = 1
          /\ world' = [world EXCEPT !.head = 2]
          /\ UNCHANGED <<backend, journal, covered, record, guard, call, trace, exact, faults>>

PresenceNext ==
    \/ \E p \in Calls :
        \/ \E input \in Inputs[p] : Prepare(p, input)
        \/ CaptureSql(p) \/ AppendFile(p) \/ ProjectFile(p) \/ CrashFile(p)
    \/ ExplicitWaiting(AwaitedId)
    \/ Tick \/ Commit

PresenceSpec == PresenceInit /\ [][PresenceNext]_presenceVars

---------------------------------------------------------------------------
EffectiveAt(r, now) ==
    IF r.status # "completed" /\ now > r.lease THEN [r EXCEPT !.status = "stale", !.source = "lease"] ELSE r

\* load_all: what a reader is shown; an invalid record is a warning.
Shown == IF record = Unset THEN Unset
         ELSE IF ~Valid(record) THEN Unset ELSE EffectiveAt(record, world.now)

LastOf(types) ==
    LET found == {n \in DOMAIN trace : trace[n].type \in types}
    IN IF found = {} THEN Unset ELSE trace[Max(found)]

Settles == {trace[n].type : n \in DOMAIN trace} \ Keeps
StatusOf(e) ==
    IF e = Unset THEN "working" ELSE IF e.type = "waiting" THEN "waiting" ELSE Status("working", e.type)

(* What is shown of a session is what its accepted events say, each counted   *)
(* once however often its call was sent: the last one that settles a status,  *)
(* the tool that runs, the number of gaps, and live only for the lease since  *)
(* the last of them, which a repetition does not renew.  The database keeps   *)
(* this over every loss and repetition.  The file backend keeps it, between   *)
(* calls, only until an update of the session is cut off, skipped or refused, *)
(* or an accepted call is executed again, which it projects a second time.    *)
(* observe_sql, observe_legacy, project_records of presence.rs.               *)
PresenceFaithful ==
    (backend = "sql" \/ (exact /\ guard = Unset))
    => IF trace = <<>> THEN Shown = Unset
       ELSE LET last == trace[Len(trace)]
                status == StatusOf(LastOf(Settles))
                tool == LastOf({"ToolRequested", "ToolCompleted", "TurnCompleted", "SessionStopped", "waiting"})
            IN /\ Shown.status = IF status # "completed" /\ world.now > last.at + Lease THEN "stale" ELSE status
               /\ Shown.activity = IF tool = Unset THEN Unset
                                   ELSE IF tool.type \in {"ToolRequested", "waiting"} THEN tool.id ELSE Unset
               /\ Shown.gaps = Cardinality({n \in DOMAIN trace : trace[n].type = "CaptureGap"})
               /\ Shown.head = last.head

\* The events stand in the journal next to each other.
InJournal(e) == \E n \in 0 .. Len(journal) - Len(e) : \A i \in DOMAIN e : journal[n + i] = e[i]

(* A call that was answered is in the journal once, its events next to each   *)
(* other, and what is refused is not in it.  A call is refused because its    *)
(* identifier stands for something else, or, by the database alone, because   *)
(* the projection does not take its session's or its route's identifier:      *)
(* nothing else in a projection makes the acceptance of an event fail.        *)
(* append_capture_batch_with, append_legacy; validate_record of presence.rs.  *)
CaptureAnswered ==
    /\ \A m, n \in DOMAIN journal : journal[m].id = journal[n].id => m = n
    /\ \A p \in Calls :
        LET e == call[p].events
        IN /\ call[p].pc \in {"accepted", "done"} => InJournal(e)
           /\ call[p].pc = "refused" =>
                /\ ~InJournal(e)
                /\ \E i \in DOMAIN e : Known(e[i]) # {} \/ (backend = "sql" /\ ~e[i].safe)
=============================================================================
