------------------------------- MODULE Journal -------------------------------
(***************************************************************************)
(* The event journal of one session (journal.rs): several processes append *)
(* batches of events to it or replay it, each may stop at any step.        *)
(*                                                                         *)
(* File backend.  The session directory holds events.ndjson (a line per    *)
(* record), events.intent (the batch being written), events.index (length, *)
(* count, tail record and identifiers of the journal), and the temporary   *)
(* files of the last two.  Every operation takes events.lock, repairs what *)
(* an interrupted one left, and then does its own work.  A record is       *)
(* represented by its event: sequence number, hash link and digest follow  *)
(* from its position.                                                      *)
(*                                                                         *)
(* SQL backend.  The same decision in one IMMEDIATE transaction.           *)
(*                                                                         *)
(* Bounds: MaxCalls operations are started, MaxFaults of them are cut off. *)
(***************************************************************************)
EXTENDS Naturals, Sequences

CONSTANTS
    Writers,      \* processes that use the session's journal
    Batches,      \* the batches callers append: sequences of [id, body]
    Replay,       \* an operation that reads the journal instead
    Backends,     \* the backends a session may have: "file", "sql"
    MaxRecords,   \* MAX_SESSION_RECORDS
    MaxCalls, MaxFaults,
    NoFile, NoEvent, Nobody

Elements(s) == {s[i] : i \in 1..Len(s)}
Ids(s) == {s[i].id : i \in 1..Len(s)}
Suffix(s, n) == SubSeq(s, n + 1, Len(s))
Starts(s, t) == Len(s) <= Len(t) /\ s = SubSeq(t, 1, Len(s))

\* parse_complete_records: no identifier twice.  Its other tests, of sequence
\* numbers, links and digests, are about what a position determines.
ParseComplete(s) == \A i, j \in 1..Len(s) : s[i].id = s[j].id => i = j

Events == UNION {Elements(b) : b \in Batches}

\* The callers number the events of a batch: append_legacy itself does not look
\* for an identifier that a new batch has twice.
ASSUME JournalAssumption ==
    /\ \A b \in Batches : b \in Seq(Events) /\ ParseComplete(b)
    /\ Replay \notin Batches
    /\ Backends \subseteq {"file", "sql"}
    /\ MaxRecords \in Nat /\ MaxCalls \in Nat /\ MaxFaults \in Nat
    /\ NoEvent \notin Events
    /\ Nobody \notin Writers
    /\ NoFile \notin [base : Nat, events : Batches]

VARIABLES
    backend,    \* which backend the repository has
    lines,      \* the complete records of events.ndjson
    torn,       \* the event whose first bytes follow the last newline
    intent,     \* events.intent: NoFile or [base, events]
    index,      \* events.index: NoFile or the records it was computed from
    temps,      \* the temporary files that exist
    lock,       \* the process that holds events.lock
    proc,       \* each process: [pc, op, todo, put, next]
    accepted,   \* history: batches answered with Ok
    calls, faults

files == <<backend, lines, torn, intent, index, temps>>
journalVars == <<backend, lines, torn, intent, index, temps, lock, proc, accepted, calls, faults>>

\* The accepted records: what the lines are, or will be once the intent is done.
AcceptedLog ==
    IF intent = NoFile THEN lines
    ELSE SubSeq(lines, 1, intent.base) \o intent.events

Log == INSTANCE OnceLog WITH log <- AcceptedLog

Idle == [pc |-> "idle", op |-> Replay, todo |-> <<>>, put |-> NoFile, next |-> "idle"]

JournalInit ==
    /\ backend \in Backends
    /\ lines = <<>> /\ torn = NoEvent
    /\ intent = NoFile /\ index = NoFile /\ temps = {}
    /\ lock = Nobody /\ proc = [p \in Writers |-> Idle]
    /\ accepted = {} /\ calls = 0 /\ faults = 0

At(p, pc) == proc[p].pc = pc
Goto(p, pc) == proc' = [proc EXCEPT ![p].pc = pc]
\* The operation ends: its lock is released, its memory is gone.
End(p) ==
    /\ proc' = [proc EXCEPT ![p] = Idle]
    /\ lock' = IF lock = p THEN Nobody ELSE lock
\* write_atomic_rebuildable of value v into one of the two files, then pc.
Put(p, file, v, pc) ==
    proc' = [proc EXCEPT ![p].pc = "temp", ![p].todo = <<>>,
                         ![p].put = [file |-> file, value |-> v], ![p].next = pc]

\* append_batch_with or replay is called.
Call(p, op) ==
    /\ At(p, "idle") /\ calls < MaxCalls
    /\ calls' = calls + 1
    /\ proc' = [proc EXCEPT ![p].pc = "lock", ![p].op = op]
    /\ UNCHANGED <<files, lock, accepted, faults>>

AcquireAppendLock(p) ==
    /\ At(p, "lock") /\ backend = "file" /\ lock = Nobody
    /\ lock' = p /\ Goto(p, "clean")
    /\ UNCHANGED <<files, accepted, calls, faults>>
\* lock_domain_file gives up after its timeout.
LockTimeout(p) ==
    /\ At(p, "lock") /\ lock # Nobody
    /\ End(p)
    /\ UNCHANGED <<files, accepted, calls, faults>>

\* Fault: only the temporary intent is looked for.
FaultRemoveStaleTemporary(p) ==
    /\ At(p, "clean")
    /\ temps' = temps \ {"intent"} /\ Goto(p, "recover")
    /\ UNCHANGED <<backend, lines, torn, intent, index, lock, accepted, calls, faults>>

\* recover_intent_locked begins by removing what an interrupted write left.
RemoveStaleTemporary(p) ==
    /\ At(p, "clean")
    /\ temps' = {} /\ Goto(p, "recover")
    /\ UNCHANGED <<backend, lines, torn, intent, index, lock, accepted, calls, faults>>

\* What summarize_existing_session tells a reader, who takes no lock.
Summary == IF torn = NoEvent /\ ParseComplete(lines) THEN lines ELSE <<NoEvent>>

\* The journal is where a prefix of the intended batch was written, and a torn
\* last line is the beginning of the next intended record.
IntentMatches ==
    LET target == SubSeq(lines, 1, intent.base) \o intent.events
    IN  /\ intent.base <= Len(lines)
        /\ Starts(lines, target)
        /\ torn # NoEvent =>
              /\ Len(lines) < Len(target)
              /\ torn = target[Len(lines) + 1]

RecoverIntent(p) ==
    /\ At(p, "recover")
    /\ IF intent = NoFile
       THEN torn' = torn /\ Goto(p, "load")
       ELSE /\ IntentMatches
            /\ torn' = NoEvent
            /\ proc' = [proc EXCEPT
                    ![p].pc = "append", ![p].next = "clear",
                    ![p].todo = Suffix(intent.events, Len(lines) - intent.base)]
    /\ UNCHANGED <<backend, lines, intent, index, temps, lock, accepted, calls, faults>>

\* append_encoded: the bytes of the records reach the file one after another.
BeginRecord(p) ==
    /\ At(p, "append") /\ proc[p].todo # <<>> /\ torn = NoEvent
    /\ torn' = Head(proc[p].todo)
    /\ UNCHANGED <<backend, lines, intent, index, temps, lock, proc, accepted, calls, faults>>

EndRecord(p) ==
    /\ At(p, "append") /\ proc[p].todo # <<>> /\ torn # NoEvent
    /\ lines' = Append(lines, torn) /\ torn' = NoEvent
    /\ proc' = [proc EXCEPT ![p].todo = Tail(@)]
    /\ UNCHANGED <<backend, intent, index, temps, lock, accepted, calls, faults>>

\* After the append the index is rewritten for the whole journal, then the
\* intent goes: the recovery continues with the operation, an append answers.
IndexAppended(p) ==
    /\ At(p, "append") /\ proc[p].todo = <<>>
    /\ Put(p, "index", lines, proc[p].next)
    /\ UNCHANGED <<files, lock, accepted, calls, faults>>

RemoveIntent(p) ==
    /\ proc[p].pc \in {"clear", "finish"}
    /\ intent' = NoFile
    /\ Goto(p, IF At(p, "clear") THEN "load" ELSE "answer")
    /\ UNCHANGED <<backend, lines, torn, index, temps, lock, accepted, calls, faults>>

\* The three steps of write_atomic_rebuildable.
WriteTemporary(p) ==
    /\ At(p, "temp") /\ proc[p].put.file \notin temps
    /\ temps' = temps \cup {proc[p].put.file} /\ Goto(p, "unlink")
    /\ UNCHANGED <<backend, lines, torn, intent, index, lock, accepted, calls, faults>>

RemoveDestination(p) ==
    /\ At(p, "unlink")
    /\ IF proc[p].put.file = "index"
       THEN index' = NoFile /\ UNCHANGED intent
       ELSE intent' = NoFile /\ UNCHANGED index
    /\ Goto(p, "rename")
    /\ UNCHANGED <<backend, lines, torn, temps, lock, accepted, calls, faults>>

RenameTemporary(p) ==
    LET put == proc[p].put
    IN  /\ At(p, "rename")
        /\ temps' = temps \ {put.file}
        /\ IF put.file = "index"
           THEN index' = put.value /\ UNCHANGED intent
           ELSE intent' = put.value /\ UNCHANGED index
        /\ proc' = [proc EXCEPT ![p].pc = proc[p].next, ![p].put = NoFile,
                        ![p].next = "finish",
                        ![p].todo = IF put.file = "intent" THEN put.value.events ELSE <<>>]
        /\ UNCHANGED <<backend, lines, torn, lock, accepted, calls, faults>>

\* load_or_rebuild_index_locked accepts an index of the journal's length whose
\* last record is the journal's; replay_locked refuses an unfinished line.
IndexMatches ==
    /\ torn = NoEvent
    /\ index # NoFile =>
          /\ Len(index) = Len(lines)
          /\ index # <<>> => index[Len(index)] = lines[Len(lines)]

\* A replay rewrites the index; an append does so only when there is none.
LoadIndex(p) ==
    /\ At(p, "load")
    /\ IF proc[p].op = Replay
       THEN torn = NoEvent /\ Put(p, "index", lines, "answer")
       ELSE /\ IndexMatches
            /\ IF index = NoFile /\ lines # <<>>
               THEN Put(p, "index", lines, "build")
               ELSE Goto(p, "build")
    /\ UNCHANGED <<files, lock, accepted, calls, faults>>

\* Fault: the content of a repeated batch is not compared.
FaultVerdictPartial(b) ==
    IF Len(lines) + Len(b) > MaxRecords THEN "refused"
    ELSE IF Ids(b) \subseteq Ids(lines) THEN "again"
    ELSE IF Ids(b) \cap Ids(lines) # {} THEN "refused" ELSE "new"

\* What becomes of a batch: its identifiers are all in the journal with the
\* same content, some of them are, or none is.  The file backend tests the
\* record limit before it looks for a retry, the SQL backend after.
Verdict(b) ==
    LET full == Len(lines) + Len(b) > MaxRecords
    IN  IF backend = "file" /\ full THEN "refused"
        ELSE IF Elements(b) \subseteq Elements(lines) THEN "again"
        ELSE IF full \/ Ids(b) \cap Ids(lines) # {} THEN "refused" ELSE "new"

Build(p) ==
    LET b == proc[p].op
    IN  /\ At(p, "build") /\ Verdict(b) # "refused"
        /\ IF Verdict(b) = "again" THEN Goto(p, "answer")
           ELSE Put(p, "intent", [base |-> Len(lines), events |-> b], "append")
        /\ UNCHANGED <<files, lock, accepted, calls, faults>>

Refuse(p) ==
    /\ At(p, "build") \/ (At(p, "lock") /\ backend = "sql" /\ proc[p].op # Replay)
    /\ Verdict(proc[p].op) = "refused"
    /\ End(p)
    /\ UNCHANGED <<files, accepted, calls, faults>>

Answer(p) ==
    /\ At(p, "answer")
    /\ accepted' = IF proc[p].op = Replay THEN accepted ELSE accepted \cup {proc[p].op}
    /\ End(p)
    /\ UNCHANGED <<files, calls, faults>>

\* sql_session_exists and sql_records: the rows of the session are checked like
\* the lines of the file.
SqlReadable == ParseComplete(lines)

\* append_sql reads, decides and writes in one transaction.
AppendSql(p) ==
    LET b == proc[p].op
    IN  /\ At(p, "lock") /\ backend = "sql" /\ SqlReadable
        /\ b # Replay => Verdict(b) # "refused"
        /\ lines' = IF b # Replay /\ Verdict(b) = "new" THEN lines \o b ELSE lines
        /\ Goto(p, "answer")
        /\ UNCHANGED <<backend, torn, intent, index, temps, lock, accepted, calls, faults>>

\* Every check of the recovery and of the index that ends in corruption().  There
\* is no step for it: NeverCorrupt says that it is not reached.
Corrupt(p) ==
    \/ At(p, "recover") /\ intent # NoFile /\ ~IntentMatches
    \/ At(p, "load") /\ ~ParseComplete(lines)
    \/ At(p, "load") /\ proc[p].op = Replay /\ torn # NoEvent
    \/ At(p, "load") /\ proc[p].op # Replay /\ ~IndexMatches
    \/ At(p, "temp") /\ proc[p].put.file \in temps
    \/ At(p, "lock") /\ backend = "sql" /\ ~SqlReadable

\* The process is killed, or a file operation fails and the error is returned:
\* the files stay as they are and the caller does not know what was accepted.
Interrupt(p) ==
    /\ ~ At(p, "idle") /\ faults < MaxFaults
    /\ faults' = faults + 1
    /\ End(p)
    /\ UNCHANGED <<files, accepted, calls>>

Step(p) ==
    \/ AcquireAppendLock(p) \/ LockTimeout(p) \/ RemoveStaleTemporary(p)
    \/ RecoverIntent(p) \/ BeginRecord(p) \/ EndRecord(p) \/ IndexAppended(p)
    \/ RemoveIntent(p) \/ WriteTemporary(p) \/ RemoveDestination(p)
    \/ RenameTemporary(p) \/ LoadIndex(p) \/ Build(p) \/ Refuse(p)
    \/ Answer(p) \/ AppendSql(p)

JournalNext == \E p \in Writers :
    (\E op \in Batches \cup {Replay} : Call(p, op)) \/ Step(p) \/ Interrupt(p)

JournalSpec == JournalInit /\ [][JournalNext]_journalVars
-----------------------------------------------------------------------------
\* Every variable has its type; only the holder of the lock is past it.
JournalTypeOK ==
    /\ lines \in Seq(Events)
    /\ torn \in Events \cup {NoEvent}
    /\ intent \in [base : Nat, events : Batches] \cup {NoFile}
    /\ temps \subseteq {"intent", "index"}
    /\ lock \in Writers \cup {Nobody}
    /\ accepted \subseteq Batches
    /\ \A p \in Writers : At(p, "idle") \/ At(p, "lock") \/ backend = "sql" \/ lock = p

\* Whatever was cut off at whatever step, the session stays readable: the next
\* operation never ends in corruption(), because recovery always finds files it
\* can repair; and what a reader without the lock verifies is a prefix of the
\* accepted log, a torn line being its next record.
NeverCorrupt ==
    /\ \A p \in Writers : ~Corrupt(p)
    /\ Summary = <<NoEvent>> \/ Starts(Summary, AcceptedLog)
    /\ torn # NoEvent => Len(lines) < Len(AcceptedLog) /\ AcceptedLog[Len(lines) + 1] = torn

\* The journal is a once-only log of whole batches: the batch is accepted when
\* its intent is renamed into place, or when the transaction commits.
OnceOnly == Log!Spec
=============================================================================
