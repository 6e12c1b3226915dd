-------------------------- MODULE RuntimeExchange --------------------------
(***************************************************************************)
(* Calls of shared clients over the runtime's transport: the retry loop    *)
(* (runtime/retry.rs, mutation_proxy.rs, proxy.rs), the client's half of   *)
(* an exchange (runtime/transport.rs), the owner's serve task              *)
(* (runtime/owner.rs) and the executor it feeds (module Executor).         *)
(*                                                                         *)
(* A Link is one authenticated connection of its client to one owner       *)
(* process.  Frames of a link arrive in order or not at all; what is not   *)
(* in order is the conversation: a client that gave up on an exchange      *)
(* keeps its connection and starts the next call on it, while the answer   *)
(* to the old one may still be under way.                                  *)
(*                                                                         *)
(* Every deadline (5 s per frame, 30 s per exchange, 25 s per call) is an  *)
(* action that may fire at any moment of the wait it bounds.               *)
(***************************************************************************)
EXTENDS Executor

CONSTANTS Clients,
          ClientOf,      \* [Links -> Clients]
          MaxRequests,   \* bound: request ids on one connection
          MaxCalls       \* bound: calls of all clients

ASSUME ExchangeAssumption ==
  /\ ClientOf \in [Links -> Clients]
  /\ MaxRequests \in Nat \ {0} /\ MaxCalls \in Nat

VARIABLES
  serve,     \* [Links -> "fresh", "open" or "closed"]: the serve task
  last,      \* [Links -> Nat]: last_request of the serve task
  toOwner,   \* [Links -> Seq(Frame)]: client frames not yet read
  toClient,  \* [Links -> Seq(Frame)]: owner frames not yet read
  call,      \* [Clients -> Call]: the retry loop and its RuntimeClient
  issued,    \* prepared mutations
  reply,     \* [Clients -> Reply]: outcome of the last call
  calls      \* calls made

wireVars == <<serve, last, toOwner, toClient>>
clientVars == <<call, issued, reply, calls>>
exchangeVars == <<execVars, wireVars, clientVars>>

Frame(t, i, x, a) == [type |-> t, id |-> i, cmd |-> x, answer |-> a]
FrameTypes == {"begin", "upload", "ready", "busy", "result"}
Frames == [type : FrameTypes, id : Nat, cmd : Commands \cup {NoCommand}, answer : Answer]

Phases == {"idle", "try", "connected", "begun", "sent"}
Call == [phase : Phases, cmd : Commands \cup {NoCommand}, since : Nat,
         link : Links \cup {NoLink}, id : Nat, retried : BOOLEAN]

Reply == [cmd : Commands \cup {NoCommand},
          kind : {"none", "ok", "error", "busy", "unknown"}, at : Nat]

ExchangeTypeOK ==
  /\ ExecTypeOK
  /\ serve \in [Links -> {"fresh", "open", "closed"}]
  /\ last \in [Links -> Nat]
  /\ toOwner \in [Links -> Seq(Frames)]
  /\ toClient \in [Links -> Seq(Frames)]
  /\ call \in [Clients -> Call]
  /\ issued \subseteq Mutations
  /\ reply \in [Clients -> Reply]
  /\ calls \in 0..MaxCalls

ExchangeInit ==
  /\ ExecInit
  /\ serve = [l \in Links |-> "fresh"]
  /\ last = [l \in Links |-> 0]
  /\ toOwner = [l \in Links |-> <<>>]
  /\ toClient = [l \in Links |-> <<>>]
  /\ call = [c \in Clients |->
               [phase |-> "idle", cmd |-> NoCommand, since |-> 0,
                link |-> NoLink, id |-> 0, retried |-> FALSE]]
  /\ issued = {}
  /\ reply = [c \in Clients |-> [cmd |-> NoCommand, kind |-> "none", at |-> 0]]
  /\ calls = 0

-----------------------------------------------------------------------------
(***************************************************************************)
(* The client.                                                             *)
(***************************************************************************)

\* The call is over.  Its RuntimeClient stays, broken or not, for the next one.
Finish(c, kind, at) ==
  /\ reply' = [reply EXCEPT ![c] = [cmd |-> call[c].cmd, kind |-> kind, at |-> at]]
  /\ call' = [call EXCEPT ![c].phase = "idle", ![c].cmd = NoCommand]
  /\ UNCHANGED <<issued, calls>>

\* The request bytes are prepared once, before attempt one.
Invoke(c, x) ==
  /\ call[c].phase = "idle" /\ calls < MaxCalls
  /\ x \in Queries \/ x \in Mutations \ issued
  /\ call' = [call EXCEPT ![c].phase = "try", ![c].cmd = x,
                          ![c].since = Len(log), ![c].retried = FALSE]
  /\ issued' = IF x \in Mutations THEN issued \cup {x} ELSE issued
  /\ calls' = calls + 1
  /\ UNCHANGED <<execVars, wireVars, reply>>

\* A transport error: the first one buys a new connection, unless the retry
\* deadline has passed; the second one ends the call.
TransportError(c) ==
  \/ /\ ~call[c].retried
     /\ call' = [call EXCEPT ![c].phase = "try", ![c].link = NoLink,
                             ![c].retried = TRUE]
     /\ UNCHANGED <<issued, reply, calls>>
  \/ Finish(c, "unknown", 0)

\* Busy: back off and try again on the same connection, or give up.
Backoff(c) ==
  \/ /\ call[c].id < MaxRequests
     /\ call' = [call EXCEPT ![c].phase = "try"]
     /\ UNCHANGED <<issued, reply, calls>>
  \/ Finish(c, "busy", 0)

\* The retry deadline at the head of the loop.
Expire(c) ==
  /\ call[c].phase = "try"
  /\ Finish(c, "unknown", 0)
  /\ UNCHANGED <<execVars, wireVars>>

Connect(c) ==
  /\ call[c].phase = "try" /\ call[c].link = NoLink
  /\ owner = "up"
  /\ \E l \in Links :
       /\ ClientOf[l] = c /\ serve[l] = "fresh"
       /\ serve' = [serve EXCEPT ![l] = "open"]
       /\ call' = [call EXCEPT ![c].phase = "connected", ![c].link = l, ![c].id = 0]
  /\ UNCHANGED <<execVars, last, toOwner, toClient, issued, reply, calls>>

ConnectFails(c) ==
  /\ call[c].phase = "try" /\ call[c].link = NoLink
  /\ TransportError(c)
  /\ UNCHANGED <<execVars, wireVars>>

\* Begin under the next request id.  Frames written to a connection whose
\* serve task has ended are lost.
ToOwner(l, frame) ==
  toOwner' = [toOwner EXCEPT ![l] = IF serve[l] = "open" THEN Append(@, frame) ELSE @]

SendBegin(c) ==
  /\ call[c].phase = "connected" \/ (call[c].phase = "try" /\ call[c].link # NoLink)
  /\ call[c].id < MaxRequests
  /\ call' = [call EXCEPT ![c].phase = "begun", ![c].id = @ + 1]
  /\ ToOwner(call[c].link, Frame("begin", call[c].id + 1, NoCommand, NoAnswer))
  /\ UNCHANGED <<execVars, serve, last, toClient, issued, reply, calls>>

\* Does the frame answer the request in progress?
Current(c, frame) == frame.id = call[c].id

\* The frame the client finds first on its connection.
Incoming(c) == Head(toClient[call[c].link])

Consume(c) ==
  /\ toClient[call[c].link] # <<>>
  /\ toClient' = [toClient EXCEPT ![call[c].link] = Tail(@)]

\* Ready starts the upload; Busy backs off; anything else breaks the exchange.
ReadAdmission(c) ==
  /\ call[c].phase = "begun"
  /\ Consume(c)
  /\ \/ /\ Incoming(c).type = "ready" /\ Current(c, Incoming(c))
        /\ call' = [call EXCEPT ![c].phase = "sent"]
        /\ ToOwner(call[c].link, Frame("upload", call[c].id, call[c].cmd, NoAnswer))
        /\ UNCHANGED <<issued, reply, calls>>
     \/ /\ Incoming(c).type = "busy" /\ Current(c, Incoming(c))
        /\ Backoff(c)
        /\ UNCHANGED toOwner
     \/ /\ ~(Incoming(c).type \in {"ready", "busy"} /\ Current(c, Incoming(c)))
        /\ TransportError(c)
        /\ UNCHANGED toOwner
  /\ UNCHANGED <<execVars, serve, last>>

\* The result, or Busy from a full channel, ends the attempt.
ReadResult(c) ==
  /\ call[c].phase = "sent"
  /\ Consume(c)
  /\ \/ /\ Incoming(c).type = "result" /\ Current(c, Incoming(c))
        /\ IF Incoming(c).answer.status = "ok"
             THEN Finish(c, "ok", Incoming(c).answer.at)
             ELSE Finish(c, "error", 0)
     \/ /\ Incoming(c).type = "busy" /\ Current(c, Incoming(c))
        /\ Backoff(c)
     \/ /\ ~(Incoming(c).type \in {"result", "busy"} /\ Current(c, Incoming(c)))
        /\ TransportError(c)
  /\ UNCHANGED <<execVars, serve, last, toOwner>>

\* Fault: no deadline on the wait for the result.
FaultPatient(c) ==
  /\ call[c].phase \in {"connected", "begun"}
  /\ TransportError(c)
  /\ UNCHANGED <<execVars, wireVars>>

\* End of stream, a frame or exchange deadline, a broken frame.
Broken(c) ==
  /\ call[c].phase \in {"connected", "begun", "sent"}
  /\ TransportError(c)
  /\ UNCHANGED <<execVars, wireVars>>

ClientStep(c) ==
  \/ Expire(c) \/ Connect(c) \/ ConnectFails(c) \/ SendBegin(c)
  \/ ReadAdmission(c) \/ ReadResult(c) \/ Broken(c)

-----------------------------------------------------------------------------
(***************************************************************************)
(* The owner's serve task.                                                 *)
(***************************************************************************)

\* A frame reaches the client unless it has dropped the connection.
ToClient(l, frame) ==
  toClient' = [toClient EXCEPT
                 ![l] = IF call[ClientOf[l]].link = l THEN Append(@, frame) ELSE @]

\* The serve task is between two exchanges.
Idle(l) == serve[l] = "open" /\ loc[l] = "none" /\ l \notin waiting

NextIs(l, type) == toOwner[l] # <<>> /\ Head(toOwner[l]).type = type

\* Begin: reserve and answer Ready, or answer Busy.
ServeBegin(l) ==
  /\ Idle(l) /\ NextIs(l, "begin")
  /\ Head(toOwner[l]).id > last[l]
  /\ last' = [last EXCEPT ![l] = Head(toOwner[l]).id]
  /\ toOwner' = [toOwner EXCEPT ![l] = Tail(@)]
  /\ \/ /\ Reserve(l)
        /\ ToClient(l, Frame("ready", last'[l], NoCommand, NoAnswer))
     \/ /\ free = 0
        /\ ToClient(l, Frame("busy", last'[l], NoCommand, NoAnswer))
        /\ UNCHANGED execVars
  /\ UNCHANGED <<serve, clientVars>>

\* The upload of the admitted request is complete: try_send.
ServeUpload(l) ==
  /\ serve[l] = "open" /\ loc[l] = "serve"
  /\ NextIs(l, "upload") /\ Head(toOwner[l]).id = last[l]
  /\ toOwner' = [toOwner EXCEPT ![l] = Tail(@)]
  /\ Submit(l, Head(toOwner[l]).cmd)
  /\ IF loc'[l] = "queue" THEN UNCHANGED toClient
     ELSE ToClient(l, Frame("busy", last[l], NoCommand, NoAnswer))
  /\ UNCHANGED <<serve, last, clientVars>>

\* receiver.await
ServeTake(l) ==
  /\ serve[l] = "open"
  /\ TakeReply(l)
  /\ UNCHANGED <<wireVars, clientVars>>

\* The result is written and its reservation returned.
ServeResult(l) ==
  /\ serve[l] = "open" /\ loc[l] = "writing"
  /\ ToClient(l, Frame("result", last[l], job[l], result[l]))
  /\ DropCompleted(l)
  /\ UNCHANGED <<serve, last, toOwner, clientVars>>

\* The task returns: end of stream, a frame out of place, a deadline (5 s
\* between frames, 30 s per exchange), quarantined Git, a failed write.  What
\* it holds of the exchange is dropped with it.
ServeEnds(l) ==
  /\ serve[l] = "open"
  /\ serve' = [serve EXCEPT ![l] = "closed"]
  /\ toOwner' = [toOwner EXCEPT ![l] = <<>>]
  /\ \/ Forfeit(l)
     \/ Disconnect(l)
     \/ DropCompleted(l)
     \/ Idle(l) /\ UNCHANGED execVars
  /\ UNCHANGED <<last, toClient, clientVars>>

ServeStep(l) ==
  ServeBegin(l) \/ ServeUpload(l) \/ ServeTake(l) \/ ServeResult(l) \/ ServeEnds(l)

-----------------------------------------------------------------------------
(***************************************************************************)
(* The owner process.                                                      *)
(***************************************************************************)

\* Every connection of the process is gone with its reactor.
CloseAll ==
  /\ serve' = [l \in Links |-> IF serve[l] = "open" THEN "closed" ELSE serve[l]]
  /\ toOwner' = [l \in Links |-> <<>>]
  /\ UNCHANGED <<last, toClient, clientVars>>

StopOwner == DropReactor /\ CloseAll
OwnerDies == Crash /\ CloseAll
OwnerGone == (JoinWorker \/ Restart) /\ UNCHANGED <<wireVars, clientVars>>
ThreadStep == Worker /\ UNCHANGED <<wireVars, clientVars>>

-----------------------------------------------------------------------------
ExchangeNext ==
  \/ \E c \in Clients : ClientStep(c) \/ \E x \in Commands : Invoke(c, x)
  \/ \E l \in Links : ServeStep(l)
  \/ ThreadStep \/ StopOwner \/ OwnerDies \/ OwnerGone

ExchangeSpec == ExchangeInit /\ [][ExchangeNext]_exchangeVars

\* A client's own deadlines fire: nothing is assumed of the owner.
ExchangeFairSpec ==
  ExchangeSpec /\ \A c \in Clients : WF_exchangeVars(ClientStep(c))

-----------------------------------------------------------------------------
(***************************************************************************)
(* Properties.                                                             *)
(***************************************************************************)

\* Retries, reconnects, stale answers, batching and owner replacement are
\* invisible: calls behave as calls of the abstract store, in which each
\* mutation takes effect once and each successful query reads a store that
\* existed during the call.
Contract ==
  INSTANCE SharedStore WITH
    store <- log,
    calling <- [c \in Clients |-> call[c].cmd],
    since <- [c \in Clients |-> call[c].since]

Linearizable == Contract!StoreSpec

\* No call hangs: not when the owner's thread is stuck, its process dead or
\* its channel full.
EveryCallReturns == \A c \in Clients : call[c].phase # "idle" ~> call[c].phase = "idle"

\* runtime/retry.rs: "Busy means the owner has not accepted this request."
BusyMeansNotAccepted ==
  \A c \in Clients : reply[c].kind = "busy" => ~InRange(reply[c].cmd, log)
=============================================================================
