----------------------- MODULE RuntimeExchangeProofs -----------------------
(***************************************************************************)
(* Calls over the runtime's transport are calls of the abstract store, for *)
(* every number of clients, connections, commands, retries and restarts of *)
(* the owner.  What makes it so is one conversation per connection: what a *)
(* client reads first on its connection either answers the request it has  *)
(* in progress, or carries an older id and breaks the exchange.            *)
(***************************************************************************)
EXTENDS RuntimeExchange, ExecutorProofs

\* The frames of a sequence, in no order.
Within(s) == {s[k] : k \in 1..Len(s)}

\* A job in the thread's hands, and an answer, belong to some command.
JobsKnown ==
  \A l \in Links : loc[l] \notin {"none", "serve"} => job[l] \in Commands

\* A call knows its command while it lasts; a mutation was asked for before it
\* is on its way anywhere.
Asked(x) == x \in Mutations => x \in issued

CallsKnown ==
  \A c \in Clients :
    /\ call[c].phase = "idle" <=> call[c].cmd = NoCommand
    /\ call[c].phase \in {"connected", "begun", "sent"} => call[c].link # NoLink
    /\ Asked(call[c].cmd) /\ call[c].since <= Len(log)

WorkKnown ==
  \A l \in Links :
    /\ Asked(job[l])
    /\ \A f \in Within(toOwner[l]) : f.type = "upload" => f.cmd \in Commands /\ Asked(f.cmd)

\* Owner frames carry ids the serve task has read.
IdsKnown ==
  \A l \in Links :
    /\ serve[l] = "fresh" => last[l] = 0 /\ toOwner[l] = <<>>
    /\ \A f \in Within(toClient[l]) : f.id <= last[l]

\* An answer the call in progress may return.
Sound(x, from, f) ==
  /\ f.cmd = x
  /\ f.answer.status = "ok" =>
       /\ x \in Queries => f.answer.at \in from..Len(log)
       /\ x \in Mutations => f.answer.at \in 1..Len(log) /\ log[f.answer.at] = x

\* Between Begin and Ready nothing under the new id has passed the admission.
Admitting(l, n) ==
  /\ \A f \in Within(toOwner[l]) : f.type = "upload" => f.id # n
  /\ \A f \in Within(toClient[l]) : f.type = "result" => f.id # n
  /\ last[l] = n => loc[l] \in {"none", "serve"}

\* After it everything under that id belongs to the call's command.
Answering(l, n, x, from) ==
  /\ last[l] = n
  /\ job[l] \in {NoCommand, x}
  /\ \A f \in Within(toOwner[l]) : f.type = "upload" /\ f.id = n => f.cmd = x
  /\ \A f \in Within(toClient[l]) : f.type = "result" /\ f.id = n => Sound(x, from, f)

\* The conversation of a client on the connection it has.
Conversation(c) ==
  LET l == call[c].link
      n == call[c].id
  IN  l # NoLink =>
        /\ ClientOf[l] = c /\ serve[l] # "fresh"
        /\ last[l] <= n /\ \A f \in Within(toOwner[l]) : f.id <= n
        /\ call[c].phase = "begun" => Admitting(l, n)
        /\ call[c].phase \in {"begun", "sent"} /\ last[l] = n /\ loc[l] # "none" =>
             call[c].since <= seen[l]
        /\ call[c].phase = "sent" => Answering(l, n, call[c].cmd, call[c].since)

Conversations == \A c \in Clients : Conversation(c)

ExchangeInv ==
  ExchangeTypeOK /\ JobsKnown /\ CallsKnown /\ WorkKnown /\ IdsKnown /\ Conversations

-----------------------------------------------------------------------------
\* Facts about sequences of frames.

LEMMA WithinEmpty == Within(<<>>) = {}
BY EmptySeq DEF Within

LEMMA WithinTyped ==
  ASSUME NEW S, NEW s \in Seq(S)
  PROVE  Within(s) \subseteq S
BY ElementOfSeq DEF Within

LEMMA WithinAppend ==
  ASSUME NEW S, NEW s \in Seq(S), NEW e \in S
  PROVE  /\ Append(s, e) \in Seq(S)
         /\ Within(Append(s, e)) = Within(s) \cup {e}
<1>1. /\ Append(s, e) \in Seq(S) /\ Len(s) \in Nat
      /\ Len(Append(s, e)) = Len(s) + 1 /\ Append(s, e)[Len(s) + 1] = e
      /\ \A k \in 1..Len(s) : Append(s, e)[k] = s[k]
  BY AppendProperties, LenProperties
<1>2. ASSUME NEW x \in Within(Append(s, e)) PROVE x \in Within(s) \cup {e}
  BY <1>1, <1>2 DEF Within
<1>3. ASSUME NEW x \in Within(s) PROVE x \in Within(Append(s, e))
  <2>1. PICK k \in 1..Len(s) : x = s[k]
    BY <1>3 DEF Within
  <2>2. k \in 1..Len(Append(s, e)) /\ x = Append(s, e)[k]
    BY <1>1, <2>1
  <2>3. QED
    BY <2>2 DEF Within
<1>4. e \in Within(Append(s, e))
  BY <1>1 DEF Within
<1>5. QED
  BY <1>1, <1>2, <1>3, <1>4

LEMMA WithinTail ==
  ASSUME NEW S, NEW s \in Seq(S), s # <<>>
  PROVE  /\ Head(s) \in Within(s) /\ Head(s) \in S
         /\ Tail(s) \in Seq(S) /\ Within(Tail(s)) \subseteq Within(s)
<1>1. /\ Head(s) \in S /\ Tail(s) \in Seq(S) /\ Len(Tail(s)) = Len(s) - 1
      /\ \A k \in 1..Len(Tail(s)) : Tail(s)[k] = s[k + 1]
      /\ Head(s) = s[1] /\ Len(s) \in Nat \ {0}
  BY HeadTailProperties, EmptySeq, LenProperties
<1>2. Head(s) \in Within(s)
  BY <1>1 DEF Within
<1>3. ASSUME NEW x \in Within(Tail(s)) PROVE x \in Within(s)
  <2>1. PICK k \in 1..Len(Tail(s)) : x = Tail(s)[k]
    BY <1>3 DEF Within
  <2>2. k + 1 \in 1..Len(s) /\ x = s[k + 1]
    BY <1>1, <2>1
  <2>3. QED
    BY <2>2 DEF Within
<1>4. QED
  BY <1>1, <1>2, <1>3

-----------------------------------------------------------------------------
\* What the executor's steps do to the links and to the store.

\* The store only grows.
Grows == /\ Len(log) \in Nat /\ Len(log') \in Nat /\ Len(log) <= Len(log')
         /\ \A k \in 1..Len(log) : log'[k] = log[k]

LEMMA StoreGrows ==
  ASSUME ExecTypeOK, [ExecNext]_execVars
  PROVE  Grows
<1>1. Len(log) \in Nat
  BY LenProperties DEF ExecTypeOK
<1>2. CASE CommitMutation
  BY <1>1, <1>2, CommitAppends DEF Grows
<1>3. CASE log' = log
  BY <1>1, <1>3 DEF Grows
<1>4. QED
  BY <1>2, <1>3, LogSteps DEF execVars

\* Neither the thread nor the process gives a link work; they only take it.
Idles == \A l \in Links :
  /\ loc[l] \in {"none", "serve"} => loc'[l] \in {"none", "serve"}
  /\ loc'[l] # "none" => loc[l] # "none"
  /\ job'[l] \in {job[l], NoCommand}
  /\ seen'[l] = seen[l]

LEMMA ThreadIdles ==
  ASSUME IInv, JobsKnown, Worker
  PROVE  Idles /\ JobsKnown'
<1>1. ShapeInv /\ ExecTypeOK
  BY DEF IInv, ShapeInv
<1>2. CASE RecvPending \/ RecvQueue \/ Join \/ Barrier
  <2>1. PICK x \in Accepted, p \in {"group", "pending"} : loc' = [loc EXCEPT ![x] = p]
    BY <1>1, <1>2, HeadsAccepted DEF RecvPending, RecvQueue, Join, Barrier
  <2>2. job' = job /\ seen' = seen
    BY <1>2 DEF RecvPending, RecvQueue, Join, Barrier
  <2>3. QED
    BY <1>1, <2>1, <2>2 DEF ExecTypeOK, Accepted, Idles, JobsKnown
<1>3. CASE CloseWindow \/ Execute
  BY <1>3 DEF CloseWindow, Execute, ExecuteQuery, ReplayMutation, CommitMutation,
              RefuseMutation, Idles, JobsKnown
<1>4. CASE Deliver
  <2>1. Head(group) \in Accepted /\ Head(group) \in Links
    BY <1>1, <1>4, DeliverFacts
  <2>2. CASE Head(group) \in waiting
    BY <1>1, <1>4, <2>1, <2>2 DEF Deliver, ExecTypeOK, Accepted, Idles, JobsKnown
  <2>3. CASE Head(group) \notin waiting
    BY <1>1, <1>4, <2>1, <2>3 DEF Deliver, Release, ExecTypeOK, Idles, JobsKnown
  <2>4. QED
    BY <2>2, <2>3
<1>5. QED
  BY <1>2, <1>3, <1>4 DEF Worker

LEMMA ProcessIdles ==
  ASSUME ExecTypeOK, JobsKnown, Process
  PROVE  Idles /\ JobsKnown'
<1>1. CASE DropReactor
  BY <1>1 DEF DropReactor, Accepted, Idles, JobsKnown
<1>2. CASE JoinWorker \/ Restart
  BY <1>2 DEF JoinWorker, Restart, Idles, JobsKnown
<1>3. CASE Crash
  BY <1>3 DEF Crash, Idles, JobsKnown
<1>4. QED
  BY <1>1, <1>2, <1>3 DEF Process

\* A link's own steps leave the others alone.
LEMMA TaskIdles ==
  ASSUME ExecTypeOK, JobsKnown, NEW l \in Links,
         Forfeit(l) \/ Disconnect(l) \/ DropCompleted(l) \/ TakeReply(l)
  PROVE  Idles /\ JobsKnown'
<1>1. CASE Forfeit(l) \/ DropCompleted(l)
  BY <1>1 DEF Forfeit, DropCompleted, Release, ExecTypeOK, Idles, JobsKnown
<1>2. CASE Disconnect(l)
  BY <1>2 DEF Disconnect, Release, ExecTypeOK, Idles, JobsKnown
<1>3. CASE TakeReply(l)
  BY <1>3 DEF TakeReply, ExecTypeOK, Idles, JobsKnown
<1>4. QED
  BY <1>1, <1>2, <1>3

LEMMA ReserveFacts ==
  ASSUME ExecTypeOK, JobsKnown, NEW l \in Links, Reserve(l)
  PROVE  /\ loc' = [loc EXCEPT ![l] = "serve"] /\ seen' = [seen EXCEPT ![l] = Len(log)]
         /\ job' = job /\ log' = log /\ loc[l] = "none" /\ JobsKnown'
BY DEF Reserve, ExecTypeOK, JobsKnown

LEMMA SubmitFacts ==
  ASSUME ExecTypeOK, JobsKnown, NEW l \in Links, NEW x \in Commands, Submit(l, x)
  PROVE  /\ loc[l] = "serve" /\ log' = log /\ seen' = seen
         /\ loc'[l] = "queue" => job'[l] = x
         /\ loc'[l] # "queue" => loc'[l] = "none" /\ job'[l] = NoCommand
         /\ \A k \in Links \ {l} : loc'[k] = loc[k] /\ job'[k] = job[k]
         /\ JobsKnown'
<1>1. CASE Len(queue) < MaxExchanges
  BY <1>1 DEF Submit, ExecTypeOK, JobsKnown
<1>2. CASE ~(Len(queue) < MaxExchanges)
  BY <1>2 DEF Submit, Release, ExecTypeOK, JobsKnown
<1>3. QED
  BY <1>1, <1>2

-----------------------------------------------------------------------------
\* The client's record of its call.

Becomes(c, p, x, n, k, i) ==
  /\ call' \in [Clients -> Call]
  /\ call'[c].phase = p /\ call'[c].cmd = x /\ call'[c].since = n
  /\ call'[c].link = k /\ call'[c].id = i
  /\ \A d \in Clients \ {c} : call'[d] = call[d]

LEMMA CallTyped ==
  ASSUME call \in [Clients -> Call], NEW c \in Clients
  PROVE  /\ call[c].phase \in Phases /\ call[c].cmd \in Commands \cup {NoCommand}
         /\ call[c].since \in Nat /\ call[c].link \in Links \cup {NoLink}
         /\ call[c].id \in Nat /\ call[c].retried \in BOOLEAN
BY DEF Call

\* The phases, one update of the record each.
LEMMA FinishBecomes ==
  ASSUME ExchangeTypeOK, NEW c \in Clients, NEW at \in Nat,
         NEW k \in {"ok", "error", "busy", "unknown"}, Finish(c, k, at)
  PROVE  /\ Becomes(c, "idle", NoCommand, call[c].since, call[c].link, call[c].id)
         /\ reply' = [reply EXCEPT ![c] = [cmd |-> call[c].cmd, kind |-> k, at |-> at]]
         /\ reply' \in [Clients -> Reply] /\ UNCHANGED <<issued, calls>>
<1>1. call \in [Clients -> Call] /\ reply \in [Clients -> Reply]
  BY DEF ExchangeTypeOK
<1>2. call' = [call EXCEPT ![c].phase = "idle", ![c].cmd = NoCommand]
      /\ reply' = [reply EXCEPT ![c] = [cmd |-> call[c].cmd, kind |-> k, at |-> at]]
      /\ UNCHANGED <<issued, calls>>
  BY DEF Finish
<1>3. call[c].cmd \in Commands \cup {NoCommand}
  BY <1>1, CallTyped
<1>4. "idle" \in Phases /\ NoCommand \in Commands \cup {NoCommand}
  BY DEF Phases
<1>5. Becomes(c, "idle", NoCommand, call[c].since, call[c].link, call[c].id)
  BY <1>1, <1>2, <1>4 DEF Becomes, Call
<1>6. [cmd |-> call[c].cmd, kind |-> k, at |-> at] \in Reply
  BY <1>3 DEF Reply
<1>7. QED
  BY <1>1, <1>2, <1>5, <1>6

\* The call waits for another attempt, or is over.
Retreated(c) ==
  \/ /\ \E k \in {NoLink, call[c].link} :
          Becomes(c, "try", call[c].cmd, call[c].since, k, call[c].id)
     /\ UNCHANGED <<issued, reply, calls>>
  \/ \E k \in {"ok", "error", "busy", "unknown"}, at \in Nat : Finish(c, k, at)

LEMMA ErrorRetreats ==
  ASSUME ExchangeTypeOK, NEW c \in Clients, TransportError(c) \/ Backoff(c)
  PROVE  Retreated(c)
<1>1. call \in [Clients -> Call]
  BY DEF ExchangeTypeOK
<1>2. "try" \in Phases /\ NoLink \in Links \cup {NoLink} /\ TRUE \in BOOLEAN
  BY DEF Phases
<1>3. CASE /\ call' = [call EXCEPT ![c].phase = "try", ![c].link = NoLink,
                                    ![c].retried = TRUE]
           /\ UNCHANGED <<issued, reply, calls>>
  <2>1. PICK old \in Call : old = call[c]
    BY <1>1
  <2>2. PICK new : new = [old EXCEPT !.phase = "try", !.link = NoLink, !.retried = TRUE]
    OBVIOUS
  <2>3. /\ new \in Call /\ new.phase = "try" /\ new.cmd = old.cmd /\ new.since = old.since
        /\ new.link = NoLink /\ new.id = old.id
    BY <1>2, <2>2 DEF Call
  <2>4. call' = [call EXCEPT ![c] = new]
    BY <1>1, <1>3, <2>1, <2>2 DEF Call
  <2>5. call' \in [Clients -> Call] /\ call'[c] = new /\ \A d \in Clients \ {c} : call'[d] = call[d]
    BY <1>1, <2>3, <2>4
  <2>6. Becomes(c, "try", call[c].cmd, call[c].since, NoLink, call[c].id)
    BY <2>1, <2>3, <2>5 DEF Becomes
  <2>7. QED
    BY <1>3, <2>6 DEF Retreated
<1>4. CASE /\ call' = [call EXCEPT ![c].phase = "try"]
           /\ UNCHANGED <<issued, reply, calls>>
  <2>1. Becomes(c, "try", call[c].cmd, call[c].since, call[c].link, call[c].id)
    BY <1>1, <1>2, <1>4 DEF Becomes, Call
  <2>2. QED
    BY <1>4, <2>1 DEF Retreated
<1>5. CASE Finish(c, "busy", 0) \/ Finish(c, "unknown", 0)
  BY <1>5 DEF Retreated
<1>6. QED
  BY <1>3, <1>4, <1>5 DEF TransportError, Backoff

-----------------------------------------------------------------------------
(***************************************************************************)
(* Conversations.                                                          *)
(***************************************************************************)

\* Nothing new happens on a connection.
Calm(l) ==
  /\ last'[l] = last[l] /\ seen'[l] = seen[l]
  /\ serve'[l] = "fresh" => serve[l] = "fresh"
  /\ Within(toOwner'[l]) \subseteq Within(toOwner[l])
  /\ Within(toClient'[l]) \subseteq Within(toClient[l])
  /\ loc[l] \in {"none", "serve"} => loc'[l] \in {"none", "serve"}
  /\ loc'[l] # "none" => loc[l] # "none"
  /\ job'[l] \in {job[l], NoCommand}

\* An answer stays sound: the store only grows.
LEMMA SoundKept ==
  ASSUME Grows, NEW x, NEW from \in Nat, NEW f, Sound(x, from, f)
  PROVE  Sound(x, from, f)'
BY DEF Grows, Sound

\* A client that goes on waiting, gives up or asks anew on a calm connection.
LEMMA CalmConversation ==
  ASSUME ExchangeInv, Grows, NEW c \in Clients, Conversation(c),
         call[c].link # NoLink => Calm(call[c].link),
         call'[c].link \in {NoLink, call[c].link}, call'[c].id = call[c].id,
         call'[c] = call[c] \/ call'[c].phase \in {"idle", "try"}
  PROVE  Conversation(c)'
<1>1. SUFFICES ASSUME call'[c].link # NoLink PROVE Conversation(c)'
  BY DEF Conversation
<1>2. call'[c].link = call[c].link /\ call[c].link # NoLink
  BY <1>1
<1>3. DEFINE l == call[c].link
             n == call[c].id
<1>4. Calm(l) /\ l \in Links
  BY <1>2, CallTyped DEF ExchangeInv, ExchangeTypeOK
<1>5. /\ ClientOf[l] = c /\ serve[l] # "fresh"
      /\ last[l] <= n /\ \A f \in Within(toOwner[l]) : f.id <= n
      /\ call[c].phase = "begun" => Admitting(l, n)
      /\ call[c].phase \in {"begun", "sent"} /\ last[l] = n /\ loc[l] # "none" =>
           call[c].since <= seen[l]
      /\ call[c].phase = "sent" => Answering(l, n, call[c].cmd, call[c].since)
  BY <1>2 DEF Conversation
<1>6. call[c].since \in Nat
  BY CallTyped DEF ExchangeInv, ExchangeTypeOK
<1>7. ASSUME call'[c] = call[c], call[c].phase = "begun" PROVE Admitting(l, n)'
  <2>1. Admitting(l, n)
    BY <1>5, <1>7
  <2>2. QED
    BY <1>2, <1>4, <1>7, <2>1 DEF Admitting, Calm
<1>8. ASSUME call'[c] = call[c], call[c].phase = "sent"
      PROVE  Answering(l, n, call[c].cmd, call[c].since)'
  <2>1. Answering(l, n, call[c].cmd, call[c].since)
    BY <1>5, <1>8
  <2>2. ASSUME NEW f \in Within(toClient[l]), f.type = "result", f.id = n
        PROVE  Sound(call[c].cmd, call[c].since, f)'
    <3>1. Sound(call[c].cmd, call[c].since, f)
      BY <2>1, <2>2 DEF Answering
    <3>2. QED
      BY <1>6, <1>8, <3>1 DEF Grows, Sound
  <2>3. QED
    BY <1>2, <1>4, <1>8, <2>1, <2>2 DEF Answering, Calm
<1>9. /\ serve'[l] # "fresh" /\ last'[l] <= n
      /\ \A f \in Within(toOwner'[l]) : f.id <= n
      /\ last'[l] = n /\ loc'[l] # "none" => last[l] = n /\ loc[l] # "none"
      /\ seen'[l] = seen[l]
  BY <1>4, <1>5 DEF Calm
<1>10. QED
  BY <1>2, <1>5, <1>7, <1>8, <1>9 DEF Conversation

-----------------------------------------------------------------------------
(***************************************************************************)
(* The client's steps.                                                     *)
(***************************************************************************)

\* The executor stands still and the wire keeps its types.
Aside == /\ UNCHANGED execVars
         /\ serve' \in [Links -> {"fresh", "open", "closed"}]
         /\ last' \in [Links -> Nat]
         /\ toOwner' \in [Links -> Seq(Frames)]
         /\ toClient' \in [Links -> Seq(Frames)]

\* What has to be said of a call that moves, the rest being as before.
LEMMA CallMoves ==
  ASSUME ExchangeInv, Aside, NEW c \in Clients,
         NEW p \in Phases, NEW x \in Commands \cup {NoCommand}, NEW n \in Nat,
         NEW k \in Links \cup {NoLink}, NEW i \in Nat, Becomes(c, p, x, n, k, i),
         p = "idle" <=> x = NoCommand,
         p \in {"connected", "begun", "sent"} => k # NoLink,
         issued \subseteq issued', issued' \subseteq Mutations,
         x \in Mutations => x \in issued', n <= Len(log),
         reply' \in [Clients -> Reply], calls' \in 0..MaxCalls,
         WorkKnown', IdsKnown', Conversations'
  PROVE  ExchangeInv'
<1>1. ExchangeTypeOK'
  BY DEF ExchangeInv, ExchangeTypeOK, Aside, Becomes, execVars, ExecTypeOK
<1>2. JobsKnown'
  BY DEF ExchangeInv, JobsKnown, Aside, execVars
<1>3. CallsKnown'
  <2>1. ASSUME NEW d \in Clients \ {c}
        PROVE  /\ call'[d].phase = "idle" <=> call'[d].cmd = NoCommand
               /\ call'[d].phase \in {"connected", "begun", "sent"} => call'[d].link # NoLink
               /\ Asked(call[d].cmd)' /\ call'[d].since <= Len(log')
    BY <2>1 DEF ExchangeInv, CallsKnown, Becomes, Asked, Aside, execVars
  <2>2. /\ call'[c].phase = "idle" <=> call'[c].cmd = NoCommand
        /\ call'[c].phase \in {"connected", "begun", "sent"} => call'[c].link # NoLink
        /\ Asked(call[c].cmd)' /\ call'[c].since <= Len(log')
    BY DEF Becomes, Asked, Aside, execVars
  <2>3. QED
    BY <2>1, <2>2 DEF CallsKnown
<1>4. QED
  BY <1>1, <1>2, <1>3 DEF ExchangeInv

\* Connections on which nobody does anything are calm.
LEMMA AsideCalm ==
  ASSUME Aside, NEW l \in Links, last'[l] = last[l], serve'[l] = serve[l],
         Within(toOwner'[l]) \subseteq Within(toOwner[l]),
         Within(toClient'[l]) \subseteq Within(toClient[l])
  PROVE  Calm(l)
BY DEF Aside, execVars, Calm

LEMMA AsideGrows == ASSUME ExchangeInv, Aside PROVE Grows
BY LenProperties DEF ExchangeInv, ExchangeTypeOK, ExecTypeOK, Aside, execVars, Grows

\* The conversations of the other clients are on other connections.
LEMMA OthersConverse ==
  ASSUME ExchangeInv, Aside, NEW c \in Clients,
         \A d \in Clients \ {c} : call'[d] = call[d],
         \A l \in Links : ClientOf[l] # c =>
            /\ last'[l] = last[l] /\ serve'[l] = serve[l]
            /\ toOwner'[l] = toOwner[l] /\ toClient'[l] = toClient[l]
  PROVE  \A d \in Clients \ {c} : Conversation(d)'
<1>1. SUFFICES ASSUME NEW d \in Clients \ {c} PROVE Conversation(d)'
  OBVIOUS
<1>2. Conversation(d)
  BY DEF ExchangeInv, Conversations
<1>3. ASSUME call[d].link # NoLink PROVE Calm(call[d].link)
  <2>1. call[d].link \in Links
    BY <1>3, CallTyped DEF ExchangeInv, ExchangeTypeOK
  <2>2. ClientOf[call[d].link] = d
    BY <1>2, <1>3 DEF Conversation
  <2>3. QED
    BY <2>1, <2>2, AsideCalm
<1>4. QED
  BY <1>2, <1>3, AsideGrows, CalmConversation

\* A mutation that was asked for stays so; the owner's half is as before.
LEMMA WorkAside ==
  ASSUME ExchangeInv, Aside, issued \subseteq issued',
         \A l \in Links : \A f \in Within(toOwner'[l]) :
            f.type = "upload" => f \in Within(toOwner[l]) \/ (f.cmd \in Commands /\ Asked(f.cmd))
  PROVE  WorkKnown'
<1>1. \A x : Asked(x) => Asked(x)'
  BY DEF Asked
<1>2. job' = job
  BY DEF Aside, execVars
<1>3. QED
  BY <1>1, <1>2 DEF ExchangeInv, WorkKnown

\* Nothing but the call changes, or the first frame is read with it.
LEMMA ReadsOnly ==
  ASSUME ExchangeInv, UNCHANGED <<execVars, serve, last, toOwner>>, NEW c \in Clients,
         NEW l, toClient' = toClient \/
                (/\ l \in Links /\ ClientOf[l] = c
                 /\ toClient[l] # <<>> /\ toClient' = [toClient EXCEPT ![l] = Tail(@)])
  PROVE  /\ Aside /\ IdsKnown'
         /\ \A k \in Links : Within(toClient'[k]) \subseteq Within(toClient[k])
         /\ \A k \in Links : ClientOf[k] # c => toClient'[k] = toClient[k]
<1>1. ExchangeTypeOK /\ IdsKnown
  BY DEF ExchangeInv
<1>2. /\ toClient' \in [Links -> Seq(Frames)]
      /\ \A k \in Links : Within(toClient'[k]) \subseteq Within(toClient[k])
      /\ \A k \in Links : ClientOf[k] # c => toClient'[k] = toClient[k]
  <2>1. CASE toClient' = toClient
    BY <1>1, <2>1 DEF ExchangeTypeOK
  <2>2. CASE /\ l \in Links /\ ClientOf[l] = c
             /\ toClient[l] # <<>> /\ toClient' = [toClient EXCEPT ![l] = Tail(@)]
    <3>1. toClient[l] \in Seq(Frames) /\ toClient \in [Links -> Seq(Frames)]
      BY <1>1, <2>2 DEF ExchangeTypeOK
    <3>2. Tail(toClient[l]) \in Seq(Frames)
          /\ Within(Tail(toClient[l])) \subseteq Within(toClient[l])
      BY <2>2, <3>1, WithinTail
    <3>3. QED
      BY <2>2, <3>1, <3>2
  <2>3. QED
    BY <2>1, <2>2
<1>3. IdsKnown'
  BY <1>1, <1>2 DEF IdsKnown
<1>4. QED
  BY <1>1, <1>2, <1>3 DEF Aside, ExchangeTypeOK

\* The connection a client has is its own.
LEMMA OwnLink ==
  ASSUME ExchangeInv, NEW c \in Clients, call[c].link # NoLink
  PROVE  /\ call[c].link \in Links /\ ClientOf[call[c].link] = c
         /\ toOwner[call[c].link] \in Seq(Frames) /\ toClient[call[c].link] \in Seq(Frames)
<1>1. call[c].link \in Links
  BY CallTyped DEF ExchangeInv, ExchangeTypeOK
<1>2. Conversation(c)
  BY DEF ExchangeInv, Conversations
<1>3. QED
  BY <1>1, <1>2 DEF Conversation, ExchangeInv, ExchangeTypeOK

\* A client that gives an attempt or its call up keeps the invariant, whether
\* it read a frame or not.
LEMMA RetreatInv ==
  ASSUME ExchangeInv, NEW c \in Clients, Retreated(c), call[c].phase # "idle",
         UNCHANGED <<execVars, serve, last, toOwner>>,
         toClient' = toClient \/ (call[c].link # NoLink /\ Consume(c))
  PROVE  ExchangeInv'
<1>1. /\ Aside /\ IdsKnown'
      /\ \A k \in Links : Within(toClient'[k]) \subseteq Within(toClient[k])
      /\ \A k \in Links : ClientOf[k] # c => toClient'[k] = toClient[k]
  BY ReadsOnly, OwnLink DEF Consume
<1>2. ExchangeTypeOK /\ Conversation(c) /\ Asked(call[c].cmd) /\ call[c].since <= Len(log)
      /\ call[c].cmd # NoCommand
  BY DEF ExchangeInv, Conversations, CallsKnown
<1>3. /\ call[c].cmd \in Commands \cup {NoCommand}
      /\ call[c].since \in Nat /\ call[c].link \in Links \cup {NoLink}
      /\ call[c].id \in Nat
  BY <1>2, CallTyped DEF ExchangeTypeOK
<1>4. \A l \in Links : Calm(l)
  BY <1>1, AsideCalm
<1>5. ASSUME NEW p \in {"try", "idle"}, NEW x, NEW k \in {NoLink, call[c].link},
             Becomes(c, p, x, call[c].since, k, call[c].id)
      PROVE  Conversations'
  <2>1. Conversation(c)'
    BY <1>1, <1>2, <1>3, <1>4, <1>5, AsideGrows, CalmConversation DEF Becomes
  <2>2. \A d \in Clients \ {c} : Conversation(d)'
    BY <1>1, <1>5, OthersConverse DEF Becomes
  <2>3. QED
    BY <2>1, <2>2 DEF Conversations
<1>6. "try" \in Phases /\ "idle" \in Phases /\ NoCommand \in Commands \cup {NoCommand}
      /\ NoLink \in Links \cup {NoLink} /\ Asked(NoCommand)
  BY ExecutorAssumption DEF Phases, Asked, Commands
<1>7. CASE /\ \E k \in {NoLink, call[c].link} :
                 Becomes(c, "try", call[c].cmd, call[c].since, k, call[c].id)
           /\ UNCHANGED <<issued, reply, calls>>
  <2>1. PICK k \in {NoLink, call[c].link} :
               Becomes(c, "try", call[c].cmd, call[c].since, k, call[c].id)
    BY <1>7
  <2>2. WorkKnown'
    BY <1>1, <1>7, WorkAside
  <2>3. issued \subseteq issued' /\ issued' \subseteq Mutations
        /\ reply' \in [Clients -> Reply] /\ calls' \in 0..MaxCalls
    BY <1>2, <1>7 DEF ExchangeTypeOK
  <2>4. (call[c].cmd \in Mutations => call[c].cmd \in issued')
    BY <1>2, <1>7 DEF Asked
  <2>5. DEFINE x == call[c].cmd
               n == call[c].since
               i == call[c].id
  <2>6. x \in Commands \cup {NoCommand} /\ n \in Nat /\ i \in Nat /\ x # NoCommand
        /\ (x \in Mutations => x \in issued') /\ n <= Len(log)
        /\ Becomes(c, "try", x, n, k, i)
    BY <1>2, <1>3, <2>1, <2>4
  <2>7. QED
    BY <1>1, <1>3, <1>5, <1>6, <2>1, <2>2, <2>3, <2>6, CallMoves
<1>8. ASSUME NEW k \in {"ok", "error", "busy", "unknown"}, NEW at \in Nat, Finish(c, k, at)
      PROVE  ExchangeInv'
  <2>1. /\ Becomes(c, "idle", NoCommand, call[c].since, call[c].link, call[c].id)
        /\ reply' \in [Clients -> Reply] /\ UNCHANGED <<issued, calls>>
    BY <1>2, <1>8, FinishBecomes
  <2>2. WorkKnown'
    BY <1>1, <2>1, WorkAside
  <2>3. QED
    BY <1>1, <1>2, <1>3, <1>5, <1>6, <2>1, <2>2, CallMoves, ExecutorAssumption
    DEF ExchangeTypeOK, Asked, Commands
<1>9. QED
  BY <1>7, <1>8 DEF Retreated

LEMMA InvokeInv ==
  ASSUME ExchangeInv, NEW c \in Clients, NEW x \in Commands, Invoke(c, x)
  PROVE  ExchangeInv'
<1>1. /\ call[c].phase = "idle" /\ calls < MaxCalls
      /\ call' = [call EXCEPT ![c].phase = "try", ![c].cmd = x,
                          ![c].since = Len(log), ![c].retried = FALSE]
      /\ issued' = IF x \in Mutations THEN issued \cup {x} ELSE issued
      /\ calls' = calls + 1
      /\ UNCHANGED <<execVars, serve, last, toOwner, toClient, reply>>
  BY DEF Invoke, wireVars
<1>2. ExchangeTypeOK /\ Conversation(c)
  BY DEF ExchangeInv, Conversations
<1>3. Len(log) \in Nat
  BY <1>2, LenProperties DEF ExchangeTypeOK, ExecTypeOK
<1>4. Becomes(c, "try", x, Len(log), call[c].link, call[c].id)
  <2>1. "try" \in Phases /\ x \in Commands \cup {NoCommand} /\ FALSE \in BOOLEAN
    BY DEF Phases
  <2>2. call \in [Clients -> Call]
    BY <1>2 DEF ExchangeTypeOK
  <2>3. PICK n \in Nat : n = Len(log)
    BY <1>3
  <2>4. PICK old \in Call : old = call[c]
    BY <2>2
  <2>5. PICK new : new = [old EXCEPT !.phase = "try", !.cmd = x, !.since = n, !.retried = FALSE]
    OBVIOUS
  <2>6. /\ new \in Call /\ new.phase = "try" /\ new.cmd = x /\ new.since = n
        /\ new.link = old.link /\ new.id = old.id
    BY <2>1, <2>5 DEF Call
  <2>7. call' = [call EXCEPT ![c] = new]
    BY <1>1, <2>2, <2>3, <2>4, <2>5 DEF Call
  <2>8. call' \in [Clients -> Call] /\ call'[c] = new /\ \A d \in Clients \ {c} : call'[d] = call[d]
    BY <2>2, <2>6, <2>7
  <2>9. QED
    BY <2>3, <2>4, <2>6, <2>8 DEF Becomes
<1>5. Aside /\ IdsKnown'
  BY <1>1 DEF Aside, ExchangeInv, ExchangeTypeOK, IdsKnown
<1>6. \A l \in Links : Calm(l)
  BY <1>1, <1>5, AsideCalm
<1>7. Conversations'
  <2>1. Conversation(c)'
    BY <1>2, <1>4, <1>5, <1>6, AsideGrows, CalmConversation, CallTyped
    DEF Becomes, ExchangeTypeOK
  <2>2. \A d \in Clients \ {c} : Conversation(d)'
    BY <1>1, <1>4, <1>5, OthersConverse DEF Becomes
  <2>3. QED
    BY <2>1, <2>2 DEF Conversations
<1>8. WorkKnown'
  BY <1>1, <1>5, WorkAside
<1>9. /\ "try" \in Phases /\ x \in Commands \cup {NoCommand} /\ x # NoCommand
      /\ call[c].link \in Links \cup {NoLink} /\ call[c].id \in Nat
  BY <1>2, CallTyped, ExecutorAssumption DEF Phases, Commands, ExchangeTypeOK
<1>10. /\ calls' \in 0..MaxCalls /\ reply' \in [Clients -> Reply]
       /\ issued \subseteq issued' /\ issued' \subseteq Mutations
       /\ x \in Mutations => x \in issued'
  BY <1>1, <1>2, ExchangeAssumption DEF ExchangeTypeOK
<1>11. DEFINE n == Len(log)
              k == call[c].link
              i == call[c].id
<1>12. /\ n \in Nat /\ n <= Len(log) /\ k \in Links \cup {NoLink} /\ i \in Nat
       /\ Becomes(c, "try", x, n, k, i)
  BY <1>3, <1>4, <1>9
<1>13. QED
  BY <1>5, <1>7, <1>8, <1>9, <1>10, <1>12, CallMoves

LEMMA ConnectInv ==
  ASSUME ExchangeInv, NEW c \in Clients, Connect(c)
  PROVE  ExchangeInv'
<1>1. PICK l \in Links :
        /\ ClientOf[l] = c /\ serve[l] = "fresh"
        /\ serve' = [serve EXCEPT ![l] = "open"]
        /\ call' = [call EXCEPT ![c].phase = "connected", ![c].link = l, ![c].id = 0]
  BY DEF Connect
<1>2. /\ call[c].phase = "try" /\ call[c].link = NoLink
      /\ UNCHANGED <<execVars, last, toOwner, toClient, issued, reply, calls>>
  BY DEF Connect
<1>3. ExchangeTypeOK /\ Conversation(c) /\ IdsKnown
  BY DEF ExchangeInv, Conversations
<1>4. /\ call[c].cmd \in Commands \cup {NoCommand} /\ call[c].since \in Nat
      /\ call[c].since <= Len(log) /\ Asked(call[c].cmd) /\ call[c].cmd # NoCommand
  BY <1>2, <1>3, CallTyped DEF ExchangeInv, ExchangeTypeOK, CallsKnown
<1>5. Becomes(c, "connected", call[c].cmd, call[c].since, l, 0)
  <2>1. "connected" \in Phases /\ l \in Links \cup {NoLink}
    BY DEF Phases
  <2>2. call \in [Clients -> Call]
    BY <1>3 DEF ExchangeTypeOK
  <2>3. /\ call'[c].phase = "connected" /\ call'[c].cmd = call[c].cmd
        /\ call'[c].since = call[c].since /\ call'[c].link = l /\ call'[c].id = 0
        /\ \A d \in Clients \ {c} : call'[d] = call[d]
    BY <1>1, <2>2 DEF Call
  <2>4. call' \in [Clients -> Call]
    <3>1. /\ call[c] \in Call /\ 0 \in Nat
          /\ call' = [call EXCEPT ![c] =
                        [call[c] EXCEPT !.phase = "connected", !.link = l, !.id = 0]]
      BY <1>1, <2>2
    <3>2. [call[c] EXCEPT !.phase = "connected", !.link = l, !.id = 0] \in Call
      BY <2>1, <3>1 DEF Call
    <3>3. QED
      BY <2>2, <3>1, <3>2
  <2>5. QED
    BY <2>3, <2>4 DEF Becomes
<1>6. Aside /\ IdsKnown'
  BY <1>1, <1>2, <1>3 DEF Aside, ExchangeTypeOK, IdsKnown
<1>7. Conversations'
  <2>1. last[l] = 0 /\ toOwner[l] = <<>>
    BY <1>1, <1>3 DEF IdsKnown
  <2>2. last'[l] <= 0 /\ \A f \in Within(toOwner'[l]) : f.id <= 0
    BY <1>2, <2>1, WithinEmpty
  <2>3. ClientOf[l] = c /\ serve'[l] # "fresh"
    BY <1>1, <1>3 DEF ExchangeTypeOK
  <2>4. Conversation(c)'
    BY <1>5, <2>2, <2>3 DEF Conversation, Becomes
  <2>5. \A d \in Clients \ {c} : Conversation(d)'
    BY <1>1, <1>2, <1>5, <1>6, OthersConverse DEF Becomes
  <2>6. QED
    BY <2>4, <2>5 DEF Conversations
<1>8. WorkKnown'
  BY <1>2, <1>6, WorkAside
<1>9. "connected" \in Phases /\ l # NoLink
  BY ExecutorAssumption DEF Phases
<1>10. QED
  BY <1>2, <1>3, <1>4, <1>5, <1>6, <1>7, <1>8, <1>9, CallMoves
  DEF ExchangeTypeOK, Asked

LEMMA FrameTyped ==
  ASSUME NEW t \in FrameTypes, NEW i \in Nat, NEW x \in Commands \cup {NoCommand},
         NEW a \in Answer
  PROVE  /\ Frame(t, i, x, a) \in Frames
         /\ Frame(t, i, x, a).type = t /\ Frame(t, i, x, a).id = i
         /\ Frame(t, i, x, a).cmd = x /\ Frame(t, i, x, a).answer = a
BY DEF Frame, Frames

LEMMA ToOwnerFacts ==
  ASSUME ExchangeTypeOK, NEW l \in Links, NEW f \in Frames, ToOwner(l, f)
  PROVE  /\ toOwner' \in [Links -> Seq(Frames)]
         /\ \A k \in Links \ {l} : toOwner'[k] = toOwner[k]
         /\ Within(toOwner'[l]) \subseteq Within(toOwner[l]) \cup {f}
         /\ serve[l] # "open" => toOwner'[l] = toOwner[l]
<1>1. toOwner \in [Links -> Seq(Frames)] /\ toOwner[l] \in Seq(Frames)
  BY DEF ExchangeTypeOK
<1>2. /\ Append(toOwner[l], f) \in Seq(Frames)
      /\ Within(Append(toOwner[l], f)) = Within(toOwner[l]) \cup {f}
  BY <1>1, WithinAppend
<1>3. CASE serve[l] = "open"
  <2>1. toOwner' = [toOwner EXCEPT ![l] = Append(toOwner[l], f)]
    BY <1>3 DEF ToOwner
  <2>2. QED
    BY <1>1, <1>2, <1>3, <2>1
<1>4. CASE serve[l] # "open"
  <2>1. toOwner' = [toOwner EXCEPT ![l] = toOwner[l]]
    BY <1>4 DEF ToOwner
  <2>2. QED
    BY <1>1, <1>4, <2>1
<1>5. QED
  BY <1>3, <1>4

LEMMA SendBeginInv ==
  ASSUME ExchangeInv, NEW c \in Clients, SendBegin(c)
  PROVE  ExchangeInv'
<1> DEFINE l == call[c].link
           n == call[c].id + 1
           x == call[c].cmd
           from == call[c].since
           f == Frame("begin", n, NoCommand, NoAnswer)
<1>1. /\ call[c].phase = "connected" \/ (call[c].phase = "try" /\ call[c].link # NoLink)
      /\ call' = [call EXCEPT ![c].phase = "begun", ![c].id = @ + 1]
      /\ ToOwner(l, f)
      /\ UNCHANGED <<execVars, serve, last, toClient, issued, reply, calls>>
  BY DEF SendBegin
<1>2. ExchangeTypeOK /\ Conversation(c) /\ IdsKnown
  BY DEF ExchangeInv, Conversations
<1>3. l # NoLink
  BY <1>1 DEF ExchangeInv, CallsKnown
<1>4. /\ x \in Commands \cup {NoCommand} /\ from \in Nat /\ n \in Nat /\ call[c].id \in Nat
      /\ from <= Len(log) /\ Asked(x) /\ x # NoCommand
  BY <1>1, <1>2, CallTyped DEF ExchangeInv, ExchangeTypeOK, CallsKnown
<1>5. l \in Links /\ ClientOf[l] = c
  BY <1>3, OwnLink
<1>6. f \in Frames /\ f.type = "begin" /\ f.id = n
  <2>1. "begin" \in FrameTypes /\ NoCommand \in Commands \cup {NoCommand} /\ NoAnswer \in Answer
    BY AnswersTyped DEF FrameTypes
  <2>2. n \in Nat
    BY <1>4
  <2> HIDE DEF n
  <2>3. QED
    BY <2>1, <2>2, FrameTyped
<1>7. /\ toOwner' \in [Links -> Seq(Frames)]
      /\ \A k \in Links \ {l} : toOwner'[k] = toOwner[k]
      /\ Within(toOwner'[l]) \subseteq Within(toOwner[l]) \cup {f}
      /\ serve[l] # "open" => toOwner'[l] = toOwner[l]
  BY <1>1, <1>2, <1>5, <1>6, ToOwnerFacts
<1>8. Becomes(c, "begun", x, from, l, n)
  <2>1. "begun" \in Phases /\ call \in [Clients -> Call] /\ call[c] \in Call
    BY <1>2 DEF Phases, ExchangeTypeOK
  <2>2. call' = [call EXCEPT ![c] = [call[c] EXCEPT !.phase = "begun", !.id = n]]
    BY <1>1, <2>1
  <2>3. [call[c] EXCEPT !.phase = "begun", !.id = n] \in Call
    BY <1>4, <2>1 DEF Call
  <2>4. QED
    BY <2>1, <2>2, <2>3 DEF Becomes, Call
<1>9. Aside
  BY <1>1, <1>2, <1>7 DEF Aside, ExchangeTypeOK
<1>10. /\ serve[l] # "fresh" /\ last[l] <= call[c].id
       /\ \A g \in Within(toOwner[l]) : g.id <= call[c].id
       /\ \A g \in Within(toClient[l]) : g.id <= last[l]
  BY <1>2, <1>3, <1>5 DEF Conversation, IdsKnown
<1>11. last[l] \in Nat /\ toOwner[l] \in Seq(Frames) /\ toClient[l] \in Seq(Frames)
  BY <1>2, <1>5 DEF ExchangeTypeOK
<1>12. /\ \A g \in Within(toOwner[l]) : g.id \in Nat
       /\ \A g \in Within(toClient[l]) : g.id \in Nat
  BY <1>11, WithinTyped DEF Frames
<1>13. Conversation(c)'
  <2>1. /\ call'[c].link = l /\ call'[c].id = n /\ call'[c].phase = "begun"
        /\ last'[l] = last[l] /\ serve'[l] = serve[l] /\ toClient'[l] = toClient[l]
    BY <1>1, <1>8 DEF Becomes
  <2>2. last[l] < n /\ \A g \in Within(toOwner'[l]) : g.id <= n
    BY <1>4, <1>6, <1>7, <1>10, <1>11, <1>12
  <2>3. \A g \in Within(toOwner'[l]) : g.type = "upload" => g.id # n
    BY <1>4, <1>6, <1>7, <1>10, <1>12
  <2>4. \A g \in Within(toClient[l]) : g.id # n
    BY <1>4, <1>10, <1>11, <1>12
  <2>5. last[l] # n /\ last[l] <= n
    BY <1>4, <1>11, <2>2
  <2>6. QED
    BY <1>3, <1>5, <1>10, <2>1, <2>2, <2>3, <2>4, <2>5 DEF Conversation, Admitting
<1>14. Conversations'
  <2>1. \A d \in Clients \ {c} : Conversation(d)'
    BY <1>1, <1>5, <1>7, <1>8, <1>9, OthersConverse DEF Becomes
  <2>2. QED
    BY <1>13, <2>1 DEF Conversations
<1>15. IdsKnown'
  <2>1. \A k \in Links : serve[k] = "fresh" => toOwner'[k] = toOwner[k]
    BY <1>7
  <2>2. QED
    BY <1>1, <1>2, <2>1 DEF IdsKnown
<1>16. WorkKnown'
  BY <1>1, <1>6, <1>7, <1>9, WorkAside
<1>17. /\ "begun" \in Phases /\ issued \subseteq issued' /\ issued' \subseteq Mutations
       /\ (x \in Mutations => x \in issued') /\ l \in Links \cup {NoLink}
       /\ reply' \in [Clients -> Reply] /\ calls' \in 0..MaxCalls
  BY <1>1, <1>2, <1>4, <1>5 DEF Phases, ExchangeTypeOK, Asked
<1> HIDE DEF l, n, x, from, f
<1>18. QED
  BY <1>3, <1>4, <1>8, <1>9, <1>14, <1>15, <1>16, <1>17, CallMoves

\* The upload starts: under this id the owner holds nothing of another command.
LEMMA ReadyInv ==
  ASSUME ExchangeInv, NEW c \in Clients, call[c].phase = "begun", Consume(c),
         Incoming(c).type = "ready", Current(c, Incoming(c)),
         call' = [call EXCEPT ![c].phase = "sent"],
         ToOwner(call[c].link, Frame("upload", call[c].id, call[c].cmd, NoAnswer)),
         UNCHANGED <<execVars, serve, last, issued, reply, calls>>,
         Blank
  PROVE  ExchangeInv'
<1> DEFINE l == call[c].link
           n == call[c].id
           x == call[c].cmd
           from == call[c].since
           f == Frame("upload", n, x, NoAnswer)
<1>2. ExchangeTypeOK /\ Conversation(c) /\ IdsKnown
  BY DEF ExchangeInv, Conversations
<1>3. l # NoLink
  BY DEF ExchangeInv, CallsKnown
<1>4. /\ x \in Commands \cup {NoCommand} /\ from \in Nat /\ n \in Nat
      /\ from <= Len(log) /\ Asked(x) /\ x # NoCommand
  BY <1>2, CallTyped DEF ExchangeInv, ExchangeTypeOK, CallsKnown
<1>5. l \in Links /\ ClientOf[l] = c
  BY <1>3, OwnLink
<1>6. f \in Frames /\ f.type = "upload" /\ f.id = n /\ f.cmd = x
  BY <1>4, FrameTyped, AnswersTyped DEF FrameTypes
<1>7. /\ toOwner' \in [Links -> Seq(Frames)]
      /\ \A k \in Links \ {l} : toOwner'[k] = toOwner[k]
      /\ Within(toOwner'[l]) \subseteq Within(toOwner[l]) \cup {f}
      /\ serve[l] # "open" => toOwner'[l] = toOwner[l]
  BY <1>2, <1>5, <1>6, ToOwnerFacts
<1>8. Becomes(c, "sent", x, from, l, n)
  <2>1. "sent" \in Phases /\ call \in [Clients -> Call]
    BY <1>2 DEF Phases, ExchangeTypeOK
  <2>2. QED
    BY <2>1 DEF Becomes, Call
<1>9. toClient[l] \in Seq(Frames) /\ toClient[l] # <<>> /\ toClient \in [Links -> Seq(Frames)]
  BY <1>2, <1>5 DEF ExchangeTypeOK, Consume
<1>10. /\ Head(toClient[l]) \in Within(toClient[l])
       /\ Tail(toClient[l]) \in Seq(Frames)
       /\ Within(Tail(toClient[l])) \subseteq Within(toClient[l])
  BY <1>9, WithinTail
<1>11. /\ toClient' \in [Links -> Seq(Frames)]
       /\ \A k \in Links \ {l} : toClient'[k] = toClient[k]
       /\ Within(toClient'[l]) \subseteq Within(toClient[l])
  BY <1>5, <1>9, <1>10 DEF Consume
<1>12. Aside
  BY <1>2, <1>7, <1>11 DEF Aside, ExchangeTypeOK
<1>13. /\ serve[l] # "fresh" /\ last[l] <= n
       /\ \A g \in Within(toOwner[l]) : g.id <= n
       /\ Admitting(l, n)
       /\ last[l] = n /\ loc[l] # "none" => from <= seen[l]
  BY <1>2, <1>3 DEF Conversation
<1>14. last[l] = n
  <2>1. Head(toClient[l]).id = n
    BY DEF Current, Incoming
  <2>2. n <= last[l] /\ last[l] \in Nat
    BY <1>2, <1>5, <1>10, <2>1 DEF IdsKnown, ExchangeTypeOK
  <2>3. QED
    BY <1>4, <1>13, <2>2
<1>15. job[l] = NoCommand
  BY <1>5, <1>13, <1>14 DEF Admitting, Blank
<1>16. Conversation(c)'
  <2>1. /\ call'[c].link = l /\ call'[c].id = n /\ call'[c].phase = "sent"
        /\ call'[c].cmd = x /\ call'[c].since = from
        /\ UNCHANGED <<last, serve, job, loc, seen, log>>
    BY <1>8 DEF Becomes, execVars
  <2>2. \A g \in Within(toOwner'[l]) : g.id <= n
    BY <1>4, <1>6, <1>7, <1>13
  <2>3. \A g \in Within(toOwner'[l]) : g.type = "upload" /\ g.id = n => g.cmd = x
    BY <1>6, <1>7, <1>13 DEF Admitting
  <2>4. \A g \in Within(toClient'[l]) : ~(g.type = "result" /\ g.id = n)
    BY <1>11, <1>13 DEF Admitting
  <2>5. /\ last'[l] = n /\ job'[l] \in {NoCommand, x} /\ serve'[l] # "fresh"
        /\ loc'[l] # "none" => from <= seen'[l]
    BY <1>13, <1>14, <1>15, <2>1
  <2>6. QED
    BY <1>3, <1>4, <1>5, <2>1, <2>2, <2>3, <2>4, <2>5 DEF Conversation, Answering
<1>17. Conversations'
  <2>1. \A d \in Clients \ {c} : Conversation(d)'
    BY <1>5, <1>7, <1>8, <1>11, <1>12, OthersConverse DEF Becomes
  <2>2. QED
    BY <1>16, <2>1 DEF Conversations
<1>18. IdsKnown'
  <2>1. \A k \in Links : serve[k] = "fresh" => toOwner'[k] = toOwner[k]
    BY <1>7
  <2>2. \A k \in Links : Within(toClient'[k]) \subseteq Within(toClient[k])
    BY <1>11
  <2>3. QED
    BY <1>2, <2>1, <2>2 DEF IdsKnown
<1>19. WorkKnown'
  <2>1. x \in Commands
    BY <1>4
  <2>2. QED
    BY <1>4, <1>6, <1>7, <1>12, <2>1, WorkAside
<1>20. /\ "sent" \in Phases /\ issued \subseteq issued' /\ issued' \subseteq Mutations
       /\ (x \in Mutations => x \in issued') /\ l \in Links \cup {NoLink}
       /\ reply' \in [Clients -> Reply] /\ calls' \in 0..MaxCalls
  BY <1>2, <1>4, <1>5 DEF Phases, ExchangeTypeOK, Asked
<1> HIDE DEF l, n, x, from, f
<1>21. QED
  BY <1>3, <1>4, <1>8, <1>12, <1>17, <1>18, <1>19, <1>20, CallMoves

\* The frame a client reads is one of those sent to it.
LEMMA IncomingTyped ==
  ASSUME ExchangeInv, NEW c \in Clients, Consume(c), call[c].link # NoLink
  PROVE  /\ Incoming(c) \in Within(toClient[call[c].link])
         /\ Incoming(c) \in Frames /\ Incoming(c).answer.at \in Nat
<1>1. toClient[call[c].link] \in Seq(Frames) /\ toClient[call[c].link] # <<>>
  BY OwnLink DEF Consume
<1>2. Incoming(c) \in Within(toClient[call[c].link]) /\ Incoming(c) \in Frames
  BY <1>1, WithinTail DEF Incoming
<1>3. Incoming(c).answer \in Answer
  BY <1>2 DEF Frames
<1>4. QED
  BY <1>2, <1>3 DEF Answer

LEMMA ClientInv ==
  ASSUME ExchangeInv, Blank, NEW c \in Clients,
         ClientStep(c) \/ \E x \in Commands : Invoke(c, x)
  PROVE  ExchangeInv'
<1>1. ExchangeTypeOK /\ CallsKnown
  BY DEF ExchangeInv
<1>2. CASE Expire(c) \/ ConnectFails(c) \/ Broken(c)
  <2>1. /\ call[c].phase # "idle"
        /\ UNCHANGED <<execVars, serve, last, toOwner>> /\ toClient' = toClient
    BY <1>2 DEF Expire, ConnectFails, Broken, wireVars
  <2>2. Retreated(c)
    <3>1. CASE Expire(c)
      BY <3>1 DEF Expire, Retreated
    <3>2. CASE ConnectFails(c) \/ Broken(c)
      BY <1>1, <3>2, ErrorRetreats DEF ConnectFails, Broken
    <3>3. QED
      BY <1>2, <3>1, <3>2
  <2>3. QED
    BY <2>1, <2>2, RetreatInv
<1>3. CASE Connect(c)
  BY <1>3, ConnectInv
<1>4. CASE SendBegin(c)
  BY <1>4, SendBeginInv
<1>5. CASE ReadAdmission(c)
  <2>1. /\ call[c].phase = "begun" /\ Consume(c) /\ UNCHANGED <<execVars, serve, last>>
        /\ call[c].link # NoLink
    BY <1>1, <1>5 DEF ReadAdmission, CallsKnown
  <2>2. CASE /\ Incoming(c).type = "ready" /\ Current(c, Incoming(c))
             /\ call' = [call EXCEPT ![c].phase = "sent"]
             /\ ToOwner(call[c].link, Frame("upload", call[c].id, call[c].cmd, NoAnswer))
             /\ UNCHANGED <<issued, reply, calls>>
    BY <2>1, <2>2, ReadyInv
  <2>3. CASE (TransportError(c) \/ Backoff(c)) /\ UNCHANGED toOwner
    BY <1>1, <2>1, <2>3, ErrorRetreats, RetreatInv
  <2>4. QED
    BY <1>5, <2>2, <2>3 DEF ReadAdmission
<1>6. CASE ReadResult(c)
  <2>1. /\ call[c].phase = "sent" /\ Consume(c) /\ UNCHANGED <<execVars, serve, last, toOwner>>
        /\ call[c].link # NoLink
    BY <1>1, <1>6 DEF ReadResult, CallsKnown
  <2>2. CASE Finish(c, "ok", Incoming(c).answer.at)
    <3>1. Retreated(c)
      BY <2>1, <2>2, IncomingTyped DEF Retreated
    <3>2. QED
      BY <2>1, <3>1, RetreatInv
  <2>3. CASE Finish(c, "error", 0)
    <3>1. Retreated(c)
      BY <2>3 DEF Retreated
    <3>2. QED
      BY <2>1, <3>1, RetreatInv
  <2>4. CASE TransportError(c) \/ Backoff(c)
    BY <1>1, <2>1, <2>4, ErrorRetreats, RetreatInv
  <2>5. QED
    BY <1>6, <2>2, <2>3, <2>4 DEF ReadResult
<1>7. CASE \E x \in Commands : Invoke(c, x)
  BY <1>7, InvokeInv
<1>8. QED
  BY <1>2, <1>3, <1>4, <1>5, <1>6, <1>7 DEF ClientStep

-----------------------------------------------------------------------------
(***************************************************************************)
(* The owner's steps.                                                      *)
(***************************************************************************)

LEMMA ToClientFacts ==
  ASSUME ExchangeTypeOK, NEW l \in Links, NEW f \in Frames, ToClient(l, f)
  PROVE  /\ toClient' \in [Links -> Seq(Frames)]
         /\ \A k \in Links \ {l} : toClient'[k] = toClient[k]
         /\ Within(toClient'[l]) \subseteq Within(toClient[l]) \cup {f}
<1>1. toClient \in [Links -> Seq(Frames)] /\ toClient[l] \in Seq(Frames)
  BY DEF ExchangeTypeOK
<1>2. /\ Append(toClient[l], f) \in Seq(Frames)
      /\ Within(Append(toClient[l], f)) = Within(toClient[l]) \cup {f}
  BY <1>1, WithinAppend
<1>3. CASE call[ClientOf[l]].link = l
  <2>1. toClient' = [toClient EXCEPT ![l] = Append(toClient[l], f)]
    BY <1>3 DEF ToClient
  <2>2. QED
    BY <1>1, <1>2, <2>1
<1>4. CASE call[ClientOf[l]].link # l
  <2>1. toClient' = [toClient EXCEPT ![l] = toClient[l]]
    BY <1>4 DEF ToClient
  <2>2. QED
    BY <1>1, <2>1
<1>5. QED
  BY <1>3, <1>4

LEMMA HeadRead ==
  ASSUME ExchangeTypeOK, NEW l \in Links, toOwner[l] # <<>>,
         toOwner' = [toOwner EXCEPT ![l] = Tail(@)]
  PROVE  /\ toOwner' \in [Links -> Seq(Frames)]
         /\ \A k \in Links \ {l} : toOwner'[k] = toOwner[k]
         /\ Within(toOwner'[l]) \subseteq Within(toOwner[l])
         /\ Head(toOwner[l]) \in Within(toOwner[l]) /\ Head(toOwner[l]) \in Frames
<1>1. toOwner \in [Links -> Seq(Frames)] /\ toOwner[l] \in Seq(Frames)
  BY DEF ExchangeTypeOK
<1>2. /\ Head(toOwner[l]) \in Within(toOwner[l]) /\ Head(toOwner[l]) \in Frames
      /\ Tail(toOwner[l]) \in Seq(Frames)
      /\ Within(Tail(toOwner[l])) \subseteq Within(toOwner[l])
  BY <1>1, WithinTail
<1>3. QED
  BY <1>1, <1>2

\* What has to be said of the links, the clients being as before.
LEMMA OwnerMoves ==
  ASSUME ExchangeInv, ExecTypeOK', Grows, UNCHANGED clientVars,
         serve' \in [Links -> {"fresh", "open", "closed"}],
         last' \in [Links -> Nat],
         toOwner' \in [Links -> Seq(Frames)],
         toClient' \in [Links -> Seq(Frames)],
         \A l \in Links : Within(toOwner'[l]) \subseteq Within(toOwner[l]),
         \A l \in Links : Asked(job'[l]),
         JobsKnown', IdsKnown',
         \A c \in Clients : call[c].link # NoLink => Calm(call[c].link) \/ Conversation(c)'
  PROVE  ExchangeInv'
<1>1. UNCHANGED <<call, issued, reply, calls>>
  BY DEF clientVars
<1>2. ExchangeTypeOK'
  BY <1>1 DEF ExchangeInv, ExchangeTypeOK
<1>3. \A x : Asked(x) => Asked(x)'
  BY <1>1 DEF Asked
<1>4. CallsKnown'
  <2>1. SUFFICES ASSUME NEW c \in Clients
                 PROVE  /\ call[c].phase = "idle" <=> call[c].cmd = NoCommand
                        /\ call[c].phase \in {"connected", "begun", "sent"} =>
                             call[c].link # NoLink
                        /\ (call[c].cmd \in Mutations => call[c].cmd \in issued)
                        /\ call[c].since <= Len(log')
    BY <1>1 DEF CallsKnown, Asked
  <2>2. call[c].since \in Nat /\ call[c].since <= Len(log)
    BY CallTyped DEF ExchangeInv, CallsKnown, ExchangeTypeOK
  <2>3. QED
    BY <2>2 DEF ExchangeInv, CallsKnown, Grows, Asked
<1>5. WorkKnown'
  BY <1>1, <1>3 DEF ExchangeInv, WorkKnown, Asked
<1>6. Conversations'
  <2>1. SUFFICES ASSUME NEW c \in Clients PROVE Conversation(c)'
    BY DEF Conversations
  <2>2. Conversation(c) /\ call' = call
    BY <1>1 DEF ExchangeInv, Conversations
  <2>3. CASE call[c].link # NoLink => Calm(call[c].link)
    BY <2>2, <2>3, CalmConversation
  <2>4. QED
    BY <2>3
<1>7. QED
  BY <1>2, <1>4, <1>5, <1>6 DEF ExchangeInv

\* Steps that bring no connection anything new.
LEMMA CalmOwner ==
  ASSUME ExchangeInv, ExecTypeOK', Grows, UNCHANGED clientVars,
         Idles, JobsKnown', UNCHANGED <<last, toClient>>,
         serve' \in [Links -> {"fresh", "open", "closed"}],
         \A l \in Links : /\ serve'[l] = "fresh" => serve[l] = "fresh"
                          /\ toOwner'[l] \in {toOwner[l], <<>>},
         DOMAIN toOwner' = Links, toOwner' = [l \in Links |-> toOwner'[l]]
  PROVE  ExchangeInv'
<1>1. ExchangeTypeOK /\ WorkKnown /\ IdsKnown
  BY DEF ExchangeInv
<1>2. toOwner' \in [Links -> Seq(Frames)]
  <2>1. \A l \in Links : toOwner'[l] \in Seq(Frames)
    <3>1. <<>> \in Seq(Frames) /\ toOwner \in [Links -> Seq(Frames)]
      BY <1>1, EmptySeq DEF ExchangeTypeOK
    <3>2. SUFFICES ASSUME NEW l \in Links PROVE toOwner'[l] \in Seq(Frames)
      OBVIOUS
    <3>3. toOwner[l] \in Seq(Frames) /\ toOwner'[l] \in {toOwner[l], <<>>}
      BY <3>1
    <3>4. QED
      BY <3>1, <3>3
  <2>2. QED
    BY <2>1
<1>3. \A l \in Links : Within(toOwner'[l]) \subseteq Within(toOwner[l])
  BY WithinEmpty
<1>4. \A l \in Links : Calm(l)
  BY <1>3 DEF Idles, Calm
<1>5. IdsKnown'
  <2>1. \A l \in Links : serve'[l] = "fresh" => last'[l] = 0 /\ toOwner'[l] = <<>>
    BY <1>1 DEF IdsKnown
  <2>2. QED
    BY <1>1, <2>1 DEF IdsKnown
<1>6. \A l \in Links : Asked(job'[l])
  BY <1>1, ExecutorAssumption DEF WorkKnown, Idles, Asked, Commands
<1>7. \A c \in Clients : call[c].link # NoLink => Calm(call[c].link)
  BY <1>4, OwnLink
<1>8. last' \in [Links -> Nat] /\ toClient' \in [Links -> Seq(Frames)]
  BY <1>1 DEF ExchangeTypeOK
<1>9. QED
  BY <1>2, <1>3, <1>5, <1>6, <1>7, <1>8, OwnerMoves

\* A link's own step leaves the other links calm.
LEMMA OthersCalm ==
  ASSUME NEW l \in Links,
         \A k \in Links \ {l} :
            /\ last'[k] = last[k] /\ serve'[k] = serve[k] /\ toOwner'[k] = toOwner[k]
            /\ toClient'[k] = toClient[k] /\ loc'[k] = loc[k] /\ job'[k] = job[k]
            /\ seen'[k] = seen[k]
  PROVE  \A k \in Links \ {l} : Calm(k)
BY DEF Calm

LEMMA ServeBeginInv ==
  ASSUME ExchangeInv, ExecTypeOK', Grows, Blank, NEW l \in Links, ServeBegin(l)
  PROVE  ExchangeInv'
<1> DEFINE m == Head(toOwner[l]).id
<1>1. /\ serve[l] = "open" /\ loc[l] = "none" /\ toOwner[l] # <<>> /\ m > last[l]
      /\ last' = [last EXCEPT ![l] = m]
      /\ toOwner' = [toOwner EXCEPT ![l] = Tail(@)]
      /\ UNCHANGED <<serve, clientVars>>
  BY DEF ServeBegin, Idle, NextIs
<1>2. ExchangeTypeOK /\ JobsKnown /\ WorkKnown /\ IdsKnown /\ CallsKnown /\ ExecTypeOK
  BY DEF ExchangeInv, ExchangeTypeOK
<1>3. /\ toOwner' \in [Links -> Seq(Frames)]
      /\ \A k \in Links \ {l} : toOwner'[k] = toOwner[k]
      /\ Within(toOwner'[l]) \subseteq Within(toOwner[l])
      /\ Head(toOwner[l]) \in Within(toOwner[l]) /\ Head(toOwner[l]) \in Frames
  BY <1>1, <1>2, HeadRead
<1>4. m \in Nat /\ last[l] \in Nat
  BY <1>2, <1>3 DEF Frames, ExchangeTypeOK
<1>5. /\ last' \in [Links -> Nat] /\ last'[l] = m
      /\ \A k \in Links \ {l} : last'[k] = last[k]
  BY <1>1, <1>2, <1>4 DEF ExchangeTypeOK
<1>6. PICK f \in {Frame("ready", last'[l], NoCommand, NoAnswer),
                  Frame("busy", last'[l], NoCommand, NoAnswer)} : ToClient(l, f)
  BY DEF ServeBegin
<1>7. f \in Frames /\ f.type # "result" /\ f.id = m
  <2>1. /\ "ready" \in FrameTypes /\ "busy" \in FrameTypes /\ NoAnswer \in Answer
        /\ NoCommand \in Commands \cup {NoCommand}
    BY AnswersTyped DEF FrameTypes
  <2>2. last'[l] = m /\ m \in Nat
    BY <1>4, <1>5
  <2> HIDE DEF m
  <2>3. PICK kind \in {"ready", "busy"} : f = Frame(kind, m, NoCommand, NoAnswer)
    BY <1>6, <2>2
  <2>4. kind \in FrameTypes /\ kind # "result"
    BY <2>1
  <2>5. /\ Frame(kind, m, NoCommand, NoAnswer) \in Frames
        /\ Frame(kind, m, NoCommand, NoAnswer).type = kind
        /\ Frame(kind, m, NoCommand, NoAnswer).id = m
    BY <2>1, <2>2, <2>4 DEF Frame, Frames
  <2>6. QED
    BY <2>3, <2>4, <2>5
<1>8. /\ toClient' \in [Links -> Seq(Frames)]
      /\ \A k \in Links \ {l} : toClient'[k] = toClient[k]
      /\ Within(toClient'[l]) \subseteq Within(toClient[l]) \cup {f}
  BY <1>2, <1>6, <1>7, ToClientFacts
<1>9. /\ job' = job /\ log' = log /\ JobsKnown'
      /\ loc'[l] \in {"none", "serve"}
      /\ loc'[l] = "serve" => seen'[l] = Len(log)
      /\ \A k \in Links \ {l} : loc'[k] = loc[k] /\ seen'[k] = seen[k]
  <2>1. CASE Reserve(l)
    <3>1. ExecTypeOK /\ JobsKnown
      BY <1>2
    <3>2. QED
      BY <2>1, <3>1, ReserveFacts DEF ExecTypeOK
  <2>2. CASE UNCHANGED execVars
    BY <1>1, <1>2, <2>2 DEF execVars, JobsKnown
  <2>3. QED
    BY <2>1, <2>2 DEF ServeBegin
<1>10. \A k \in Links \ {l} : Calm(k)
  BY <1>1, <1>3, <1>5, <1>8, <1>9, OthersCalm
<1>11. IdsKnown'
  <2>1. ASSUME NEW g \in Within(toClient'[l]) PROVE g.id <= m
    <3>1. CASE g \in Within(toClient[l])
      <4>1. toClient[l] \in Seq(Frames) /\ g.id <= last[l]
        BY <1>2, <3>1 DEF ExchangeTypeOK, IdsKnown
      <4>2. g.id \in Nat
        BY <3>1, <4>1, WithinTyped DEF Frames
      <4>3. QED
        BY <1>1, <1>4, <4>1, <4>2
    <3>2. CASE g = f
      BY <1>4, <1>7, <3>2
    <3>3. QED
      BY <1>8, <2>1, <3>1, <3>2
  <2>2. QED
    BY <1>1, <1>2, <1>3, <1>5, <1>8, <2>1 DEF IdsKnown
<1>12. ASSUME NEW c \in Clients, call[c].link = l PROVE Conversation(c)'
  <2>1. l # NoLink /\ call' = call
    BY <1>1, ExecutorAssumption DEF clientVars
  <2>2. Conversation(c) /\ call[c].id \in Nat /\ call[c].since <= Len(log)
    BY <1>2, CallTyped DEF ExchangeInv, Conversations, CallsKnown, ExchangeTypeOK
  <2>3. /\ ClientOf[l] = c /\ last[l] <= call[c].id
        /\ \A g \in Within(toOwner[l]) : g.id <= call[c].id
        /\ call[c].phase = "begun" => Admitting(l, call[c].id)
        /\ call[c].phase = "sent" => last[l] = call[c].id
    BY <1>12, <2>1, <2>2 DEF Conversation, Answering
  <2>4. m <= call[c].id /\ call[c].phase # "sent"
    BY <1>1, <1>3, <1>4, <2>2, <2>3
  <2>5. ASSUME call[c].phase = "begun" PROVE Admitting(l, call[c].id)'
    <3>1. Admitting(l, call[c].id) /\ call' = call
      BY <2>1, <2>3, <2>5
    <3>2. QED
      BY <1>3, <1>7, <1>8, <1>9, <3>1 DEF Admitting
  <2>6. serve'[l] # "fresh" /\ (loc'[l] # "none" => call[c].since <= seen'[l])
    BY <1>1, <1>9, <2>2
  <2>7. QED
    BY <1>3, <1>5, <1>12, <2>1, <2>3, <2>4, <2>5, <2>6 DEF Conversation
<1>13. \A c \in Clients : call[c].link # NoLink => Calm(call[c].link) \/ Conversation(c)'
  BY <1>10, <1>12, OwnLink
<1>14. /\ \A k \in Links : Within(toOwner'[k]) \subseteq Within(toOwner[k])
       /\ \A k \in Links : Asked(job'[k])
       /\ serve' \in [Links -> {"fresh", "open", "closed"}] /\ UNCHANGED clientVars
  BY <1>1, <1>2, <1>3, <1>9 DEF WorkKnown, ExchangeTypeOK
<1> HIDE DEF m
<1>15. QED
  BY <1>3, <1>5, <1>8, <1>9, <1>11, <1>13, <1>14, OwnerMoves

\* The upload that is submitted belongs to an asked command.
LEMMA UploadKnown ==
  ASSUME ExchangeInv, NEW l \in Links, ServeUpload(l)
  PROVE  /\ Head(toOwner[l]).cmd \in Commands /\ Asked(Head(toOwner[l]).cmd)
         /\ Submit(l, Head(toOwner[l]).cmd)
<1>1. /\ toOwner[l] # <<>> /\ Head(toOwner[l]).type = "upload"
      /\ toOwner' = [toOwner EXCEPT ![l] = Tail(@)] /\ Submit(l, Head(toOwner[l]).cmd)
  BY DEF ServeUpload, NextIs
<1>2. ExchangeTypeOK /\ WorkKnown
  BY DEF ExchangeInv
<1>3. Head(toOwner[l]) \in Within(toOwner[l])
  BY <1>1, <1>2, HeadRead
<1>4. QED
  BY <1>1, <1>2, <1>3 DEF WorkKnown

LEMMA ServeUploadInv ==
  ASSUME ExchangeInv, ExecTypeOK', Grows, NEW l \in Links, ServeUpload(l)
  PROVE  ExchangeInv'
<1> DEFINE h == Head(toOwner[l])
           x == Head(toOwner[l]).cmd
<1>1. /\ serve[l] = "open" /\ toOwner[l] # <<>> /\ h.type = "upload" /\ h.id = last[l]
      /\ toOwner' = [toOwner EXCEPT ![l] = Tail(@)]
      /\ UNCHANGED <<serve, last, clientVars>>
  BY DEF ServeUpload, NextIs
<1>2. ExchangeTypeOK /\ JobsKnown /\ WorkKnown /\ IdsKnown /\ CallsKnown /\ ExecTypeOK
  BY DEF ExchangeInv, ExchangeTypeOK
<1>3. /\ toOwner' \in [Links -> Seq(Frames)]
      /\ \A k \in Links \ {l} : toOwner'[k] = toOwner[k]
      /\ Within(toOwner'[l]) \subseteq Within(toOwner[l])
      /\ h \in Within(toOwner[l]) /\ h \in Frames
  BY <1>1, <1>2, HeadRead
<1>4. x \in Commands /\ Asked(x) /\ Submit(l, x)
  BY UploadKnown
<1>5. /\ loc[l] = "serve" /\ log' = log /\ seen' = seen
      /\ job'[l] \in {x, NoCommand}
      /\ \A k \in Links \ {l} : loc'[k] = loc[k] /\ job'[k] = job[k]
      /\ JobsKnown'
  <2> HIDE DEF x
  <2>1. QED
    BY <1>2, <1>4, SubmitFacts
<1>6. last[l] \in Nat
  BY <1>2 DEF ExchangeTypeOK
<1>7. /\ toClient' \in [Links -> Seq(Frames)]
      /\ \A k \in Links \ {l} : toClient'[k] = toClient[k]
      /\ \A g \in Within(toClient'[l]) :
            g \in Within(toClient[l]) \/ (g.type # "result" /\ g.id = last[l])
  <2>1. CASE UNCHANGED toClient
    BY <1>2, <2>1 DEF ExchangeTypeOK
  <2>2. CASE ToClient(l, Frame("busy", last[l], NoCommand, NoAnswer))
    <3> DEFINE f == Frame("busy", last[l], NoCommand, NoAnswer)
    <3>1. /\ "busy" \in FrameTypes /\ NoAnswer \in Answer
          /\ NoCommand \in Commands \cup {NoCommand}
      BY AnswersTyped DEF FrameTypes
    <3>2. f \in Frames /\ f.type = "busy" /\ f.id = last[l]
      BY <1>6, <3>1, FrameTyped
    <3> HIDE DEF f
    <3>3. /\ toClient' \in [Links -> Seq(Frames)]
          /\ \A k \in Links \ {l} : toClient'[k] = toClient[k]
          /\ Within(toClient'[l]) \subseteq Within(toClient[l]) \cup {f}
      BY <1>2, <2>2, <3>2, ToClientFacts DEF f
    <3>4. QED
      BY <3>2, <3>3
  <2>3. QED
    BY <2>1, <2>2 DEF ServeUpload
<1>8. \A k \in Links \ {l} : Calm(k)
  BY <1>1, <1>3, <1>5, <1>7, OthersCalm
<1>9. IdsKnown'
  <2>1. \A g \in Within(toClient'[l]) : g.id <= last[l]
    BY <1>2, <1>6, <1>7 DEF IdsKnown
  <2>2. \A k \in Links : serve'[k] = "fresh" => last'[k] = 0 /\ toOwner'[k] = <<>>
    BY <1>1, <1>2, <1>3 DEF IdsKnown
  <2>3. ASSUME NEW k \in Links \ {l} PROVE \A g \in Within(toClient'[k]) : g.id <= last[k]
    BY <1>2, <1>7 DEF IdsKnown
  <2>4. QED
    BY <1>1, <2>1, <2>2, <2>3 DEF IdsKnown
<1>10. ASSUME NEW c \in Clients, call[c].link = l PROVE Conversation(c)'
  <2>1. l # NoLink /\ call' = call /\ last' = last
    BY <1>1, ExecutorAssumption DEF clientVars
  <2>2. Conversation(c) /\ call[c].id \in Nat /\ call[c].since \in Nat
    BY <1>2, CallTyped DEF ExchangeInv, Conversations, CallsKnown, ExchangeTypeOK
  <2>3. /\ ClientOf[l] = c /\ last[l] <= call[c].id
        /\ \A g \in Within(toOwner[l]) : g.id <= call[c].id
        /\ call[c].phase = "begun" => Admitting(l, call[c].id)
        /\ call[c].phase \in {"begun", "sent"} /\ last[l] = call[c].id =>
             call[c].since <= seen[l]
        /\ call[c].phase = "sent" => Answering(l, call[c].id, call[c].cmd, call[c].since)
    BY <1>5, <1>10, <2>1, <2>2 DEF Conversation
  <2>4. ASSUME call[c].phase = "begun"
        PROVE  last[l] # call[c].id /\ Admitting(l, call[c].id)'
    <3>1. Admitting(l, call[c].id) /\ last[l] # call[c].id
      BY <1>1, <1>3, <2>3, <2>4 DEF Admitting
    <3>2. QED
      BY <1>3, <1>7, <2>1, <3>1 DEF Admitting
  <2>5. ASSUME call[c].phase = "sent"
        PROVE  Answering(l, call[c].id, call[c].cmd, call[c].since)'
    <3>1. Answering(l, call[c].id, call[c].cmd, call[c].since)
      BY <2>3, <2>5
    <3>2. x = call[c].cmd
      BY <1>1, <1>3, <3>1 DEF Answering
    <3>3. ASSUME NEW g \in Within(toClient'[l]), g.type = "result", g.id = call[c].id
          PROVE  Sound(call[c].cmd, call[c].since, g)'
      <4>1. Sound(call[c].cmd, call[c].since, g)
        BY <1>7, <3>1, <3>3 DEF Answering
      <4>2. QED
        BY <1>5, <2>1, <4>1 DEF Sound
    <3>4. QED
      BY <1>3, <1>5, <2>1, <3>1, <3>2, <3>3 DEF Answering
  <2>6. serve'[l] # "fresh" /\ seen'[l] = seen[l]
    BY <1>1, <1>5
  <2>7. \A g \in Within(toOwner'[l]) : g.id <= call[c].id
    BY <1>3, <2>3
  <2>8. QED
    BY <1>10, <2>1, <2>3, <2>4, <2>5, <2>6, <2>7 DEF Conversation
<1>11. \A c \in Clients : call[c].link # NoLink => Calm(call[c].link) \/ Conversation(c)'
  BY <1>8, <1>10, OwnLink
<1>12. /\ \A k \in Links : Within(toOwner'[k]) \subseteq Within(toOwner[k])
       /\ \A k \in Links : Asked(job'[k])
       /\ serve' \in [Links -> {"fresh", "open", "closed"}] /\ last' \in [Links -> Nat]
       /\ UNCHANGED clientVars
  <2>1. \A k \in Links : Within(toOwner'[k]) \subseteq Within(toOwner[k])
    BY <1>3
  <2>2. ASSUME NEW k \in Links PROVE Asked(job'[k])
    <3>1. issued' = issued /\ Asked(job[k])
      <4>1. issued' = issued
        BY <1>1 DEF clientVars
      <4>2. Asked(job[k])
        BY <1>2 DEF WorkKnown
      <4>3. QED
        BY <4>1, <4>2
    <3>2. job'[k] \in {x, NoCommand, job[k]}
      BY <1>5
    <3>3. Asked(x) /\ Asked(NoCommand)
      BY <1>4, ExecutorAssumption DEF Asked, Commands
    <3>4. QED
      BY <3>1, <3>2, <3>3 DEF Asked
  <2>3. serve' \in [Links -> {"fresh", "open", "closed"}] /\ last' \in [Links -> Nat]
    BY <1>1, <1>2, <1>3, <1>5 DEF ExchangeTypeOK
  <2>4. UNCHANGED clientVars
    BY <1>1 DEF clientVars
  <2>5. QED
    BY <2>1, <2>2, <2>3, <2>4
<1> HIDE DEF h, x
<1>13. QED
  BY <1>3, <1>5, <1>7, <1>9, <1>11, <1>12, OwnerMoves

LEMMA ServeResultInv ==
  ASSUME ExchangeInv, ExecTypeOK', Grows, AnswerInv, NEW l \in Links, ServeResult(l)
  PROVE  ExchangeInv'
<1> DEFINE f == Frame("result", last[l], job[l], result[l])
<1>1. /\ serve[l] = "open" /\ loc[l] = "writing"
      /\ ToClient(l, f) /\ DropCompleted(l)
      /\ UNCHANGED <<serve, last, toOwner, clientVars>>
  BY DEF ServeResult
<1>2. ExchangeTypeOK /\ JobsKnown /\ WorkKnown /\ IdsKnown /\ CallsKnown /\ ExecTypeOK
  BY DEF ExchangeInv, ExchangeTypeOK
<1>3. last[l] \in Nat /\ job[l] \in Commands /\ result[l] \in Answer
  BY <1>1, <1>2 DEF ExchangeTypeOK, ExecTypeOK, JobsKnown
<1>4. f \in Frames /\ f.type = "result" /\ f.id = last[l] /\ f.cmd = job[l]
      /\ f.answer = result[l]
  <2>1. "result" \in FrameTypes /\ job[l] \in Commands \cup {NoCommand}
    BY <1>3 DEF FrameTypes
  <2>2. QED
    BY <1>3, <2>1, FrameTyped
<1>5. /\ toClient' \in [Links -> Seq(Frames)]
      /\ \A k \in Links \ {l} : toClient'[k] = toClient[k]
      /\ Within(toClient'[l]) \subseteq Within(toClient[l]) \cup {f}
  <2> HIDE DEF f
  <2>1. QED
    BY <1>1, <1>2, <1>4, ToClientFacts
<1>6. /\ log' = log /\ seen' = seen /\ Idles /\ JobsKnown'
      /\ \A k \in Links \ {l} : loc'[k] = loc[k] /\ job'[k] = job[k]
  BY <1>1, <1>2, TaskIdles DEF DropCompleted, Release, ExecTypeOK
<1>7. \A k \in Links \ {l} : Calm(k)
  BY <1>1, <1>5, <1>6, OthersCalm
<1>8. IdsKnown'
  <2>1. \A g \in Within(toClient'[l]) : g.id <= last[l]
    BY <1>2, <1>3, <1>4, <1>5 DEF IdsKnown
  <2>2. \A k \in Links : serve'[k] = "fresh" => last'[k] = 0 /\ toOwner'[k] = <<>>
    BY <1>1, <1>2 DEF IdsKnown
  <2>3. ASSUME NEW k \in Links \ {l} PROVE \A g \in Within(toClient'[k]) : g.id <= last[k]
    BY <1>2, <1>5 DEF IdsKnown
  <2>4. QED
    BY <1>1, <2>1, <2>2, <2>3 DEF IdsKnown
<1>9. ASSUME NEW c \in Clients, call[c].link = l PROVE Conversation(c)'
  <2>1. l # NoLink /\ call' = call /\ last' = last /\ toOwner' = toOwner
    BY <1>1, ExecutorAssumption DEF clientVars
  <2>2. Conversation(c) /\ call[c].id \in Nat /\ call[c].since \in Nat
    BY <1>2, CallTyped DEF ExchangeInv, Conversations, CallsKnown, ExchangeTypeOK
  <2>3. /\ ClientOf[l] = c /\ last[l] <= call[c].id
        /\ \A g \in Within(toOwner[l]) : g.id <= call[c].id
        /\ call[c].phase = "begun" => Admitting(l, call[c].id)
        /\ call[c].phase \in {"begun", "sent"} /\ last[l] = call[c].id =>
             call[c].since <= seen[l]
        /\ call[c].phase = "sent" => Answering(l, call[c].id, call[c].cmd, call[c].since)
    BY <1>1, <1>9, <2>1, <2>2 DEF Conversation
  <2>4. ASSUME call[c].phase = "begun"
        PROVE  last[l] # call[c].id /\ Admitting(l, call[c].id)'
    <3>1. Admitting(l, call[c].id) /\ last[l] # call[c].id
      BY <1>1, <2>3, <2>4 DEF Admitting
    <3>2. \A g \in Within(toClient'[l]) : g.type = "result" => g.id # call[c].id
      BY <1>4, <1>5, <3>1 DEF Admitting
    <3>3. QED
      BY <2>1, <3>1, <3>2 DEF Admitting
  <2>5. ASSUME call[c].phase = "sent"
        PROVE  Answering(l, call[c].id, call[c].cmd, call[c].since)'
    <3>1. Answering(l, call[c].id, call[c].cmd, call[c].since)
      BY <2>3, <2>5
    <3>2. job[l] = call[c].cmd /\ call[c].since <= seen[l] /\ job'[l] \in {NoCommand, job[l]}
      BY <1>3, <1>6, <2>3, <2>5, <3>1, ExecutorAssumption DEF Answering, Commands, Idles
    <3>3. Sound(call[c].cmd, call[c].since, f)
      <4>1. ASSUME result[l].status = "ok", job[l] \in Queries
            PROVE  result[l].at \in call[c].since..Len(log)
        <5>1. result[l].at \in seen[l]..Len(log)
          BY <4>1 DEF AnswerInv, FreshAnswers
        <5>2. seen[l] \in Nat /\ Len(log) \in Nat
          BY <1>2 DEF ExecTypeOK, Grows
        <5>3. QED
          BY <2>2, <3>2, <5>1, <5>2
      <4>2. ASSUME result[l].status = "ok", job[l] \in Mutations
            PROVE  result[l].at \in 1..Len(log) /\ log[result[l].at] = job[l]
        BY <4>2 DEF AnswerInv, TrueAnswers
      <4> HIDE DEF f
      <4>3. QED
        BY <1>4, <3>2, <4>1, <4>2 DEF Sound
    <3>4. ASSUME NEW g \in Within(toClient'[l]), g.type = "result", g.id = call[c].id
          PROVE  Sound(call[c].cmd, call[c].since, g)'
      <4>1. Sound(call[c].cmd, call[c].since, g)
        BY <1>5, <3>1, <3>3, <3>4 DEF Answering
      <4>2. QED
        BY <1>6, <2>1, <4>1 DEF Sound
    <3>5. QED
      BY <2>1, <3>1, <3>2, <3>4 DEF Answering
  <2>6. serve'[l] # "fresh" /\ seen'[l] = seen[l]
    BY <1>1, <1>6
  <2>7. QED
    BY <1>9, <2>1, <2>3, <2>4, <2>5, <2>6 DEF Conversation
<1>10. \A c \in Clients : call[c].link # NoLink => Calm(call[c].link) \/ Conversation(c)'
  BY <1>7, <1>9, OwnLink
<1>11. /\ \A k \in Links : Within(toOwner'[k]) \subseteq Within(toOwner[k])
       /\ \A k \in Links : Asked(job'[k])
       /\ serve' \in [Links -> {"fresh", "open", "closed"}] /\ last' \in [Links -> Nat]
       /\ toOwner' \in [Links -> Seq(Frames)] /\ UNCHANGED clientVars
  BY <1>1, <1>2, <1>6, ExecutorAssumption
  DEF WorkKnown, ExchangeTypeOK, Asked, Commands, Idles
<1> HIDE DEF f
<1>12. QED
  BY <1>5, <1>6, <1>8, <1>10, <1>11, OwnerMoves

LEMMA ServeInv ==
  ASSUME ExchangeInv, IInv, ExecTypeOK', Grows, NEW l \in Links, ServeStep(l)
  PROVE  ExchangeInv'
<1>1. ExchangeTypeOK /\ ExecTypeOK /\ JobsKnown /\ AnswerInv /\ Blank
  BY DEF ExchangeInv, ExchangeTypeOK, IInv, AnswerInv
<1>2. /\ serve \in [Links -> {"fresh", "open", "closed"}]
      /\ toOwner \in [Links -> Seq(Frames)]
  BY <1>1 DEF ExchangeTypeOK
<1>3. CASE ServeTake(l)
  <2>1. Idles /\ JobsKnown' /\ UNCHANGED <<serve, last, toOwner, toClient, clientVars>>
    BY <1>1, <1>3, TaskIdles DEF ServeTake, wireVars
  <2>2. QED
    BY <1>2, <2>1, CalmOwner
<1>4. CASE ServeEnds(l)
  <2>1. /\ serve' = [serve EXCEPT ![l] = "closed"]
        /\ toOwner' = [toOwner EXCEPT ![l] = <<>>]
        /\ UNCHANGED <<last, toClient, clientVars>>
    BY <1>4 DEF ServeEnds
  <2>2. Idles /\ JobsKnown'
    <3>1. CASE UNCHANGED execVars
      BY <1>1, <3>1 DEF execVars, Idles, JobsKnown
    <3>2. CASE Forfeit(l) \/ Disconnect(l) \/ DropCompleted(l)
      BY <1>1, <3>2, TaskIdles
    <3>3. QED
      BY <1>4, <3>1, <3>2 DEF ServeEnds
  <2>3. QED
    BY <1>2, <2>1, <2>2, CalmOwner
<1>5. CASE ServeBegin(l)
  BY <1>1, <1>5, ServeBeginInv
<1>6. CASE ServeUpload(l)
  BY <1>6, ServeUploadInv
<1>7. CASE ServeResult(l)
  BY <1>1, <1>7, ServeResultInv
<1>8. QED
  BY <1>3, <1>4, <1>5, <1>6, <1>7 DEF ServeStep

LEMMA OwnerInv ==
  ASSUME ExchangeInv, IInv, ExecTypeOK', Grows,
         ThreadStep \/ StopOwner \/ OwnerDies \/ OwnerGone
  PROVE  ExchangeInv'
<1>1. ExchangeTypeOK /\ ExecTypeOK /\ JobsKnown
  BY DEF ExchangeInv, ExchangeTypeOK
<1>2. /\ serve \in [Links -> {"fresh", "open", "closed"}]
      /\ toOwner \in [Links -> Seq(Frames)]
  BY <1>1 DEF ExchangeTypeOK
<1>3. CASE ThreadStep \/ OwnerGone
  <2>1. Worker \/ Process
    BY <1>3 DEF ThreadStep, OwnerGone, Process
  <2>2. Idles /\ JobsKnown' /\ UNCHANGED <<serve, last, toOwner, toClient, clientVars>>
    BY <1>1, <1>3, <2>1, ThreadIdles, ProcessIdles DEF ThreadStep, OwnerGone, wireVars
  <2>3. QED
    BY <1>2, <2>2, CalmOwner
<1>4. CASE StopOwner \/ OwnerDies
  <2>1. Process /\ CloseAll
    BY <1>4 DEF StopOwner, OwnerDies, Process
  <2>2. Idles /\ JobsKnown'
    BY <1>1, <2>1, ProcessIdles
  <2>3. QED
    BY <1>2, <2>1, <2>2, CalmOwner DEF CloseAll
<1>5. QED
  BY <1>3, <1>4

-----------------------------------------------------------------------------
(***************************************************************************)
(* Exchanges only do to the executor what the executor allows.             *)
(***************************************************************************)

LEMMA ServeExecutes ==
  ASSUME ExchangeInv, NEW l \in Links, ServeStep(l)
  PROVE  [ExecNext]_execVars
<1>1. CASE ServeBegin(l)
  BY <1>1 DEF ServeBegin, ExecNext, ServeTask
<1>2. CASE ServeUpload(l)
  <2>1. \E x \in Commands : Submit(l, x)
    BY <1>2, UploadKnown
  <2>2. QED
    BY <2>1 DEF ExecNext, ServeTask
<1>3. CASE ServeTake(l) \/ ServeResult(l)
  BY <1>3 DEF ServeTake, ServeResult, ExecNext, ServeTask
<1>4. CASE ServeEnds(l)
  BY <1>4 DEF ServeEnds, ExecNext, ServeTask
<1>5. QED
  BY <1>1, <1>2, <1>3, <1>4 DEF ServeStep

LEMMA ClientsStandAside ==
  ASSUME NEW c \in Clients, ClientStep(c) \/ \E x \in Commands : Invoke(c, x)
  PROVE  UNCHANGED execVars
BY DEF ClientStep, Expire, Connect, ConnectFails, SendBegin, ReadAdmission, ReadResult,
       Broken, Invoke

LEMMA OwnerExecutes ==
  ASSUME ThreadStep \/ StopOwner \/ OwnerDies \/ OwnerGone
  PROVE  ExecNext
BY DEF ThreadStep, StopOwner, OwnerDies, OwnerGone, ExecNext, Process

LEMMA ExchangeExecutes ==
  ASSUME ExchangeInv, [ExchangeNext]_exchangeVars
  PROVE  [ExecNext]_execVars
<1>1. CASE UNCHANGED exchangeVars
  BY <1>1 DEF exchangeVars
<1>2. CASE ExchangeNext
  BY <1>2, ServeExecutes, ClientsStandAside, OwnerExecutes DEF ExchangeNext
<1>3. QED
  BY <1>1, <1>2

-----------------------------------------------------------------------------
(***************************************************************************)
(* The invariant is inductive.                                             *)
(***************************************************************************)

LEMMA InitExchange == ExchangeInit => IInv /\ ExchangeInv
<1> SUFFICES ASSUME ExchangeInit PROVE IInv /\ ExchangeInv
  OBVIOUS
<1>1. IInv /\ ExecTypeOK
  BY InitIInv DEF ExchangeInit, IInv, ShapeInv
<1>2. /\ serve = [l \in Links |-> "fresh"] /\ last = [l \in Links |-> 0]
      /\ toOwner = [l \in Links |-> <<>>] /\ toClient = [l \in Links |-> <<>>]
      /\ issued = {} /\ calls = 0
      /\ loc = [l \in Links |-> "none"] /\ job = [l \in Links |-> NoCommand]
      /\ log = <<>>
  BY DEF ExchangeInit, ExecInit
<1>3. \A c \in Clients :
        call[c] = [phase |-> "idle", cmd |-> NoCommand, since |-> 0,
                   link |-> NoLink, id |-> 0, retried |-> FALSE]
  BY DEF ExchangeInit
<1>4. call \in [Clients -> Call]
  <2>1. "idle" \in Phases /\ NoCommand \in Commands \cup {NoCommand}
        /\ NoLink \in Links \cup {NoLink} /\ FALSE \in BOOLEAN /\ 0 \in Nat
    BY DEF Phases
  <2>2. QED
    BY <2>1 DEF ExchangeInit, Call
<1>5. reply \in [Clients -> Reply]
  BY DEF ExchangeInit, Reply
<1>6. <<>> \in Seq(Frames) /\ Within(<<>>) = {} /\ Len(<<>>) = 0
  BY WithinEmpty
<1>7. ExchangeTypeOK
  BY <1>1, <1>2, <1>4, <1>5, <1>6, ExchangeAssumption DEF ExchangeTypeOK
<1>8. JobsKnown
  BY <1>2 DEF JobsKnown
<1>9. CallsKnown
  BY <1>2, <1>3, <1>6, ExecutorAssumption DEF CallsKnown, Asked, Commands
<1>10. WorkKnown
  BY <1>2, <1>6, ExecutorAssumption DEF WorkKnown, Asked, Commands
<1>11. IdsKnown
  BY <1>2, <1>6 DEF IdsKnown
<1>12. Conversations
  BY <1>3 DEF Conversations, Conversation
<1>13. QED
  BY <1>1, <1>7, <1>8, <1>9, <1>10, <1>11, <1>12 DEF ExchangeInv

LEMMA StillInv ==
  ASSUME ExchangeInv, UNCHANGED exchangeVars
  PROVE  ExchangeInv'
<1>1. /\ UNCHANGED <<execVars, serve, last, toOwner, toClient, call, issued, reply, calls>>
      /\ UNCHANGED <<loc, job, log, seen>>
  BY DEF exchangeVars, wireVars, clientVars, execVars
<1>2. ExchangeTypeOK' /\ JobsKnown' /\ CallsKnown' /\ WorkKnown' /\ IdsKnown'
  BY <1>1 DEF ExchangeInv, ExchangeTypeOK, ExecTypeOK, execVars, JobsKnown, CallsKnown,
              WorkKnown, IdsKnown, Asked
<1>3. Conversations'
  BY <1>1 DEF ExchangeInv, Conversations, Conversation, Admitting, Answering, Sound
<1>4. QED
  BY <1>2, <1>3 DEF ExchangeInv

LEMMA StepExchange ==
  ASSUME IInv, ExchangeInv, [ExchangeNext]_exchangeVars
  PROVE  IInv' /\ ExchangeInv' /\ Grows
<1>1. [ExecNext]_execVars
  BY ExchangeExecutes
<1>2. IInv' /\ ExecTypeOK' /\ ExecTypeOK /\ Blank
  BY <1>1, StepIInv DEF IInv, ShapeInv, AnswerInv
<1>3. Grows
  BY <1>1, <1>2, StoreGrows
<1>4. CASE UNCHANGED exchangeVars
  BY <1>2, <1>3, <1>4, StillInv
<1>5. CASE ExchangeNext
  BY <1>2, <1>3, <1>5, ClientInv, ServeInv, OwnerInv DEF ExchangeNext
<1>6. QED
  BY <1>4, <1>5

LEMMA ExchangeInductive == ExchangeSpec => [](IInv /\ ExchangeInv)
BY InitExchange, StepExchange, PTL DEF ExchangeSpec

\* Frames, calls, replies and the executor's state keep their types.
THEOREM ExchangeTypeCorrect == ExchangeSpec => []ExchangeTypeOK
<1>1. ExchangeInv => ExchangeTypeOK
  BY DEF ExchangeInv
<1>2. QED
  BY <1>1, ExchangeInductive, PTL

\* Driven by clients that retry, reconnect and give up, the executor still
\* gives sound answers, loses no reservation and finds room for every admitted
\* job.
THEOREM ExecutorUnderExchanges ==
  ExchangeSpec => [](SoundAnswers /\ ReservationsConserved /\ QueueHasRoom)
<1>1. IInv => SoundAnswers /\ ReservationsConserved /\ QueueHasRoom
  BY RoomFromPermits DEF IInv, AnswerInv, SoundAnswers, Conserved
<1>2. QED
  BY <1>1, ExchangeInductive, PTL

-----------------------------------------------------------------------------
(***************************************************************************)
(* Calls are calls of the abstract store.                                  *)
(***************************************************************************)

\* What the abstract store sees of the calls.
Asking == [d \in Clients |-> call[d].cmd]
Since == [d \in Clients |-> call[d].since]

\* A call that is neither begun nor over is nothing to the store.
LEMMA StoreStutters ==
  ASSUME UNCHANGED <<log, issued, reply>>,
         \A d \in Clients : call'[d].cmd = call[d].cmd /\ call'[d].since = call[d].since
  PROVE  UNCHANGED Contract!storeVars
BY DEF Contract!storeVars

LEMMA FinishReturns ==
  ASSUME ExchangeInv, NEW c \in Clients, NEW k \in {"ok", "error", "busy", "unknown"},
         NEW at \in Nat, Finish(c, k, at), log' = log, call[c].phase # "idle",
         k # "ok" => at = 0,
         k = "ok" => at \in Contract!Allowed(c, call[c].cmd)
  PROVE  Contract!StoreNext
<1>1. ExchangeTypeOK /\ CallsKnown
  BY DEF ExchangeInv
<1>2. /\ Becomes(c, "idle", NoCommand, call[c].since, call[c].link, call[c].id)
      /\ reply' = [reply EXCEPT ![c] = [cmd |-> call[c].cmd, kind |-> k, at |-> at]]
      /\ issued' = issued
  BY <1>1, FinishBecomes
<1>3. Asking[c] = call[c].cmd /\ Asking[c] # NoCommand
  BY <1>1 DEF Asking, CallsKnown
<1>4. Asking' = [Asking EXCEPT ![c] = NoCommand] /\ Since' = Since
  BY <1>2 DEF Becomes, Asking, Since
<1>5. [cmd |-> call[c].cmd, kind |-> k, at |-> at] \in Contract!Answers(c)
  <2>1. CASE k = "ok"
    BY <1>3, <2>1 DEF Contract!Answers, Asking
  <2>2. CASE k # "ok"
    BY <1>3, <2>2 DEF Contract!Answers, Asking
  <2>3. QED
    BY <2>1, <2>2
<1>6. Contract!Return(c)
  <2>1. \E r \in Contract!Answers(c) : reply' = [reply EXCEPT ![c] = r]
    BY <1>2, <1>5
  <2>2. QED
    BY <1>2, <1>3, <1>4, <2>1 DEF Contract!Return, Asking, Since
<1>7. QED
  BY <1>6, Zenon DEF Contract!StoreNext

\* An attempt given up is nothing to the store, a call given up returns.
LEMMA ErrorReturns ==
  ASSUME ExchangeInv, NEW c \in Clients, TransportError(c) \/ Backoff(c),
         call[c].phase # "idle", log' = log
  PROVE  [Contract!StoreNext]_(Contract!storeVars)
<1>1. call \in [Clients -> Call]
  BY DEF ExchangeInv, ExchangeTypeOK
<1>2. CASE Finish(c, "busy", 0) \/ Finish(c, "unknown", 0)
  BY <1>2, FinishReturns
<1>3. CASE /\ \/ call' = [call EXCEPT ![c].phase = "try", ![c].link = NoLink,
                                      ![c].retried = TRUE]
              \/ call' = [call EXCEPT ![c].phase = "try"]
           /\ UNCHANGED <<issued, reply, calls>>
  <2>1. \A d \in Clients : call'[d].cmd = call[d].cmd /\ call'[d].since = call[d].since
    BY <1>1, <1>3 DEF Call
  <2>2. QED
    BY <1>3, <2>1, StoreStutters
<1>4. QED
  BY <1>2, <1>3 DEF TransportError, Backoff

\* The answer a client accepts is one the store allows.
LEMMA AcceptedAnswers ==
  ASSUME ExchangeInv, NEW c \in Clients, call[c].phase = "sent", Consume(c),
         Incoming(c).type = "result", Current(c, Incoming(c)),
         Incoming(c).answer.status = "ok"
  PROVE  Incoming(c).answer.at \in Contract!Allowed(c, call[c].cmd)
<1>1. /\ ExchangeTypeOK /\ Conversation(c) /\ call[c].link # NoLink
      /\ call[c].cmd # NoCommand /\ call[c].cmd \in Commands \cup {NoCommand}
  BY CallTyped DEF ExchangeInv, CallsKnown, Conversations, ExchangeTypeOK
<1>2. Answering(call[c].link, call[c].id, call[c].cmd, call[c].since)
  BY <1>1 DEF Conversation
<1>3. Incoming(c) \in Within(toClient[call[c].link]) /\ Incoming(c).id = call[c].id
  BY <1>1, IncomingTyped DEF Current
<1>4. Sound(call[c].cmd, call[c].since, Incoming(c))
  BY <1>2, <1>3 DEF Answering
<1>5. CASE call[c].cmd \in Queries
  BY <1>4, <1>5 DEF Sound, Contract!Allowed
<1>6. CASE call[c].cmd \notin Queries
  <2>1. call[c].cmd \in Mutations
    BY <1>1, <1>6 DEF Commands
  <2>2. QED
    BY <1>4, <1>6, <2>1 DEF Sound, Contract!Allowed
<1>7. QED
  BY <1>5, <1>6

LEMMA InvokeCalls ==
  ASSUME ExchangeInv, NEW c \in Clients, NEW x \in Commands, Invoke(c, x)
  PROVE  Contract!StoreNext
<1>1. call \in [Clients -> Call] /\ CallsKnown
  BY DEF ExchangeInv, ExchangeTypeOK
<1>2. /\ call[c].phase = "idle" /\ (x \in Queries \/ x \in Mutations \ issued)
      /\ call' = [call EXCEPT ![c].phase = "try", ![c].cmd = x,
                              ![c].since = Len(log), ![c].retried = FALSE]
      /\ issued' = IF x \in Mutations THEN issued \cup {x} ELSE issued
      /\ UNCHANGED <<log, reply>>
  BY DEF Invoke, execVars
<1>3. Asking[c] = NoCommand
  BY <1>1, <1>2 DEF CallsKnown, Asking
<1>4. Asking' = [Asking EXCEPT ![c] = x] /\ Since' = [Since EXCEPT ![c] = Len(log)]
  BY <1>1, <1>2 DEF Asking, Since, Call
<1>5. Contract!Call(c, x)
  BY <1>2, <1>3, <1>4 DEF Contract!Call, Asking, Since
<1>6. x \in Mutations \cup Queries
  BY DEF Commands
<1>7. QED
  BY <1>5, <1>6, Zenon DEF Contract!StoreNext

LEMMA ClientImplements ==
  ASSUME ExchangeInv, NEW c \in Clients, ClientStep(c)
  PROVE  [Contract!StoreNext]_(Contract!storeVars)
<1>1. /\ call \in [Clients -> Call] /\ log' = log
      /\ call[c].phase # "idle" => call[c].cmd # NoCommand
  BY ClientsStandAside DEF ExchangeInv, ExchangeTypeOK, CallsKnown, execVars
<1>2. CASE Expire(c)
  BY <1>1, <1>2, FinishReturns DEF Expire
<1>3. CASE ConnectFails(c) \/ Broken(c)
  BY <1>1, <1>3, ErrorReturns DEF ConnectFails, Broken
<1>4. CASE Connect(c) \/ SendBegin(c)
  <2>1. \A d \in Clients : call'[d].cmd = call[d].cmd /\ call'[d].since = call[d].since
    <3>1. CASE Connect(c)
      <4>1. PICK l \in Links :
               call' = [call EXCEPT ![c].phase = "connected", ![c].link = l, ![c].id = 0]
        BY <3>1 DEF Connect
      <4>2. QED
        BY <1>1, <4>1 DEF Call
    <3>2. CASE SendBegin(c)
      <4>1. call' = [call EXCEPT ![c].phase = "begun", ![c].id = @ + 1]
        BY <3>2 DEF SendBegin
      <4>2. QED
        BY <1>1, <4>1 DEF Call
    <3>3. QED
      BY <1>4, <3>1, <3>2
  <2>2. UNCHANGED <<issued, reply>>
    BY <1>4 DEF Connect, SendBegin
  <2>3. QED
    BY <1>1, <2>1, <2>2, StoreStutters
<1>5. CASE ReadAdmission(c)
  <2>1. CASE call' = [call EXCEPT ![c].phase = "sent"] /\ UNCHANGED <<issued, reply>>
    <3>1. \A d \in Clients : call'[d].cmd = call[d].cmd /\ call'[d].since = call[d].since
      BY <1>1, <2>1 DEF Call
    <3>2. QED
      BY <1>1, <2>1, <3>1, StoreStutters
  <2>2. CASE TransportError(c) \/ Backoff(c)
    BY <1>1, <1>5, <2>2, ErrorReturns DEF ReadAdmission
  <2>3. QED
    BY <1>5, <2>1, <2>2 DEF ReadAdmission
<1>6. CASE ReadResult(c)
  <2>1. call[c].phase = "sent" /\ Consume(c) /\ call[c].link # NoLink
    BY <1>6 DEF ReadResult, ExchangeInv, CallsKnown
  <2>2. CASE /\ Incoming(c).type = "result" /\ Current(c, Incoming(c))
             /\ Incoming(c).answer.status = "ok" /\ Finish(c, "ok", Incoming(c).answer.at)
    BY <1>1, <2>1, <2>2, IncomingTyped, AcceptedAnswers, FinishReturns
  <2>3. CASE Finish(c, "error", 0)
    BY <1>1, <2>1, <2>3, FinishReturns
  <2>4. CASE TransportError(c) \/ Backoff(c)
    BY <1>1, <2>1, <2>4, ErrorReturns
  <2>5. QED
    BY <1>6, <2>2, <2>3, <2>4 DEF ReadResult
<1>7. QED
  BY <1>2, <1>3, <1>4, <1>5, <1>6 DEF ClientStep

\* The one step at which the thread commits is the mutation's effect, and only
\* an issued mutation commits.
LEMMA CommitTakesEffect ==
  ASSUME ExchangeInv, IInv, CommitMutation, UNCHANGED clientVars
  PROVE  Contract!StoreNext
<1> DEFINE m == job[group[1]]
<1>1. /\ phase = "execute" /\ m \in Mutations /\ ~InRange(m, log)
      /\ log' = Append(log, m)
  BY DEF CommitMutation
<1>2. ExecTypeOK /\ WorkKnown /\ PhaseShape
  BY DEF ExchangeInv, IInv, ShapeInv
<1>3. group[1] \in Links
  <2>1. group \in Seq(Links) /\ group # <<>>
    BY <1>1, <1>2 DEF ExecTypeOK, PhaseShape
  <2>2. QED
    BY <2>1, HeadTailProperties
<1>4. m \in issued
  BY <1>1, <1>2, <1>3 DEF WorkKnown, Asked
<1>5. ~Contract!InStore(m)
  BY <1>1 DEF InRange, Contract!InStore
<1>6. UNCHANGED <<issued, call, reply>>
  BY DEF clientVars
<1> HIDE DEF m
<1>7. Contract!TakeEffect(m)
  BY <1>1, <1>4, <1>5, <1>6 DEF Contract!TakeEffect
<1>8. QED
  BY <1>1, <1>7, Zenon DEF Contract!StoreNext

LEMMA OwnerImplements ==
  ASSUME ExchangeInv, IInv,
         (\E l \in Links : ServeStep(l)) \/ ThreadStep \/ StopOwner \/ OwnerDies \/ OwnerGone
  PROVE  [Contract!StoreNext]_(Contract!storeVars)
<1>1. UNCHANGED clientVars
  BY DEF ServeStep, ServeBegin, ServeUpload, ServeTake, ServeResult, ServeEnds,
         ThreadStep, StopOwner, OwnerDies, OwnerGone, CloseAll
<1>2. [ExecNext]_execVars
  BY ServeExecutes, OwnerExecutes
<1>3. log' = log \/ CommitMutation
  BY <1>2, LogSteps DEF execVars
<1>4. CASE log' = log
  BY <1>1, <1>4, StoreStutters DEF clientVars
<1>5. CASE CommitMutation
  BY <1>1, <1>5, CommitTakesEffect
<1>6. QED
  BY <1>3, <1>4, <1>5

\* Retries, reconnects, answers to abandoned exchanges, shared executions and
\* replaced owners are invisible: every call behaves as one call of a store in
\* which each mutation takes effect once and each successful query reads a
\* store that existed during the call.
THEOREM CallsLinearize == ExchangeSpec => Linearizable
<1>1. ExchangeInit => Contract!StoreInit
  BY DEF ExchangeInit, ExecInit, Contract!StoreInit, Contract!NoReply
<1>2. IInv /\ ExchangeInv /\ [ExchangeNext]_exchangeVars =>
        [Contract!StoreNext]_(Contract!storeVars)
  <2> SUFFICES ASSUME IInv, ExchangeInv, [ExchangeNext]_exchangeVars
               PROVE  [Contract!StoreNext]_(Contract!storeVars)
    OBVIOUS
  <2>1. CASE UNCHANGED exchangeVars
    BY <2>1, StoreStutters DEF exchangeVars, clientVars, execVars
  <2>2. CASE ExchangeNext
    BY <2>2, ClientImplements, InvokeCalls, OwnerImplements DEF ExchangeNext
  <2>3. QED
    BY <2>1, <2>2
<1>3. QED
  BY <1>1, <1>2, ExchangeInductive, PTL DEF ExchangeSpec, Linearizable, Contract!StoreSpec
=============================================================================
