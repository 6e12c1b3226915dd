---------------------------- MODULE SharedStore ----------------------------
(***************************************************************************)
(* What a shared client may rely on when it calls its repository's runtime *)
(* (RuntimeClient::mutate_prepared and ::query behind the retry loop),     *)
(* whatever connections, owners and retries served the call.               *)
(*                                                                         *)
(* The store is a sequence of mutations.  A mutation takes effect at most  *)
(* once and never before it was asked for; a successful mutation has taken *)
(* effect when its call returns, where the answer says; a successful query *)
(* has read the store as it was at some moment of its call.  An error, a   *)
(* busy runtime and a lost connection promise nothing about the effect,    *)
(* which may even come after the call has returned.                        *)
(***************************************************************************)
EXTENDS Naturals, Sequences

CONSTANTS Clients, Mutations, Queries, NoCommand

VARIABLES
  store,    \* committed mutations in commit order
  issued,   \* mutations some client has asked for
  calling,  \* [Clients -> command in progress or NoCommand]
  since,    \* [Clients -> Nat]: length of the store when the call began
  reply     \* [Clients -> Reply]: outcome of the last call

storeVars == <<store, issued, calling, since, reply>>

Reply == [cmd : Mutations \cup Queries \cup {NoCommand},
          kind : {"none", "ok", "error", "busy", "unknown"}, at : Nat]

NoReply == [cmd |-> NoCommand, kind |-> "none", at |-> 0]

InStore(m) == \E k \in 1..Len(store) : store[k] = m

StoreInit ==
  /\ store = <<>> /\ issued = {}
  /\ calling = [c \in Clients |-> NoCommand]
  /\ since = [c \in Clients |-> 0]
  /\ reply = [c \in Clients |-> NoReply]

Call(c, x) ==
  /\ calling[c] = NoCommand
  /\ x \in Queries \/ x \in Mutations \ issued
  /\ calling' = [calling EXCEPT ![c] = x]
  /\ since' = [since EXCEPT ![c] = Len(store)]
  /\ issued' = IF x \in Mutations THEN issued \cup {x} ELSE issued
  /\ UNCHANGED <<store, reply>>

\* An issued mutation takes effect, its caller still waiting or not.
TakeEffect(m) ==
  /\ m \in issued /\ ~InStore(m)
  /\ store' = Append(store, m)
  /\ UNCHANGED <<issued, calling, since, reply>>

\* Positions a successful answer to x may name.
Allowed(c, x) ==
  IF x \in Queries THEN since[c]..Len(store)
  ELSE {k \in 1..Len(store) : store[k] = x}

Answers(c) ==
  {[cmd |-> calling[c], kind |-> "ok", at |-> n] : n \in Allowed(c, calling[c])}
  \cup {[cmd |-> calling[c], kind |-> k, at |-> 0] : k \in {"error", "busy", "unknown"}}

Return(c) ==
  /\ calling[c] # NoCommand
  /\ \E r \in Answers(c) : reply' = [reply EXCEPT ![c] = r]
  /\ calling' = [calling EXCEPT ![c] = NoCommand]
  /\ UNCHANGED <<store, issued, since>>

StoreNext ==
  \/ \E c \in Clients : Return(c) \/ \E x \in Mutations \cup Queries : Call(c, x)
  \/ \E m \in Mutations : TakeEffect(m)

StoreSpec == StoreInit /\ [][StoreNext]_storeVars
=============================================================================
