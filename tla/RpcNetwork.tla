----------------------------- MODULE RpcNetwork -----------------------------
(***************************************************************************)
(* What lies between an RPC client and its servers (aiozmq/rpc/rpc.py): a  *)
(* DEALER socket that hands each request to one of the ROUTER sockets it   *)
(* is connected to, and takes their replies as they come.  A connection    *)
(* that breaks may lose messages; none is duplicated.  Requests to, and    *)
(* replies from, different servers overtake each other, so no order is     *)
(* assumed.                                                                *)
(*                                                                         *)
(* Calls are numbered; a message carries the number of its call, which the *)
(* program does not see, and the request id, which is all it goes by.      *)
(***************************************************************************)
EXTENDS Naturals

CONSTANTS MaxCalls,  \* bound: calls the client makes
          MaxId,     \* the largest request id, 0xFFFFFFFF in the code
          Cancels    \* what the application may cancel: a "call", and the
                     \* wait_closed() of the client ("closer") or of a server

ASSUME NetworkAssumption ==
  /\ MaxCalls \in Nat
  /\ MaxId \in Nat \ {0}
  /\ Cancels \subseteq {"call", "closer", "server_closer"}

VARIABLES requests,  \* requests under way
          replies    \* replies under way

netVars == <<requests, replies>>

Calls == 1..MaxCalls
Ids   == 0..MaxId

(* What a reply says: a value, an exception, or an exception whose class   *)
(* cannot be built from the arguments that were sent along.                *)
Answers == {"value", "error", "odd"}

Request == [call : Calls, id : Ids]
Reply   == [call : Calls, id : Ids, answer : Answers]

NetTypeOK == requests \subseteq Request /\ replies \subseteq Reply

NetInit == requests = {} /\ replies = {}

LoseRequest == \E m \in requests : requests' = requests \ {m} /\ UNCHANGED replies

LoseReply == \E m \in replies : replies' = replies \ {m} /\ UNCHANGED requests

=============================================================================
