----------------------------- MODULE RpcServer ------------------------------
(***************************************************************************)
(* The RPC servers: _ServerProtocol (aiozmq/rpc/rpc.py) and                *)
(* _BaseServerProtocol (rpc/base.py), one of them for each element of      *)
(* Servers.                                                                *)
(*                                                                         *)
(* A request ends in a future: failed at once when the method is not found *)
(* or the arguments do not fit, completed at once by a plain function, or  *)
(* the task of a coroutine, which is kept in pending_waiters.  The reply   *)
(* is written by process_call_result(), a callback of the future, which    *)
(* runs later.                                                             *)
(***************************************************************************)
EXTENDS RpcNetwork

CONSTANTS Servers,
          Outcomes  \* what the handlers may do

(* Besides giving an answer, a handler may end in CancelledError, or with  *)
(* a result or an exception whose arguments cannot be packed.              *)
ASSUME ServerAssumption ==
  Outcomes \subseteq Answers \cup {"cancelled", "unpackable"}

VARIABLES running,   \* pending_waiters, by server: coroutines that run
          finished,  \* futures whose callback is still to run, by server
          serving,   \* "open", "closing", or "None" after connection_lost()
          abandoned  \* servers with a cancelled future in done_waiters

serverVars == <<running, finished, serving, abandoned>>

Done == [call : Calls, id : Ids, outcome : Answers \cup {"cancelled", "unpackable"}]

ServerTypeOK ==
  /\ running \in [Servers -> SUBSET Request]
  /\ finished \in [Servers -> SUBSET Done]
  /\ serving \in [Servers -> {"open", "closing", "None"}]
  /\ abandoned \subseteq Servers

ServerInit ==
  /\ running = [s \in Servers |-> {}]
  /\ finished = [s \in Servers |-> {}]
  /\ serving = [s \in Servers |-> "open"]
  /\ abandoned = {}

-----------------------------------------------------------------------------
Finish(s, m, outcome) ==
  finished' = [finished EXCEPT ![s] =
                 @ \cup {[call |-> m.call, id |-> m.id, outcome |-> outcome]}]

\* Slip: the callback is added, the exception is not set.
RefuseSilently(s, m) == UNCHANGED <<running, finished>>

\* dispatch() or check_args() refuses.
Refuse(s, m) == Finish(s, m, "error") /\ UNCHANGED running

\* A coroutine: add_pending().
Start(s, m) ==
  /\ running' = [running EXCEPT ![s] = @ \cup {m}]
  /\ UNCHANGED finished

\* A plain function.  CancelledError is no Exception: it leaves msg_received().
CallPlain(s, m) ==
  /\ \E o \in Outcomes :
       IF o = "cancelled" THEN UNCHANGED finished ELSE Finish(s, m, o)
  /\ UNCHANGED running

\* msg_received(); a closing transport may still hand over messages.
ServeRequest(s) ==
  /\ serving[s] # "None"
  /\ \E m \in requests :
       /\ requests' = requests \ {m}
       /\ Refuse(s, m) \/ Start(s, m) \/ CallPlain(s, m)
  /\ UNCHANGED <<replies, serving, abandoned>>

EndCoroutine(s) ==
  /\ \E m \in running[s], o \in Outcomes :
       /\ running' = [running EXCEPT ![s] = @ \ {m}]
       /\ Finish(s, m, o)
  /\ UNCHANGED <<netVars, serving, abandoned>>

\* Slip: the callback is registered twice.
CallResultTwice(s) ==
  /\ \E d \in finished[s] :
       /\ d.outcome \in Answers /\ serving[s] # "None"
       /\ replies' = replies \cup {[call |-> d.call, id |-> d.id, answer |-> d.outcome]}
  /\ UNCHANGED <<requests, running, finished, serving, abandoned>>

\* process_call_result(): a lost connection, CancelledError and what cannot
\* be packed leave the client without a reply.  A closing transport writes
\* the reply behind its backlog, or drops it.
CallResult(s) ==
  /\ \E d \in finished[s] :
       /\ finished' = [finished EXCEPT ![s] = @ \ {d}]
       /\ \/ /\ d.outcome \in Answers /\ serving[s] # "None"
             /\ replies' = replies \cup {[call |-> d.call, id |-> d.id, answer |-> d.outcome]}
          \/ /\ d.outcome \in Answers => serving[s] # "open"
             /\ UNCHANGED replies
  /\ UNCHANGED <<requests, running, serving, abandoned>>

ServerClose(s) ==
  /\ serving[s] = "open"
  /\ serving' = [serving EXCEPT ![s] = "closing"]
  /\ UNCHANGED <<netVars, running, finished, abandoned>>

\* connection_lost(): the coroutines are cancelled, unless a future of
\* done_waiters was: it raises InvalidStateError.
ServerLost(s) ==
  /\ serving[s] # "None"
  /\ serving' = [serving EXCEPT ![s] = "None"]
  /\ IF s \in abandoned
     THEN UNCHANGED <<running, finished>>
     ELSE /\ running' = [running EXCEPT ![s] = {}]
          /\ finished' = [finished EXCEPT ![s] = @ \cup
               {[call |-> m.call, id |-> m.id, outcome |-> "cancelled"] : m \in running[s]}]
  /\ UNCHANGED <<netVars, abandoned>>

\* A task that waits in wait_closed() is cancelled.
AbandonServer(s) ==
  /\ "server_closer" \in Cancels
  /\ serving[s] # "None"
  /\ abandoned' = abandoned \cup {s}
  /\ UNCHANGED <<netVars, running, finished, serving>>

ServerNext ==
  \E s \in Servers : \/ ServeRequest(s) \/ EndCoroutine(s) \/ CallResult(s)
                     \/ ServerClose(s) \/ ServerLost(s) \/ AbandonServer(s)

=============================================================================
