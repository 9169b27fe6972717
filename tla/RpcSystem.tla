----------------------------- MODULE RpcSystem ------------------------------
(***************************************************************************)
(* One RPC client and its servers, over a network that may lose messages.  *)
(***************************************************************************)
EXTENDS RpcClient, RpcServer

CONSTANT Lossy  \* the network loses messages

ASSUME LossyAssumption == Lossy \in BOOLEAN

vars == <<netVars, clientVars, serverVars>>

TypeOK == NetTypeOK /\ ClientTypeOK /\ ServerTypeOK

Init == NetInit /\ ClientInit /\ ServerInit

Next == \/ ClientNext /\ UNCHANGED serverVars
        \/ ServerNext /\ UNCHANGED clientVars
        \/ Lossy /\ (LoseRequest \/ LoseReply) /\ UNCHANGED <<clientVars, serverVars>>

Spec == Init /\ [][Next]_vars

\* Every server serves requests and ends its coroutines, every message
\* arrives, and a closed client loses its connection.
Fairness ==
  /\ \A s \in Servers : /\ WF_vars(ServeRequest(s) /\ UNCHANGED clientVars)
                        /\ WF_vars(CallResult(s) /\ UNCHANGED clientVars)
  /\ WF_vars(MsgReceived /\ UNCHANGED serverVars)
  /\ WF_vars(transport = "closing" /\ ConnectionLost /\ UNCHANGED serverVars)

CoroutinesEnd ==
  \A s \in Servers : WF_vars(EndCoroutine(s) /\ UNCHANGED clientVars)

\* The application's coroutines may wait for ever.
FairSpec == Spec /\ Fairness

FairHandlersSpec == FairSpec /\ CoroutinesEnd

-----------------------------------------------------------------------------
(* Safety.                                                                 *)

\* Where call n can be found: on the way to a server, served, served but not
\* answered yet, on the way back.
Traces(n) ==
  {<<"request", m>> : m \in {q \in requests : q.call = n}}
    \cup {<<"reply", m>> : m \in {q \in replies : q.call = n}}
    \cup (UNION {{<<s, "running", m>> : m \in {q \in running[s] : q.call = n}} : s \in Servers})
    \cup (UNION {{<<s, "finished", m>> : m \in {q \in finished[s] : q.call = n}} : s \in Servers})

\* A request is served once and answered at most once: there is never more
\* than one trace of it.
AtMostOnce == \A n \in Calls : \A t, u \in Traces(n) : t = u

\* An id is not free for another call while an answer to the old one may
\* come: however often the ids come round, and whatever was given up.
IdsHeld ==
  \A m \in requests \cup replies \cup UNION {running[s] \cup finished[s] : s \in Servers} :
    m.id \in DOMAIN calls /\ calls[m.id] = m.call

\* The books of both sides: ids of 32 bits that stand for one call each, from
\* its request until its answer was taken off the wire.
Books == TypeOK /\ IdsHeld

\* A server that lost its connection has cancelled its coroutines, unless a
\* wait_closed() was cancelled before (connection_lost, discard_pending).
NothingRuns ==
  \A s \in Servers : serving[s] = "None" /\ s \notin abandoned => running[s] = {}

\* The end of a connection, on either side, is known to all that depend on it:
\* calls that wait, tasks in wait_closed(), coroutines of the server.
NobodyForgotten == PendingIsKnown /\ EarlyClosersReleased /\ NothingRuns

-----------------------------------------------------------------------------
(* What the client and its servers promise together.                       *)

Asked == {m.call : m \in requests}

Handled == UNION {{m.call : m \in running[s]} : s \in Servers}

\* Answers in the servers whose callback has not run, and answers on the way.
Given ==
  {[call |-> m.call, answer |-> m.answer] : m \in replies}
    \cup UNION {{[call |-> d.call, answer |-> d.outcome] :
                   d \in {f \in finished[s] : f.outcome \in Answers}} : s \in Servers}

Contract == INSTANCE RpcContract WITH
  asked <- Asked, handled <- Handled, answers <- Given, result <- fut

\* A call is handled once at most and comes to what its own handler answered, and
\* to nothing else afterwards: the ids, which come round, the futures that are
\* left in `calls' and the callbacks of the servers do not show (call,
\* msg_received, process_call_result).
ContractSpec == Contract!Spec

-----------------------------------------------------------------------------
(* Liveness.                                                               *)

\* Every call comes to an end, with its answer or with the connection, while
\* all servers serve, every message arrives and no wait_closed() is cancelled
\* (call, msg_received, process_call_result, connection_lost).
CallsEnd ==
  \A n \in Calls :
    fut[n] = "pending" ~> \/ fut[n] # "pending"
                         \/ \E s \in Servers : serving[s] # "open"
                         \/ ~Undisturbed

\* A coroutine of a server ends: within the timeout of serve_rpc().
CoroutinesStop ==
  \A s \in Servers, n \in Calls :
    (\E m \in running[s] : m.call = n) ~> ~(\E m \in running[s] : m.call = n)

=============================================================================
