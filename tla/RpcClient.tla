----------------------------- MODULE RpcClient ------------------------------
(***************************************************************************)
(* The RPC client: _ClientProtocol and RPCClient (aiozmq/rpc/rpc.py),      *)
(* _MethodCall (rpc/util.py), Service and _BaseProtocol (rpc/base.py).     *)
(*                                                                         *)
(* A call sends a request under a fresh id, remembers its future under     *)
(* that id and waits for it in a task of wait_for().  The future is        *)
(* completed by the answer with that id, or cancelled by the timeout, by   *)
(* the caller or by the end of the connection; only an answer removes it   *)
(* from `calls'.                                                           *)
(***************************************************************************)
EXTENDS RpcNetwork, Sequences

CONSTANTS Closers,   \* tasks that call wait_closed()
          Timeouts   \* the client has a timeout

ASSUME ClientAssumption == Timeouts \in BOOLEAN

VARIABLES made,         \* how many calls were made
          counter,      \* counter
          calls,        \* calls: the call whose future each id stands for
          fut,          \* the futures, with what completed them
          answeredBy,   \* the call whose answer completed the future
          transport,    \* "open", "closing", or "None" after connection_lost()
          doneWaiters,  \* done_waiters
          closer,       \* where the calls of wait_closed() are
          asserted      \* the assertion of call() failed

clientVars == <<made, counter, calls, fut, answeredBy, transport, doneWaiters,
                closer, asserted>>

Cancelled == {"timedout", "cancelled", "dropped"}
FutState  == {"none", "pending", "value", "error"} \cup Cancelled

ClientTypeOK ==
  /\ made \in 0..MaxCalls
  /\ counter \in Ids
  /\ DOMAIN calls \subseteq Ids
  /\ \A id \in DOMAIN calls : calls[id] \in Calls
  /\ fut \in [Calls -> FutState]
  /\ answeredBy \in [Calls -> Calls \cup {0}]
  /\ transport \in {"open", "closing", "None"}
  /\ doneWaiters \in Seq(Closers)
  /\ closer \in [Closers -> {"idle", "waiting", "cancelled", "released"}]
  /\ asserted \in BOOLEAN

ClientInit ==
  /\ made = 0
  /\ counter = 0
  /\ calls = [id \in {} |-> 0]
  /\ fut = [n \in Calls |-> "none"]
  /\ answeredBy = [n \in Calls |-> 0]
  /\ transport = "open"
  /\ doneWaiters = <<>>
  /\ closer = [c \in Closers |-> "idle"]
  /\ asserted = FALSE

-----------------------------------------------------------------------------
\* _new_id()
NewId == IF counter = MaxId THEN 0 ELSE counter + 1

\* Slip: an id that is still in use is taken over.
CallTakingOver ==
  /\ transport # "None"
  /\ made < MaxCalls
  /\ made' = made + 1
  /\ counter' = NewId
  /\ calls' = [id \in DOMAIN calls \cup {NewId} |-> IF id = NewId THEN made' ELSE calls[id]]
  /\ fut' = [fut EXCEPT ![made'] = "pending"]
  /\ requests' = requests \cup {[call |-> made', id |-> NewId]}
  /\ UNCHANGED <<answeredBy, transport, doneWaiters, closer, asserted, replies>>

\* call().  A closing transport sends the request behind its backlog, or
\* drops it.
Call ==
  /\ transport # "None"
  /\ made < MaxCalls
  /\ NewId \notin DOMAIN calls
  /\ made' = made + 1
  /\ counter' = NewId
  /\ calls' = [id \in DOMAIN calls \cup {NewId} |-> IF id = NewId THEN made' ELSE calls[id]]
  /\ fut' = [fut EXCEPT ![made'] = "pending"]
  /\ \/ requests' = requests \cup {[call |-> made', id |-> NewId]}
     \/ transport = "closing" /\ UNCHANGED requests
  /\ UNCHANGED <<answeredBy, transport, doneWaiters, closer, asserted, replies>>

\* assert req_id not in self.calls
CallAsserts ==
  /\ transport # "None"
  /\ NewId \in DOMAIN calls
  /\ counter' = NewId
  /\ asserted' = TRUE
  /\ UNCHANGED <<made, calls, fut, answeredBy, transport, doneWaiters, closer, netVars>>

Forget(id) == calls' = [i \in DOMAIN calls \ {id} |-> calls[i]]

\* msg_received() with an id nobody waits for.
UnknownAnswer(m) ==
  /\ m.id \notin DOMAIN calls
  /\ UNCHANGED <<calls, fut, answeredBy>>

\* Slip: a late answer completes the call all the same.
LateAnswerTaken(m) ==
  /\ m.id \in DOMAIN calls /\ fut[calls[m.id]] \in Cancelled
  /\ Forget(m.id)
  /\ fut' = [fut EXCEPT ![calls[m.id]] = "value"]
  /\ UNCHANGED answeredBy

\* msg_received(), the call was given up.
LateAnswer(m) ==
  /\ m.id \in DOMAIN calls /\ fut[calls[m.id]] \in Cancelled
  /\ Forget(m.id)
  /\ UNCHANGED <<fut, answeredBy>>

\* msg_received(), the call waits.  An exception that cannot be built leaves
\* msg_received(), and the future behind.
Answer(m) ==
  /\ m.id \in DOMAIN calls /\ fut[calls[m.id]] \notin Cancelled
  /\ Forget(m.id)
  /\ IF m.answer = "odd"
     THEN UNCHANGED <<fut, answeredBy>>
     ELSE /\ fut' = [fut EXCEPT ![calls[m.id]] = m.answer]
          /\ answeredBy' = [answeredBy EXCEPT ![calls[m.id]] = m.call]

MsgReceived ==
  /\ transport # "None"
  /\ \E m \in replies :
       /\ replies' = replies \ {m}
       /\ UnknownAnswer(m) \/ LateAnswer(m) \/ Answer(m)
  /\ UNCHANGED <<made, counter, transport, doneWaiters, closer, asserted, requests>>

\* Slip: the call is forgotten when it is given up, its id may come back.
TimeoutForgetting ==
  /\ Timeouts
  /\ \E n \in Calls : /\ fut[n] = "pending" /\ fut' = [fut EXCEPT ![n] = "timedout"]
                      /\ calls' = [i \in {j \in DOMAIN calls : calls[j] # n} |-> calls[i]]
  /\ UNCHANGED <<made, counter, answeredBy, transport, doneWaiters, closer,
                 asserted, netVars>>

\* wait_for() gives up and cancels the future.
Timeout ==
  /\ Timeouts
  /\ \E n \in Calls : fut[n] = "pending" /\ fut' = [fut EXCEPT ![n] = "timedout"]
  /\ UNCHANGED <<made, counter, calls, answeredBy, transport, doneWaiters, closer,
                 asserted, netVars>>

\* The caller cancels the task of wait_for().
CancelCall ==
  /\ "call" \in Cancels
  /\ \E n \in Calls : fut[n] = "pending" /\ fut' = [fut EXCEPT ![n] = "cancelled"]
  /\ UNCHANGED <<made, counter, calls, answeredBy, transport, doneWaiters, closer,
                 asserted, netVars>>

\* Service.close()
Close ==
  /\ transport = "open"
  /\ transport' = "closing"
  /\ UNCHANGED <<made, counter, calls, fut, answeredBy, doneWaiters, closer, asserted,
                 netVars>>

\* Service.wait_closed()
WaitClosed(c) ==
  /\ transport # "None"
  /\ closer[c] = "idle"
  /\ doneWaiters' = Append(doneWaiters, c)
  /\ closer' = [closer EXCEPT ![c] = "waiting"]
  /\ UNCHANGED <<made, counter, calls, fut, answeredBy, transport, asserted, netVars>>

CancelWaitClosed(c) ==
  /\ "closer" \in Cancels
  /\ closer[c] = "waiting"
  /\ closer' = [closer EXCEPT ![c] = "cancelled"]
  /\ UNCHANGED <<made, counter, calls, fut, answeredBy, transport, doneWaiters, asserted,
                 netVars>>

\* The future of done_waiters[i] takes no result any more.
DoneAlready(i) == closer[doneWaiters[i]] = "cancelled"

\* Slip: only one waiter is told.
ReleasedFirst == {doneWaiters[i] : i \in {j \in 1..Len(doneWaiters) : j = 1}}

\* The waiters are told one after the other; a future that was cancelled
\* raises InvalidStateError, and what comes after it is skipped.
Released == {doneWaiters[i] : i \in {j \in 1..Len(doneWaiters) :
                                       \A k \in 1..j : ~DoneAlready(k)}}

CancelCalls ==
  fut' = [n \in Calls |-> IF fut[n] = "pending" /\ \E id \in DOMAIN calls : calls[id] = n
                          THEN "dropped" ELSE fut[n]]

\* connection_lost(): of a closed transport, or by a fatal error of an open one.
ConnectionLost ==
  /\ transport # "None"
  /\ transport' = "None"
  /\ closer' = [c \in Closers |-> IF c \in Released THEN "released" ELSE closer[c]]
  /\ IF \E i \in 1..Len(doneWaiters) : DoneAlready(i)
     THEN UNCHANGED fut
     ELSE CancelCalls
  /\ UNCHANGED <<made, counter, calls, answeredBy, doneWaiters, asserted, netVars>>

ClientNext ==
  \/ Call \/ CallAsserts \/ MsgReceived \/ Timeout \/ CancelCall
  \/ Close \/ ConnectionLost
  \/ \E c \in Closers : WaitClosed(c) \/ CancelWaitClosed(c)

-----------------------------------------------------------------------------
(* Safety.                                                                 *)

\* A call gets its own answer: although ids come round, calls are given up
\* and answers come late, from any server and in any order.
AnswersMatch == \A n \in Calls : fut[n] \in {"value", "error"} => answeredBy[n] = n

\* No wait_closed() was cancelled before the connection was lost.
Undisturbed == \A c \in Closers : closer[c] # "cancelled"

\* A call that waits can still be reached, by its answer and by the end of
\* the connection; after that nobody waits, unless a wait_closed() was
\* cancelled (call, msg_received, connection_lost).
PendingIsKnown ==
  \A n \in Calls : fut[n] = "pending" =>
    /\ \E id \in DOMAIN calls : calls[id] = n
    /\ Undisturbed => transport # "None"

\* wait_closed() returns when the connection is lost, unless one that was
\* called earlier has been cancelled; that keeps the later ones waiting only.
EarlyClosersReleased ==
  transport = "None" =>
    \A i \in 1..Len(doneWaiters) :
      (\A j \in 1..i : closer[doneWaiters[j]] # "cancelled")
        => closer[doneWaiters[i]] # "waiting"

\* wait_closed() returns when the connection is lost.
ClosersReleased == transport = "None" => \A c \in Closers : closer[c] # "waiting"

\* An id is never taken twice.
IdsFresh == ~asserted

\* What a call came to is final: a late answer "is ignored", a timeout or
\* the end of the connection does not overtake an answer.
OutcomeFinal ==
  [][\A n \in Calls : fut[n] \notin {"none", "pending"} => fut'[n] = fut[n]]_clientVars

=============================================================================
