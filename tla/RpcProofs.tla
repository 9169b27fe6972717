----------------------------- MODULE RpcProofs ------------------------------
(***************************************************************************)
(* Theorems about RpcSystem, for all values of its constants: any number   *)
(* of calls, ids that come round after any number, any servers and         *)
(* closers, whatever handlers do and the application cancels, over a       *)
(* network that loses messages or does not.                                *)
(***************************************************************************)
EXTENDS RpcSystem, TLAPS

-----------------------------------------------------------------------------
(* The inductive invariant.                                                *)

\* `calls' says which call the id of m stands for.
Held(m) == m.id \in DOMAIN calls /\ calls[m.id] = m.call

\* An id stands for a call that was made and got no answer yet, and a call has one
\* id.  What is not made has not begun.
IdsInUse ==
  /\ \A id \in DOMAIN calls : calls[id] <= made /\ fut[calls[id]] \in {"pending"} \cup Cancelled
  /\ \A i, j \in DOMAIN calls : calls[i] = calls[j] => i = j
  /\ \A n \in Calls : n > made => fut[n] = "none"

\* AtMostOnce, place by place.
OneOnTheWay ==
  /\ \A p, q \in requests : p.call = q.call => p = q
  /\ \A p, q \in replies : p.call = q.call => p = q
  /\ \A p \in requests, q \in replies : p.call # q.call

OneInServers ==
  /\ \A s, t \in Servers : \A p \in running[s], q \in running[t] :
       p.call = q.call => s = t /\ p = q
  /\ \A s, t \in Servers : \A p \in finished[s], q \in finished[t] :
       p.call = q.call => s = t /\ p = q
  /\ \A s, t \in Servers : \A p \in running[s], q \in finished[t] : p.call # q.call

EitherWay ==
  /\ \A s \in Servers : \A p \in requests, q \in running[s] : p.call # q.call
  /\ \A s \in Servers : \A p \in requests, q \in finished[s] : p.call # q.call
  /\ \A s \in Servers : \A p \in replies, q \in running[s] : p.call # q.call
  /\ \A s \in Servers : \A p \in replies, q \in finished[s] : p.call # q.call

OneTrace == OneOnTheWay /\ OneInServers /\ EitherWay

RpcInv == TypeOK /\ IdsHeld /\ IdsInUse /\ OneTrace /\ AnswersMatch

\* IdsHeld, place by place.
LEMMA HeldSomewhere ==
  IdsHeld <=> /\ \A m \in requests : Held(m)
              /\ \A m \in replies : Held(m)
              /\ \A s \in Servers : \A m \in running[s] : Held(m)
              /\ \A s \in Servers : \A m \in finished[s] : Held(m)
BY DEF IdsHeld, Held

LEMMA HeldSomewhereNext ==
  IdsHeld' <=> /\ \A m \in requests' : Held(m)'
               /\ \A m \in replies' : Held(m)'
               /\ \A s \in Servers : \A m \in running'[s] : Held(m)'
               /\ \A s \in Servers : \A m \in finished'[s] : Held(m)'
BY DEF IdsHeld, Held

LEMMA TraceImpliesOnce == OneTrace => AtMostOnce
<1> SUFFICES ASSUME OneTrace, NEW n \in Calls, NEW t \in Traces(n), NEW u \in Traces(n)
             PROVE  t = u
  BY DEF AtMostOnce
<1> DEFINE Sent(x)   == \E m \in requests : m.call = n /\ x = <<"request", m>>
           Back(x)   == \E m \in replies : m.call = n /\ x = <<"reply", m>>
           Runs(x)   == \E s \in Servers : \E m \in running[s] :
                          m.call = n /\ x = <<s, "running", m>>
           Ended(x)  == \E s \in Servers : \E m \in finished[s] :
                          m.call = n /\ x = <<s, "finished", m>>
<1>1. \A x \in Traces(n) : Sent(x) \/ Back(x) \/ Runs(x) \/ Ended(x)
  BY DEF Traces
<1>2. CASE Sent(t)
  <2>1. ~Back(u) /\ ~Runs(u) /\ ~Ended(u)
    BY <1>2 DEF OneTrace, OneOnTheWay, EitherWay
  <2> QED BY <1>1, <1>2, <2>1 DEF OneTrace, OneOnTheWay
<1>3. CASE Back(t)
  <2>1. ~Sent(u) /\ ~Runs(u) /\ ~Ended(u)
    BY <1>3 DEF OneTrace, OneOnTheWay, EitherWay
  <2> QED BY <1>1, <1>3, <2>1 DEF OneTrace, OneOnTheWay
<1>4. CASE Runs(t)
  <2>1. ~Sent(u) /\ ~Back(u) /\ ~Ended(u)
    BY <1>4 DEF OneTrace, OneInServers, EitherWay
  <2> QED BY <1>1, <1>4, <2>1 DEF OneTrace, OneInServers
<1>5. CASE Ended(t)
  <2>1. ~Sent(u) /\ ~Back(u) /\ ~Runs(u)
    BY <1>5 DEF OneTrace, OneInServers, EitherWay
  <2> QED BY <1>1, <1>5, <2>1 DEF OneTrace, OneInServers
<1> QED BY <1>1, <1>2, <1>3, <1>4, <1>5

-----------------------------------------------------------------------------
(* Types.                                                                  *)

LEMMA NewIdType == ASSUME counter \in Ids PROVE NewId \in Ids
BY NetworkAssumption DEF NewId, Ids

LEMMA ServerTypeStep == ASSUME TypeOK, ServerNext PROVE NetTypeOK' /\ ServerTypeOK'
<1> SUFFICES ASSUME NEW s \in Servers,
                    \/ ServeRequest(s) \/ EndCoroutine(s) \/ CallResult(s)
                    \/ ServerClose(s) \/ ServerLost(s) \/ AbandonServer(s)
             PROVE  NetTypeOK' /\ ServerTypeOK'
  BY DEF ServerNext
<1>0. /\ requests \subseteq Request /\ replies \subseteq Reply
      /\ running \in [Servers -> SUBSET Request]
      /\ finished \in [Servers -> SUBSET Done]
      /\ serving \in [Servers -> {"open", "closing", "None"}]
      /\ abandoned \subseteq Servers
  BY DEF TypeOK, NetTypeOK, ServerTypeOK
<1>1. ASSUME NEW m \in Request, NEW o \in Outcomes \cup {"error", "cancelled"}
      PROVE  [call |-> m.call, id |-> m.id, outcome |-> o] \in Done
  BY ServerAssumption DEF Done, Request, Answers
<1>2. CASE ServeRequest(s)
  <2>1. PICK m \in requests : /\ requests' = requests \ {m}
                              /\ Refuse(s, m) \/ Start(s, m) \/ CallPlain(s, m)
    BY <1>2 DEF ServeRequest
  <2>2. m \in Request
    BY <1>0
  <2>3. finished' \in [Servers -> SUBSET Done] /\ running' \in [Servers -> SUBSET Request]
    <3>1. CASE Refuse(s, m)
      BY <1>0, <1>1, <2>2, <3>1 DEF Refuse, Finish
    <3>2. CASE Start(s, m)
      BY <1>0, <2>2, <3>2 DEF Start
    <3>3. CASE CallPlain(s, m)
      BY <1>0, <1>1, <2>2, <3>3 DEF CallPlain, Finish
    <3> QED BY <2>1, <3>1, <3>2, <3>3
  <2> QED BY <1>0, <1>2, <2>1, <2>3 DEF ServeRequest, NetTypeOK, ServerTypeOK
<1>3. CASE EndCoroutine(s)
  <2>1. PICK m \in running[s], o \in Outcomes :
          running' = [running EXCEPT ![s] = @ \ {m}] /\ Finish(s, m, o)
    BY <1>3 DEF EndCoroutine
  <2>2. m \in Request
    BY <1>0
  <2> QED BY <1>0, <1>1, <1>3, <2>1, <2>2 DEF EndCoroutine, Finish, NetTypeOK, ServerTypeOK, netVars
<1>4. CASE CallResult(s)
  <2>1. PICK d \in finished[s] :
          /\ finished' = [finished EXCEPT ![s] = @ \ {d}]
          /\ \/ /\ d.outcome \in Answers
                /\ replies' = replies \cup {[call |-> d.call, id |-> d.id, answer |-> d.outcome]}
             \/ UNCHANGED replies
    BY <1>4 DEF CallResult
  <2>2. d \in Done
    BY <1>0
  <2>3. replies' \subseteq Reply
    BY <1>0, <2>1, <2>2 DEF Done, Reply
  <2> QED BY <1>0, <1>4, <2>1, <2>3 DEF CallResult, NetTypeOK, ServerTypeOK
<1>5. CASE ServerLost(s)
  <2>1. \A m \in running[s] : [call |-> m.call, id |-> m.id, outcome |-> "cancelled"] \in Done
    BY <1>0, <1>1
  <2> QED BY <1>0, <1>5, <2>1 DEF ServerLost, NetTypeOK, ServerTypeOK, netVars
<1>6. CASE ServerClose(s) \/ AbandonServer(s)
  BY <1>0, <1>6 DEF ServerClose, AbandonServer, NetTypeOK, ServerTypeOK, netVars
<1> QED BY <1>2, <1>3, <1>4, <1>5, <1>6

LEMMA ClientTypeStep == ASSUME TypeOK, ClientNext PROVE NetTypeOK' /\ ClientTypeOK'
<1>0. NetTypeOK /\ ClientTypeOK
  BY DEF TypeOK
<1>1. CASE Call
  <2>1. NewId \in Ids /\ made' \in Calls
    BY <1>0, <1>1, NewIdType, NetworkAssumption DEF Call, ClientTypeOK, Calls
  <2>2. requests' \subseteq Request
    BY <1>0, <1>1, <2>1 DEF Call, NetTypeOK, Request
  <2>3. /\ DOMAIN calls' = DOMAIN calls \cup {NewId}
        /\ \A id \in DOMAIN calls' : calls'[id] \in Calls
        /\ fut' \in [Calls -> FutState]
    BY <1>0, <1>1, <2>1 DEF Call, ClientTypeOK, FutState
  <2>4. made' \in 0..MaxCalls
    BY <2>1, NetworkAssumption DEF Calls
  <2> QED BY <1>0, <1>1, <2>1, <2>2, <2>3, <2>4 DEF Call, NetTypeOK, ClientTypeOK
<1>2. CASE CallAsserts
  BY <1>0, <1>2, NewIdType DEF CallAsserts, NetTypeOK, ClientTypeOK, netVars
<1>3. CASE MsgReceived
  <2>1. PICK m \in replies : replies' = replies \ {m} /\ (UnknownAnswer(m) \/ LateAnswer(m) \/ Answer(m))
    BY <1>3 DEF MsgReceived
  <2>2. m \in Reply
    BY <1>0 DEF NetTypeOK
  <2>3. /\ DOMAIN calls' \subseteq Ids /\ \A id \in DOMAIN calls' : calls'[id] \in Calls
        /\ fut' \in [Calls -> FutState] /\ answeredBy' \in [Calls -> Calls \cup {0}]
    <3>1. CASE UnknownAnswer(m)
      BY <1>0, <3>1 DEF UnknownAnswer, ClientTypeOK
    <3>2. CASE LateAnswer(m)
      BY <1>0, <3>2 DEF LateAnswer, Forget, ClientTypeOK
    <3>3. CASE Answer(m) /\ m.answer = "odd"
      BY <1>0, <3>3 DEF Answer, Forget, ClientTypeOK
    <3>4. CASE Answer(m) /\ m.answer # "odd"
      <4>1. m.answer \in FutState /\ m.call \in Calls
        BY <2>2, <3>4 DEF Reply, Answers, FutState
      <4> QED BY <1>0, <3>4, <4>1 DEF Answer, Forget, ClientTypeOK
    <3> QED BY <2>1, <3>1, <3>2, <3>3, <3>4
  <2> QED BY <1>0, <1>3, <2>1, <2>3 DEF MsgReceived, NetTypeOK, ClientTypeOK
<1>4. CASE Timeout \/ CancelCall
  <2>1. fut' \in [Calls -> FutState]
    BY <1>0, <1>4 DEF Timeout, CancelCall, ClientTypeOK, FutState, Cancelled
  <2> QED BY <1>0, <1>4, <2>1 DEF Timeout, CancelCall, NetTypeOK, ClientTypeOK, netVars
<1>5. CASE Close
  BY <1>0, <1>5 DEF Close, NetTypeOK, ClientTypeOK, netVars
<1>6. CASE ConnectionLost
  <2>1. fut' \in [Calls -> FutState]
    BY <1>0, <1>6 DEF ConnectionLost, CancelCalls, ClientTypeOK, FutState, Cancelled
  <2> QED BY <1>0, <1>6, <2>1 DEF ConnectionLost, NetTypeOK, ClientTypeOK, netVars
<1>7. ASSUME NEW c \in Closers, WaitClosed(c) \/ CancelWaitClosed(c)
      PROVE  NetTypeOK' /\ ClientTypeOK'
  <2>1. closer' \in [Closers -> {"idle", "waiting", "cancelled", "released"}]
    BY <1>0, <1>7 DEF WaitClosed, CancelWaitClosed, ClientTypeOK
  <2>2. doneWaiters' \in Seq(Closers)
    <3>1. doneWaiters \in Seq(Closers)
      BY <1>0 DEF ClientTypeOK
    <3>2. doneWaiters' = Append(doneWaiters, c) \/ UNCHANGED doneWaiters
      BY <1>7 DEF WaitClosed, CancelWaitClosed
    <3> QED BY <3>1, <3>2
  <2>3. UNCHANGED <<made, counter, calls, fut, answeredBy, transport, asserted, requests, replies>>
    BY <1>7 DEF WaitClosed, CancelWaitClosed, netVars
  <2> QED BY <1>0, <2>1, <2>2, <2>3 DEF NetTypeOK, ClientTypeOK
<1> QED BY <1>1, <1>2, <1>3, <1>4, <1>5, <1>6, <1>7 DEF ClientNext

LEMMA TypeStep == ASSUME TypeOK, [Next]_vars PROVE TypeOK'
<1>1. CASE ClientNext /\ UNCHANGED serverVars
  BY <1>1, ClientTypeStep DEF TypeOK, ServerTypeOK, serverVars
<1>2. CASE ServerNext /\ UNCHANGED clientVars
  BY <1>2, ServerTypeStep DEF TypeOK, ClientTypeOK, clientVars
<1>3. CASE (LoseRequest \/ LoseReply) /\ UNCHANGED <<clientVars, serverVars>>
  BY <1>3 DEF LoseRequest, LoseReply, TypeOK, NetTypeOK, ClientTypeOK, ServerTypeOK, clientVars, serverVars
<1>4. CASE UNCHANGED vars
  BY <1>4 DEF vars, TypeOK, NetTypeOK, ClientTypeOK, ServerTypeOK, netVars, clientVars, serverVars
<1> QED BY <1>1, <1>2, <1>3, <1>4 DEF Next

-----------------------------------------------------------------------------
(* Where a call is, and what its id stands for.                            *)

\* Messages that are lost, and futures that are dropped, leave no second trace.
LEMMA FewerTraces ==
  ASSUME OneTrace, requests' \subseteq requests, replies' \subseteq replies,
         \A s \in Servers : running'[s] \subseteq running[s] /\ finished'[s] \subseteq finished[s]
  PROVE  OneTrace'
<1>1. OneOnTheWay'
  BY DEF OneTrace, OneOnTheWay
<1>2. OneInServers'
  BY DEF OneTrace, OneInServers
<1>3. EitherWay'
  BY DEF OneTrace, EitherWay
<1> QED BY <1>1, <1>2, <1>3 DEF OneTrace

LEMMA FewerHeld ==
  ASSUME IdsHeld, UNCHANGED calls, requests' \subseteq requests, replies' \subseteq replies,
         \A s \in Servers : running'[s] \subseteq running[s] /\ finished'[s] \subseteq finished[s]
  PROVE  IdsHeld'
<1>1. /\ \A m \in requests' : Held(m)'
      /\ \A m \in replies' : Held(m)'
      /\ \A s \in Servers : \A m \in running'[s] : Held(m)'
      /\ \A s \in Servers : \A m \in finished'[s] : Held(m)'
  BY HeldSomewhere DEF Held
<1> QED BY <1>1, HeldSomewhereNext

\* A request becomes a coroutine.
LEMMA StartMoves ==
  ASSUME RpcInv, NEW s \in Servers, NEW m \in requests, requests' = requests \ {m},
         Start(s, m), UNCHANGED <<replies, calls>>
  PROVE  IdsHeld' /\ OneTrace'
<1>1. /\ \A t \in Servers : running'[t] = IF t = s THEN running[s] \cup {m} ELSE running[t]
      /\ UNCHANGED finished
  BY DEF Start, RpcInv, TypeOK, ServerTypeOK
<1>2. IdsHeld'
  <2>1. /\ \A q \in requests' : Held(q)'
        /\ \A q \in replies' : Held(q)'
        /\ \A t \in Servers : \A q \in running'[t] : Held(q)'
        /\ \A t \in Servers : \A q \in finished'[t] : Held(q)'
    BY <1>1, HeldSomewhere DEF RpcInv, Held
  <2> QED BY <2>1, HeldSomewhereNext
<1>3. OneOnTheWay'
  BY DEF RpcInv, OneTrace, OneOnTheWay
<1>4. OneInServers'
  BY <1>1 DEF RpcInv, OneTrace, OneInServers, EitherWay
<1>5. EitherWay'
  BY <1>1 DEF RpcInv, OneTrace, OneOnTheWay, EitherWay
<1> QED BY <1>2, <1>3, <1>4, <1>5 DEF OneTrace

\* A request or a coroutine becomes a future that is done.
LEMMA FinishMoves ==
  ASSUME RpcInv, NEW s \in Servers, NEW m, NEW o, Finish(s, m, o), UNCHANGED <<replies, calls>>,
         \/ m \in requests /\ requests' = requests \ {m} /\ UNCHANGED running
         \/ m \in running[s] /\ running' = [running EXCEPT ![s] = @ \ {m}] /\ UNCHANGED requests
  PROVE  IdsHeld' /\ OneTrace'
<1> DEFINE d == [call |-> m.call, id |-> m.id, outcome |-> o]
<1>1. \A t \in Servers : finished'[t] = IF t = s THEN finished[s] \cup {d} ELSE finished[t]
  BY DEF Finish, RpcInv, TypeOK, ServerTypeOK
<1>2. /\ requests' \subseteq requests
      /\ \A t \in Servers : running'[t] \subseteq running[t]
      /\ m \notin requests'
      /\ \A t \in Servers : m \notin running'[t]
  BY DEF RpcInv, TypeOK, ServerTypeOK, OneTrace, OneInServers, EitherWay
<1>3. d.call = m.call /\ d.id = m.id
  OBVIOUS
<1> HIDE DEF d
<1>4. IdsHeld'
  <2>1. Held(m)
    BY HeldSomewhere DEF RpcInv
  <2>2. /\ \A q \in requests' : Held(q)'
        /\ \A q \in replies' : Held(q)'
        /\ \A t \in Servers : \A q \in running'[t] : Held(q)'
        /\ \A t \in Servers : \A q \in finished'[t] : Held(q)'
    BY <1>1, <1>2, <1>3, <2>1, HeldSomewhere DEF RpcInv, Held
  <2> QED BY <2>2, HeldSomewhereNext
<1>5. OneOnTheWay'
  BY <1>2 DEF RpcInv, OneTrace, OneOnTheWay
<1>6. \A t \in Servers : \A q \in finished'[t] : q \in finished[t] \/ q.call = m.call
  BY <1>1, <1>3
<1>7. CASE m \in requests
  <2>1. OneInServers'
    BY <1>1, <1>2, <1>3, <1>7 DEF RpcInv, OneTrace, OneInServers, EitherWay
  <2>2. EitherWay'
    <3>1. \A q \in requests' \cup replies' : q.call # m.call
      BY <1>2, <1>7 DEF RpcInv, OneTrace, OneOnTheWay
    <3> QED BY <1>2, <1>6, <3>1 DEF RpcInv, OneTrace, EitherWay
  <2> QED BY <1>4, <1>5, <2>1, <2>2 DEF OneTrace
<1>8. CASE m \in running[s]
  <2>1. OneInServers'
    BY <1>1, <1>2, <1>3, <1>8 DEF RpcInv, OneTrace, OneInServers
  <2>2. EitherWay'
    <3>1. \A q \in requests' \cup replies' : q.call # m.call
      BY <1>2, <1>8 DEF RpcInv, OneTrace, EitherWay
    <3> QED BY <1>2, <1>6, <3>1 DEF RpcInv, OneTrace, EitherWay
  <2> QED BY <1>4, <1>5, <2>1, <2>2 DEF OneTrace
<1> QED BY <1>7, <1>8

\* A future that is done becomes a reply.
LEMMA ReplyMoves ==
  ASSUME RpcInv, NEW s \in Servers, NEW d \in finished[s], NEW a,
         finished' = [finished EXCEPT ![s] = @ \ {d}],
         replies' = replies \cup {[call |-> d.call, id |-> d.id, answer |-> a]},
         UNCHANGED <<requests, running, calls>>
  PROVE  IdsHeld' /\ OneTrace'
<1> DEFINE r == [call |-> d.call, id |-> d.id, answer |-> a]
<1>1. \A t \in Servers : finished'[t] = IF t = s THEN finished[s] \ {d} ELSE finished[t]
  BY DEF RpcInv, TypeOK, ServerTypeOK
<1>2. \A t \in Servers : \A q \in finished'[t] : q \in finished[t] /\ q.call # d.call
  BY <1>1 DEF RpcInv, OneTrace, OneInServers
<1>3. r.call = d.call /\ r.id = d.id /\ replies' = replies \cup {r}
  OBVIOUS
<1> HIDE DEF r
<1>4. IdsHeld'
  <2>1. Held(d)
    BY HeldSomewhere DEF RpcInv
  <2>2. /\ \A q \in requests' : Held(q)'
        /\ \A q \in replies' : Held(q)'
        /\ \A t \in Servers : \A q \in running'[t] : Held(q)'
        /\ \A t \in Servers : \A q \in finished'[t] : Held(q)'
    BY <1>2, <1>3, <2>1, HeldSomewhere DEF RpcInv, Held
  <2> QED BY <2>2, HeldSomewhereNext
<1>5. OneOnTheWay'
  BY <1>3 DEF RpcInv, OneTrace, OneOnTheWay, EitherWay
<1>6. OneInServers'
  BY <1>2 DEF RpcInv, OneTrace, OneInServers
<1>7. EitherWay'
  <2>1. \A t \in Servers : \A q \in running[t] : q.call # d.call
    BY DEF RpcInv, OneTrace, OneInServers
  <2> QED BY <1>2, <1>3, <2>1 DEF RpcInv, OneTrace, EitherWay
<1> QED BY <1>4, <1>5, <1>6, <1>7 DEF OneTrace

\* The coroutines of a server are cancelled, all at once.
LEMMA CancelMoves ==
  ASSUME RpcInv, NEW s \in Servers, s \notin abandoned, ServerLost(s), UNCHANGED calls
  PROVE  IdsHeld' /\ OneTrace'
<1> DEFINE Gone(m) == [call |-> m.call, id |-> m.id, outcome |-> "cancelled"]
<1>1. /\ running' = [running EXCEPT ![s] = {}]
      /\ finished' = [finished EXCEPT ![s] = @ \cup {Gone(m) : m \in running[s]}]
      /\ UNCHANGED <<requests, replies>>
  BY DEF ServerLost, netVars
<1>0. \A m : Gone(m).call = m.call /\ Gone(m).id = m.id
  OBVIOUS
<1> HIDE DEF Gone
<1>2. running \in [Servers -> SUBSET Request] /\ finished \in [Servers -> SUBSET Done]
  BY DEF RpcInv, TypeOK, ServerTypeOK
<1>3. \A t \in Servers : running'[t] = IF t = s THEN {} ELSE running[t]
  BY <1>1, <1>2
<1>4. \A t \in Servers : finished'[t] =
        IF t = s THEN finished[s] \cup {Gone(m) : m \in running[s]} ELSE finished[t]
  BY <1>1, <1>2
<1>5. ASSUME NEW t \in Servers, NEW q \in finished'[t], q \notin finished[t]
      PROVE  t = s /\ \E m \in running[s] : q = Gone(m)
  <2>1. t = s /\ q \in {Gone(m) : m \in running[s]}
    BY <1>4, <1>5
  <2> QED BY <2>1
<1>6. ASSUME NEW t \in Servers, NEW q \in finished'[t], q \notin finished[t]
      PROVE  t = s /\ \E m \in running[s] : q.call = m.call /\ q.id = m.id
  BY <1>0, <1>5, <1>6
<1>7. IdsHeld'
  <2>1. /\ \A q \in requests' : Held(q)'
        /\ \A q \in replies' : Held(q)'
        /\ \A t \in Servers : \A q \in running'[t] : Held(q)'
    BY <1>1, <1>3, HeldSomewhere DEF RpcInv, Held
  <2>2. \A t \in Servers : \A q \in finished'[t] : Held(q)'
    BY <1>6, HeldSomewhere DEF RpcInv, Held
  <2> QED BY <2>1, <2>2, HeldSomewhereNext
<1>8. OneOnTheWay'
  BY <1>1 DEF RpcInv, OneTrace, OneOnTheWay
<1>9. OneInServers'
  <2>1. \A t, u \in Servers : \A p \in running'[t], q \in running'[u] :
          p.call = q.call => t = u /\ p = q
    BY <1>3 DEF RpcInv, OneTrace, OneInServers
  <2>2. \A t, u \in Servers : \A p \in running'[t], q \in finished'[u] : p.call # q.call
    BY <1>3, <1>6 DEF RpcInv, OneTrace, OneInServers
  <2>3. ASSUME NEW t \in Servers, NEW u \in Servers, NEW p \in finished'[t], NEW q \in finished'[u],
               p.call = q.call
        PROVE  t = u /\ p = q
    <3>1. CASE p \in finished[t] /\ q \in finished[u]
      BY <2>3, <3>1 DEF RpcInv, OneTrace, OneInServers
    <3>2. CASE p \in finished[t] /\ q \notin finished[u]
      BY <1>6, <2>3, <3>2 DEF RpcInv, OneTrace, OneInServers
    <3>3. CASE p \notin finished[t] /\ q \in finished[u]
      BY <1>6, <2>3, <3>3 DEF RpcInv, OneTrace, OneInServers
    <3>4. CASE p \notin finished[t] /\ q \notin finished[u]
      <4>1. t = s /\ u = s
        BY <1>5, <3>4
      <4>2. PICK m \in running[s] : p = Gone(m)
        BY <1>5, <3>4
      <4>3. PICK n \in running[s] : q = Gone(n)
        BY <1>5, <3>4
      <4>4. m = n
        BY <1>0, <2>3, <4>2, <4>3 DEF RpcInv, OneTrace, OneInServers
      <4> QED BY <4>1, <4>2, <4>3, <4>4
    <3> QED BY <3>1, <3>2, <3>3, <3>4
  <2> QED BY <2>1, <2>2, <2>3 DEF OneInServers
<1>10. EitherWay'
  BY <1>1, <1>3, <1>6 DEF RpcInv, OneTrace, EitherWay
<1> QED BY <1>7, <1>8, <1>9, <1>10 DEF OneTrace

LEMMA ServerTraces == ASSUME RpcInv, ServerNext, UNCHANGED clientVars PROVE IdsHeld' /\ OneTrace'
<1> SUFFICES ASSUME NEW s \in Servers,
                    \/ ServeRequest(s) \/ EndCoroutine(s) \/ CallResult(s)
                    \/ ServerClose(s) \/ ServerLost(s) \/ AbandonServer(s)
             PROVE  IdsHeld' /\ OneTrace'
  BY DEF ServerNext
<1>0. /\ RpcInv /\ IdsHeld /\ OneTrace /\ UNCHANGED calls
      /\ running \in [Servers -> SUBSET Request] /\ finished \in [Servers -> SUBSET Done]
  BY DEF RpcInv, TypeOK, ServerTypeOK, clientVars
<1>1. CASE ServeRequest(s)
  <2>1. PICK m \in requests : /\ requests' = requests \ {m}
                              /\ Refuse(s, m) \/ Start(s, m) \/ CallPlain(s, m)
    BY <1>1 DEF ServeRequest
  <2>2. requests' = requests \ {m} /\ UNCHANGED <<replies, calls>>
    BY <1>0, <1>1, <2>1 DEF ServeRequest
  <2>3. CASE Start(s, m)
    BY <1>0, <2>2, <2>3, StartMoves
  <2>4. CASE UNCHANGED <<running, finished>>
    <3>1. /\ requests' \subseteq requests /\ replies' \subseteq replies /\ UNCHANGED calls
          /\ \A t \in Servers : running'[t] \subseteq running[t] /\ finished'[t] \subseteq finished[t]
      BY <2>2, <2>4
    <3> QED BY <1>0, <3>1, FewerTraces, FewerHeld
  <2>5. ASSUME NEW o, Finish(s, m, o), UNCHANGED running PROVE IdsHeld' /\ OneTrace'
    BY <1>0, <2>2, <2>5, FinishMoves
  <2> QED BY <2>1, <2>3, <2>4, <2>5 DEF Refuse, CallPlain
<1>2. CASE EndCoroutine(s)
  <2>1. PICK m \in running[s], o \in Outcomes :
          running' = [running EXCEPT ![s] = @ \ {m}] /\ Finish(s, m, o)
    BY <1>2 DEF EndCoroutine
  <2> QED BY <1>0, <1>2, <2>1, FinishMoves DEF EndCoroutine, netVars
<1>3. CASE CallResult(s)
  <2>1. PICK d \in finished[s] :
          /\ finished' = [finished EXCEPT ![s] = @ \ {d}]
          /\ \/ replies' = replies \cup {[call |-> d.call, id |-> d.id, answer |-> d.outcome]}
             \/ UNCHANGED replies
    BY <1>3 DEF CallResult
  <2>2. UNCHANGED <<requests, running>>
    BY <1>3 DEF CallResult
  <2>3. CASE UNCHANGED replies
    BY <1>0, <2>1, <2>2, <2>3, FewerTraces, FewerHeld
  <2>4. CASE replies' = replies \cup {[call |-> d.call, id |-> d.id, answer |-> d.outcome]}
    BY <1>0, <2>1, <2>2, <2>4, ReplyMoves
  <2> QED BY <2>1, <2>3, <2>4
<1>4. CASE ServerLost(s) /\ s \notin abandoned
  BY <1>0, <1>4, CancelMoves
<1>5. CASE ServerLost(s) /\ s \in abandoned
  BY <1>0, <1>5, FewerTraces, FewerHeld DEF ServerLost, netVars
<1>6. CASE ServerClose(s) \/ AbandonServer(s)
  BY <1>0, <1>6, FewerTraces, FewerHeld DEF ServerClose, AbandonServer, netVars
<1> QED BY <1>1, <1>2, <1>3, <1>4, <1>5, <1>6

-----------------------------------------------------------------------------
(* The client.                                                             *)

\* What is under way was called before, and is not the next call.
LEMMA TracesMade ==
  ASSUME RpcInv
  PROVE  /\ \A m \in requests : m.call <= made
         /\ \A m \in replies : m.call <= made
         /\ \A s \in Servers : \A m \in running[s] : m.call <= made
         /\ \A s \in Servers : \A m \in finished[s] : m.call <= made
BY HeldSomewhere DEF RpcInv, Held, IdsInUse

\* The part of the invariant that is about the client.
ClientPart == IdsHeld /\ IdsInUse /\ OneTrace /\ AnswersMatch

\* A new call has a new id, and no trace but its request.
LEMMA CallStep == ASSUME RpcInv, Call, UNCHANGED serverVars PROVE ClientPart'
<1> DEFINE r == [call |-> made', id |-> NewId]
<1>0. /\ made \in Nat /\ made' = made + 1 /\ made' \in Calls
      /\ fut \in [Calls -> FutState] /\ fut' = [fut EXCEPT ![made'] = "pending"]
      /\ \A id \in DOMAIN calls : calls[id] \in Calls
      /\ UNCHANGED <<replies, running, finished, answeredBy>>
  BY NetworkAssumption DEF RpcInv, TypeOK, ClientTypeOK, Call, Calls, serverVars
<1>1. /\ NewId \notin DOMAIN calls
      /\ DOMAIN calls' = DOMAIN calls \cup {NewId}
      /\ calls'[NewId] = made'
      /\ \A id \in DOMAIN calls : id # NewId /\ calls'[id] = calls[id]
  BY DEF Call
<1>2. requests' \subseteq requests \cup {r}
  BY DEF Call
<1>3. r.call = made' /\ r.id = NewId
  OBVIOUS
<1> HIDE DEF r
<1>4. /\ \A m \in requests : m.call # made'
      /\ \A m \in replies : m.call # made'
      /\ \A s \in Servers : \A m \in running[s] : m.call # made'
      /\ \A s \in Servers : \A m \in finished[s] : m.call # made'
  <2>1. \A n : n <= made => n # made'
    BY <1>0
  <2> QED BY <2>1, TracesMade
<1>5. IdsHeld'
  <2>1. \A m : Held(m) => Held(m)'
    BY <1>1 DEF Held
  <2>2. r.id \in DOMAIN calls' /\ calls'[r.id] = r.call
    BY <1>1, <1>3
  <2>3. \A m \in requests' : Held(m)'
    BY <1>2, <2>1, <2>2, HeldSomewhere DEF RpcInv, Held
  <2> QED BY <1>0, <2>1, <2>3, HeldSomewhere, HeldSomewhereNext DEF RpcInv
<1>6. IdsInUse'
  <2>1. \A id \in DOMAIN calls : calls[id] # made' /\ calls[id] <= made
    BY <1>0 DEF RpcInv, IdsInUse
  <2>2. ASSUME NEW id \in DOMAIN calls'
        PROVE  calls'[id] <= made' /\ fut'[calls'[id]] \in {"pending"} \cup Cancelled
    <3>1. CASE id = NewId
      BY <1>0, <1>1, <3>1
    <3>2. CASE id \in DOMAIN calls
      <4>1. calls'[id] = calls[id] /\ calls[id] \in Calls /\ calls[id] # made'
        BY <1>0, <1>1, <2>1, <3>2
      <4>2. fut'[calls[id]] = fut[calls[id]]
        BY <1>0, <4>1
      <4>3. calls[id] <= made'
        BY <1>0, <2>1, <3>2, <4>1 DEF Calls
      <4> QED BY <3>2, <4>1, <4>2, <4>3 DEF RpcInv, IdsInUse
    <3> QED BY <1>1, <3>1, <3>2
  <2>3. \A i, j \in DOMAIN calls' : calls'[i] = calls'[j] => i = j
    BY <1>1, <2>1 DEF RpcInv, IdsInUse
  <2>4. ASSUME NEW n \in Calls, n > made' PROVE fut'[n] = "none"
    BY <1>0, <2>4 DEF RpcInv, IdsInUse, Calls
  <2> QED BY <2>2, <2>3, <2>4 DEF IdsInUse
<1>7. OneTrace'
  <2>1. OneOnTheWay'
    BY <1>0, <1>2, <1>3, <1>4 DEF RpcInv, OneTrace, OneOnTheWay
  <2>2. OneInServers'
    BY <1>0 DEF RpcInv, OneTrace, OneInServers
  <2>3. EitherWay'
    BY <1>0, <1>2, <1>3, <1>4 DEF RpcInv, OneTrace, EitherWay
  <2> QED BY <2>1, <2>2, <2>3 DEF OneTrace
<1>8. AnswersMatch'
  BY <1>0 DEF RpcInv, AnswersMatch
<1> QED BY <1>5, <1>6, <1>7, <1>8 DEF ClientPart

\* An answer is to the call its id stands for, and takes the id out of use with
\* its last trace.
LEMMA AnswerStep == ASSUME RpcInv, MsgReceived, UNCHANGED serverVars PROVE ClientPart'
<1>1. PICK m \in replies : replies' = replies \ {m} /\ (UnknownAnswer(m) \/ LateAnswer(m) \/ Answer(m))
  BY DEF MsgReceived
<1>2. /\ m.id \in DOMAIN calls /\ calls[m.id] = m.call /\ m.call \in Calls
      /\ fut \in [Calls -> FutState] /\ answeredBy \in [Calls -> Calls \cup {0}]
      /\ UNCHANGED <<made, requests, running, finished>>
  BY HeldSomewhere DEF RpcInv, Held, TypeOK, NetTypeOK, ClientTypeOK, Reply, MsgReceived, serverVars
<1>3. /\ DOMAIN calls' = DOMAIN calls \ {m.id}
      /\ \A id \in DOMAIN calls' : calls'[id] = calls[id]
  BY <1>1, <1>2 DEF UnknownAnswer, LateAnswer, Answer, Forget
<1>4. /\ fut' \in [Calls -> FutState \cup Answers]
      /\ \A n \in Calls : n # m.call => fut'[n] = fut[n] /\ answeredBy'[n] = answeredBy[n]
      /\ \/ UNCHANGED <<fut, answeredBy>>
         \/ answeredBy'[m.call] = m.call
  <2>1. CASE LateAnswer(m)
    BY <1>2, <2>1 DEF LateAnswer
  <2>2. CASE Answer(m)
    <3>1. CASE m.answer = "odd"
      BY <1>2, <2>2, <3>1 DEF Answer
    <3>2. CASE m.answer # "odd"
      <4>1. /\ fut' = [fut EXCEPT ![m.call] = m.answer]
            /\ answeredBy' = [answeredBy EXCEPT ![m.call] = m.call]
        BY <1>2, <2>2, <3>2 DEF Answer
      <4>2. m.answer \in Answers
        BY DEF RpcInv, TypeOK, NetTypeOK, Reply
      <4> QED BY <1>2, <4>1, <4>2
    <3> QED BY <3>1, <3>2
  <2> QED BY <1>1, <1>2, <2>1, <2>2 DEF UnknownAnswer
<1>5. IdsHeld'
  <2>1. \A q : Held(q) /\ q.call # m.call => Held(q)'
    BY <1>2, <1>3 DEF Held
  <2>2. /\ \A q \in requests : q.call # m.call
        /\ \A q \in replies' : q.call # m.call
        /\ \A s \in Servers : \A q \in running[s] : q.call # m.call
        /\ \A s \in Servers : \A q \in finished[s] : q.call # m.call
    BY <1>1 DEF RpcInv, OneTrace, OneOnTheWay, EitherWay
  <2> QED BY <1>1, <1>2, <2>1, <2>2, HeldSomewhere, HeldSomewhereNext DEF RpcInv
<1>6. IdsInUse'
  <2>1. \A id \in DOMAIN calls' : id \in DOMAIN calls /\ calls'[id] = calls[id] /\ calls[id] # m.call
    BY <1>2, <1>3 DEF RpcInv, IdsInUse
  <2>2. \A id \in DOMAIN calls : calls[id] \in Calls
    BY DEF RpcInv, TypeOK, ClientTypeOK
  <2>3. \A id \in DOMAIN calls' : fut'[calls'[id]] = fut[calls[id]]
    BY <1>4, <2>1, <2>2
  <2>4. \A n \in Calls : n > made' => n # m.call
    <3>1. m.call <= made /\ made \in Nat
      BY TracesMade DEF RpcInv, TypeOK, ClientTypeOK
    <3> QED BY <1>2, <3>1 DEF Calls
  <2> QED BY <1>2, <1>4, <2>1, <2>3, <2>4 DEF RpcInv, IdsInUse
<1>7. OneTrace'
  <2>1. /\ requests' \subseteq requests /\ replies' \subseteq replies
        /\ \A s \in Servers : running'[s] \subseteq running[s] /\ finished'[s] \subseteq finished[s]
    BY <1>1, <1>2
  <2> QED BY <2>1, FewerTraces DEF RpcInv
<1>8. AnswersMatch'
  BY <1>2, <1>4 DEF RpcInv, AnswersMatch
<1> QED BY <1>5, <1>6, <1>7, <1>8 DEF ClientPart

\* What completes futures by giving the call up.
OnlyGivesUp ==
  \A n \in Calls : fut'[n] = fut[n] \/ (fut[n] = "pending" /\ fut'[n] \in Cancelled)

\* What gives calls up, or none, touches neither ids nor answers.
LEMMA GivingUp ==
  ASSUME RpcInv, UNCHANGED <<made, calls, answeredBy>>, UNCHANGED netVars, UNCHANGED serverVars,
         OnlyGivesUp
  PROVE  ClientPart'
<1>0. /\ UNCHANGED <<made, calls, answeredBy, requests, replies, running, finished>>
      /\ \A id \in DOMAIN calls : calls[id] \in Calls
      /\ IdsHeld /\ OneTrace /\ IdsInUse /\ AnswersMatch
  BY DEF netVars, serverVars, RpcInv, TypeOK, ClientTypeOK
<1>1. IdsHeld' /\ OneTrace'
  BY <1>0, FewerTraces, FewerHeld
<1>2. IdsInUse'
  BY <1>0 DEF IdsInUse, OnlyGivesUp
<1>3. AnswersMatch'
  BY <1>0 DEF AnswersMatch, OnlyGivesUp, Cancelled
<1> QED BY <1>1, <1>2, <1>3 DEF ClientPart

LEMMA ClientStep == ASSUME RpcInv, ClientNext, UNCHANGED serverVars PROVE ClientPart'
<1>0. fut \in [Calls -> FutState]
  BY DEF RpcInv, TypeOK, ClientTypeOK
<1>1. CASE Call \/ MsgReceived
  BY <1>1, CallStep, AnswerStep
<1>2. CASE Timeout \/ CancelCall
  <2>1. PICK n \in Calls, c \in Cancelled : fut[n] = "pending" /\ fut' = [fut EXCEPT ![n] = c]
    BY <1>2 DEF Timeout, CancelCall, Cancelled
  <2>2. OnlyGivesUp
    BY <1>0, <2>1 DEF OnlyGivesUp
  <2>3. UNCHANGED <<made, calls, answeredBy>> /\ UNCHANGED netVars
    BY <1>2 DEF Timeout, CancelCall
  <2> QED BY <2>2, <2>3, GivingUp
<1>3. CASE ConnectionLost
  <2>1. OnlyGivesUp
    <3>1. CASE UNCHANGED fut
      BY <3>1 DEF OnlyGivesUp
    <3>2. CASE CancelCalls
      BY <3>2 DEF CancelCalls, OnlyGivesUp, Cancelled
    <3> QED BY <1>3, <3>1, <3>2 DEF ConnectionLost
  <2>2. UNCHANGED <<made, calls, answeredBy>> /\ UNCHANGED netVars
    BY <1>3 DEF ConnectionLost
  <2> QED BY <2>1, <2>2, GivingUp
<1>4. CASE CallAsserts \/ Close \/ \E c \in Closers : WaitClosed(c) \/ CancelWaitClosed(c)
  <2>1. UNCHANGED <<made, calls, answeredBy>> /\ UNCHANGED netVars /\ UNCHANGED fut
    BY <1>4 DEF CallAsserts, Close, WaitClosed, CancelWaitClosed
  <2>2. OnlyGivesUp
    BY <2>1 DEF OnlyGivesUp
  <2> QED BY <2>1, <2>2, GivingUp
<1> QED BY <1>1, <1>2, <1>3, <1>4 DEF ClientNext

LEMMA InvStep == ASSUME RpcInv, [Next]_vars PROVE RpcInv'
<1>1. TypeOK'
  BY TypeStep DEF RpcInv
<1>2. CASE ClientNext /\ UNCHANGED serverVars
  BY <1>1, <1>2, ClientStep DEF RpcInv, ClientPart
<1>3. CASE ServerNext /\ UNCHANGED clientVars
  <2>1. IdsHeld' /\ OneTrace'
    BY <1>3, ServerTraces
  <2> QED BY <1>1, <1>3, <2>1 DEF RpcInv, IdsInUse, AnswersMatch, clientVars
<1>4. CASE (LoseRequest \/ LoseReply) /\ UNCHANGED <<clientVars, serverVars>>
  <2>1. /\ requests' \subseteq requests /\ replies' \subseteq replies
        /\ UNCHANGED <<running, finished, calls, made, fut, answeredBy>>
    BY <1>4 DEF LoseRequest, LoseReply, clientVars, serverVars
  <2>2. IdsHeld' /\ OneTrace'
    BY <2>1, FewerTraces, FewerHeld DEF RpcInv
  <2> QED BY <1>1, <2>1, <2>2 DEF RpcInv, IdsInUse, AnswersMatch
<1>5. CASE UNCHANGED vars
  <2>1. UNCHANGED <<made, calls, answeredBy>> /\ UNCHANGED netVars /\ UNCHANGED serverVars
    BY <1>5 DEF vars, clientVars
  <2>2. OnlyGivesUp
    BY <1>5 DEF vars, clientVars, OnlyGivesUp
  <2> QED BY <1>1, <2>1, <2>2, GivingUp DEF RpcInv, ClientPart
<1> QED BY <1>2, <1>3, <1>4, <1>5 DEF Next

LEMMA InvInit == Init => RpcInv
<1> SUFFICES ASSUME Init PROVE RpcInv
  OBVIOUS
<1>1. TypeOK
  <2>1. NetTypeOK /\ ServerTypeOK
    BY DEF Init, NetInit, ServerInit, NetTypeOK, ServerTypeOK
  <2>2. /\ made \in 0..MaxCalls /\ counter \in Ids
        /\ doneWaiters \in Seq(Closers)
    BY NetworkAssumption DEF Init, ClientInit, Ids
  <2>3. /\ DOMAIN calls = {}
        /\ fut \in [Calls -> FutState] /\ answeredBy \in [Calls -> Calls \cup {0}]
    BY DEF Init, ClientInit, FutState
  <2>4. ClientTypeOK
    BY <2>2, <2>3 DEF Init, ClientInit, ClientTypeOK
  <2> QED BY <2>1, <2>4 DEF TypeOK
<1>2. IdsHeld /\ OneTrace
  BY DEF Init, NetInit, ServerInit, IdsHeld, OneTrace, OneOnTheWay, OneInServers, EitherWay
<1>3. IdsInUse /\ AnswersMatch
  BY DEF Init, ClientInit, IdsInUse, AnswersMatch
<1> QED BY <1>1, <1>2, <1>3 DEF RpcInv

LEMMA InvAlways == Spec => []RpcInv
<1> QED BY InvInit, InvStep, PTL DEF Spec

-----------------------------------------------------------------------------
(* Invariants.                                                             *)

\* The books of both sides: an id of 32 bits stands for one call, from its request
\* until its answer was taken off the wire, however often the ids come round.
THEOREM RpcBooksHold == Spec => []Books
<1>1. RpcInv => Books
  BY DEF RpcInv, Books
<1> QED BY <1>1, InvAlways, PTL

\* A call gets its own answer, whatever was given up, lost or late.
THEOREM AnswersMatchHolds == Spec => []AnswersMatch
<1>1. RpcInv => AnswersMatch
  BY DEF RpcInv
<1> QED BY <1>1, InvAlways, PTL

\* A request is served once and answered at most once, by one server.
THEOREM AtMostOnceHolds == Spec => []AtMostOnce
<1>1. RpcInv => AtMostOnce
  BY TraceImpliesOnce DEF RpcInv
<1> QED BY <1>1, InvAlways, PTL

\* What a call came to is final: no late answer, timeout or end of the connection
\* changes it.
THEOREM OutcomeFinalHolds == Spec => OutcomeFinal
<1>1. RpcInv /\ [Next]_vars
        => [\A n \in Calls : fut[n] \notin {"none", "pending"} => fut'[n] = fut[n]]_clientVars
  <2> SUFFICES ASSUME RpcInv, [Next]_vars, NEW n \in Calls, fut[n] \notin {"none", "pending"}
               PROVE  fut'[n] = fut[n]
    OBVIOUS
  <2>1. fut \in [Calls -> FutState]
    BY DEF RpcInv, TypeOK, ClientTypeOK
  <2>2. CASE UNCHANGED clientVars
    BY <2>2 DEF clientVars
  <2>3. CASE Call
    <3>1. made' \in Calls /\ made' > made /\ fut' = [fut EXCEPT ![made'] = "pending"]
      BY <2>3, NetworkAssumption DEF Call, RpcInv, TypeOK, ClientTypeOK, Calls
    <3>2. fut[made'] = "none"
      BY <3>1 DEF RpcInv, IdsInUse
    <3> QED BY <2>1, <3>1, <3>2
  <2>4. CASE MsgReceived
    <3>1. PICK m \in replies : UnknownAnswer(m) \/ LateAnswer(m) \/ Answer(m)
      BY <2>4 DEF MsgReceived
    <3>2. CASE Answer(m)
      <4>1. fut[calls[m.id]] = "pending"
        BY <3>2 DEF Answer, RpcInv, IdsInUse
      <4> QED BY <2>1, <3>2, <4>1 DEF Answer
    <3> QED BY <3>1, <3>2 DEF UnknownAnswer, LateAnswer
  <2>5. CASE Timeout \/ CancelCall \/ ConnectionLost
    BY <2>1, <2>5 DEF Timeout, CancelCall, ConnectionLost, CancelCalls
  <2>6. CASE CallAsserts \/ Close \/ \E c \in Closers : WaitClosed(c) \/ CancelWaitClosed(c)
    BY <2>6 DEF CallAsserts, Close, WaitClosed, CancelWaitClosed
  <2>7. CASE ClientNext
    BY <2>3, <2>4, <2>5, <2>6, <2>7 DEF ClientNext
  <2> QED BY <2>2, <2>7 DEF Next, vars
<1> QED BY <1>1, InvAlways, PTL DEF Spec, OutcomeFinal

-----------------------------------------------------------------------------
(* The contract of a remote call: the ids refine to nothing.               *)

Given1(n, a) == [call |-> n, answer |-> a]

LEMMA GivenPairs == \A n, a, k, b : Given1(n, a) = Given1(k, b) <=> n = k /\ a = b
BY DEF Given1

\* The answers that were given, place by place.
LEMMA GivenSomewhere ==
  \A x : x \in Given <=>
    \/ \E m \in replies : x = Given1(m.call, m.answer)
    \/ \E s \in Servers : \E d \in finished[s] :
         d.outcome \in Answers /\ x = Given1(d.call, d.outcome)
BY DEF Given, Given1

LEMMA GivenSomewhereNext ==
  \A x : x \in Given' <=>
    \/ \E m \in replies' : x = Given1(m.call, m.answer)
    \/ \E s \in Servers : \E d \in finished'[s] :
         d.outcome \in Answers /\ x = Given1(d.call, d.outcome)
BY DEF Given, Given1

LEMMA HandledSomewhere ==
  /\ \A n : n \in Handled <=> \E s \in Servers : \E m \in running[s] : n = m.call
  /\ \A n : n \in Handled' <=> \E s \in Servers : \E m \in running'[s] : n = m.call
BY DEF Handled

\* A request that is gone, gone with the only trace of its call: nothing but this
\* is asked any less.
LEMMA AskedWithout ==
  ASSUME RpcInv, NEW m \in requests, requests' = requests \ {m}
  PROVE  m.call \in Calls /\ m.call \in Asked /\ Asked' = Asked \ {m.call}
<1>1. \A p \in requests : p # m => p.call # m.call
  BY DEF RpcInv, OneTrace, OneOnTheWay
<1>2. m.call \in Calls
  BY DEF RpcInv, TypeOK, NetTypeOK, Request
<1> QED BY <1>1, <1>2 DEF Asked

LEMMA HandledWithout ==
  ASSUME RpcInv, NEW s \in Servers, NEW m \in running[s],
         running' = [running EXCEPT ![s] = @ \ {m}]
  PROVE  m.call \in Calls /\ m.call \in Handled /\ Handled' = Handled \ {m.call}
<1>1. \A t \in Servers : running'[t] = IF t = s THEN running[s] \ {m} ELSE running[t]
  BY DEF RpcInv, TypeOK, ServerTypeOK
<1>2. \A t \in Servers : \A p \in running[t] : p.call = m.call => t = s /\ p = m
  BY DEF RpcInv, OneTrace, OneInServers
<1>3. m.call \in Calls
  BY DEF RpcInv, TypeOK, ServerTypeOK, Request
<1>4. m.call \in Handled
  BY HandledSomewhere
<1>5. ASSUME NEW n PROVE n \in Handled' <=> n \in Handled /\ n # m.call
  <2>1. n \in Handled' => n \in Handled /\ n # m.call
    BY <1>1, <1>2, HandledSomewhere
  <2>2. n \in Handled /\ n # m.call => n \in Handled'
    BY <1>1, HandledSomewhere
  <2> QED BY <2>1, <2>2
<1> QED BY <1>3, <1>4, <1>5

\* A reply that is gone, gone with the only answer to its call.
LEMMA GivenWithoutReply ==
  ASSUME RpcInv, NEW m \in replies, replies' = replies \ {m}, UNCHANGED finished
  PROVE  /\ Given1(m.call, m.answer) \in Given
         /\ Given' = Given \ {Given1(m.call, m.answer)}
<1>1. /\ \A p \in replies : p # m => p.call # m.call
      /\ \A s \in Servers : \A d \in finished[s] : d.call # m.call
  BY DEF RpcInv, OneTrace, OneOnTheWay, EitherWay
<1>2. Given1(m.call, m.answer) \in Given
  BY GivenSomewhere
<1>3. ASSUME NEW x PROVE x \in Given' <=> x \in Given /\ x # Given1(m.call, m.answer)
  <2>1. x \in Given' => x \in Given /\ x # Given1(m.call, m.answer)
    BY <1>1, GivenSomewhere, GivenSomewhereNext, GivenPairs
  <2>2. x \in Given /\ x # Given1(m.call, m.answer) => x \in Given'
    BY GivenSomewhere, GivenSomewhereNext
  <2> QED BY <2>1, <2>2
<1> QED BY <1>2, <1>3

\* A future that is done adds the answer it has, if it is one.
LEMMA GivenByFinish ==
  ASSUME RpcInv, NEW s \in Servers, NEW m, NEW o, Finish(s, m, o), UNCHANGED replies
  PROVE  Given' = IF o \in Answers THEN Given \cup {Given1(m.call, o)} ELSE Given
<1> DEFINE d == [call |-> m.call, id |-> m.id, outcome |-> o]
<1>1. \A t \in Servers : finished'[t] = IF t = s THEN finished[s] \cup {d} ELSE finished[t]
  BY DEF Finish, RpcInv, TypeOK, ServerTypeOK
<1>2. d.call = m.call /\ d.outcome = o
  OBVIOUS
<1> HIDE DEF d
<1>3. ASSUME NEW x
      PROVE  x \in Given' <=> x \in Given \/ (o \in Answers /\ x = Given1(m.call, o))
  <2>1. x \in Given' => x \in Given \/ (o \in Answers /\ x = Given1(m.call, o))
    BY <1>1, <1>2, GivenSomewhere, GivenSomewhereNext
  <2>2. x \in Given => x \in Given'
    BY <1>1, GivenSomewhere, GivenSomewhereNext
  <2>3. o \in Answers /\ x = Given1(m.call, o) => x \in Given'
    BY <1>1, <1>2, GivenSomewhereNext
  <2> QED BY <2>1, <2>2, <2>3
<1> QED BY <1>3

\* Its callback takes it off again, or makes a reply of it that says the same.
LEMMA GivenByResult ==
  ASSUME RpcInv, NEW s \in Servers, NEW d \in finished[s],
         finished' = [finished EXCEPT ![s] = @ \ {d}]
  PROVE  /\ UNCHANGED replies /\ d.outcome \notin Answers => Given' = Given
         /\ UNCHANGED replies /\ d.outcome \in Answers =>
              /\ Given1(d.call, d.outcome) \in Given
              /\ Given' = Given \ {Given1(d.call, d.outcome)}
         /\ d.outcome \in Answers
            /\ replies' = replies \cup {[call |-> d.call, id |-> d.id, answer |-> d.outcome]}
              => Given' = Given
<1>1. \A t \in Servers : finished'[t] = IF t = s THEN finished[s] \ {d} ELSE finished[t]
  BY DEF RpcInv, TypeOK, ServerTypeOK
<1>2. /\ \A t \in Servers : \A p \in finished[t] : p.call = d.call => t = s /\ p = d
      /\ \A p \in replies : p.call # d.call
  BY DEF RpcInv, OneTrace, OneInServers, EitherWay
<1>3. ASSUME UNCHANGED replies, d.outcome \notin Answers PROVE Given' = Given
  <2>1. ASSUME NEW x PROVE x \in Given' <=> x \in Given
    <3>1. x \in Given' => x \in Given
      BY <1>1, <1>3, GivenSomewhere, GivenSomewhereNext
    <3>2. x \in Given => x \in Given'
      BY <1>1, <1>3, GivenSomewhere, GivenSomewhereNext
    <3> QED BY <3>1, <3>2
  <2> QED BY <2>1
<1>4. ASSUME UNCHANGED replies, d.outcome \in Answers
      PROVE  /\ Given1(d.call, d.outcome) \in Given
             /\ Given' = Given \ {Given1(d.call, d.outcome)}
  <2>1. Given1(d.call, d.outcome) \in Given
    BY <1>4, GivenSomewhere
  <2>2. ASSUME NEW x PROVE x \in Given' <=> x \in Given /\ x # Given1(d.call, d.outcome)
    <3>1. x \in Given' => x \in Given
      BY <1>1, <1>4, GivenSomewhere, GivenSomewhereNext
    <3>2. x \in Given' => x # Given1(d.call, d.outcome)
      BY <1>1, <1>2, <1>4, GivenSomewhereNext, GivenPairs
    <3>3. x \in Given /\ x # Given1(d.call, d.outcome) => x \in Given'
      BY <1>1, <1>4, GivenSomewhere, GivenSomewhereNext
    <3> QED BY <3>1, <3>2, <3>3
  <2> QED BY <2>1, <2>2
<1> DEFINE r == [call |-> d.call, id |-> d.id, answer |-> d.outcome]
<1>5. ASSUME d.outcome \in Answers, replies' = replies \cup {r}
      PROVE  Given' = Given
  <2>1. r.call = d.call /\ r.answer = d.outcome
    OBVIOUS
  <2> HIDE DEF r
  <2>2. ASSUME NEW x PROVE x \in Given' <=> x \in Given
    <3>1. x \in Given' => x \in Given
      BY <1>1, <1>5, <2>1, GivenSomewhere, GivenSomewhereNext
    <3>2. x \in Given => x \in Given'
      BY <1>1, <1>5, <2>1, GivenSomewhere, GivenSomewhereNext
    <3> QED BY <3>1, <3>2
  <2> QED BY <2>2
<1> QED BY <1>3, <1>4, <1>5

\* What neither serves, answers nor ends a call cannot be told from the outside.
LEMMA ContractStutters ==
  ASSUME UNCHANGED <<requests, replies, running, finished, fut>>
  PROVE  UNCHANGED Contract!contractVars
BY DEF Contract!contractVars, Asked, Handled, Given

\* A request that is gone, whether its call was served or not.
LEMMA LoseAsked ==
  ASSUME RpcInv, NEW m \in requests, requests' = requests \ {m},
         UNCHANGED <<Handled, Given, fut>>
  PROVE  Contract!Next
<1>1. m.call \in Asked /\ Asked' = Asked \ {m.call}
  BY AskedWithout
<1>2. Contract!Lose
  BY <1>1 DEF Contract!Lose
<1> QED BY <1>2 DEF Contract!Next

LEMMA LoseAnswer ==
  ASSUME NEW x \in Given, Given' = Given \ {x}, UNCHANGED <<Asked, Handled, fut>>
  PROVE  Contract!Next
<1>1. Contract!Lose
  BY DEF Contract!Lose
<1> QED BY <1>1 DEF Contract!Next

\* Calls end without an answer, at most one way in a step.
LEMMA GiveUpMany ==
  ASSUME NEW S \in SUBSET Calls, NEW why \in {"timedout", "cancelled", "dropped"},
         \A n \in S : fut[n] = "pending",
         fut' = [n \in Calls |-> IF n \in S THEN why ELSE fut[n]],
         UNCHANGED <<requests, replies, running, finished>>
  PROVE  Contract!Next
<1>1. UNCHANGED <<Asked, Handled, Given>>
  BY DEF Asked, Handled, Given
<1>2. Contract!GiveUp(S, why)
  BY <1>1 DEF Contract!GiveUp
<1> QED BY <1>2 DEF Contract!Next

LEMMA CallRefines ==
  ASSUME RpcInv, Call, UNCHANGED serverVars PROVE Contract!Next
<1>1. made' \in Calls /\ made' > made
  BY NetworkAssumption DEF Call, RpcInv, TypeOK, ClientTypeOK, Calls
<1>2. fut[made'] = "none" /\ fut' = [fut EXCEPT ![made'] = "pending"]
  BY <1>1 DEF Call, RpcInv, IdsInUse
<1>3. UNCHANGED <<Handled, Given>>
  BY DEF Call, serverVars, Handled, Given
<1> DEFINE r == [call |-> made', id |-> NewId]
<1>4. requests' = requests \cup {r} \/ UNCHANGED requests
  BY DEF Call
<1>5. r.call = made'
  OBVIOUS
<1> HIDE DEF r
<1>6. Asked' \in {Asked, Asked \cup {made'}}
  <2>1. CASE UNCHANGED requests
    BY <2>1 DEF Asked
  <2>2. CASE requests' = requests \cup {r}
    <3>1. \A k : k \in Asked' <=> k \in Asked \/ k = made'
      BY <1>5, <2>2 DEF Asked
    <3> QED BY <3>1
  <2> QED BY <1>4, <2>1, <2>2
<1>7. Contract!Ask(made')
  BY <1>2, <1>3, <1>6 DEF Contract!Ask
<1> QED BY <1>1, <1>7 DEF Contract!Next

\* An answer is taken by the call that its id stands for, which is the one it
\* answers; or it comes too late, or cannot be built.
LEMMA MsgReceivedRefines ==
  ASSUME RpcInv, MsgReceived, UNCHANGED serverVars PROVE Contract!Next
<1>1. PICK m \in replies : /\ replies' = replies \ {m}
                           /\ UnknownAnswer(m) \/ LateAnswer(m) \/ Answer(m)
  BY DEF MsgReceived
<1>2. m.id \in DOMAIN calls /\ calls[m.id] = m.call
  BY HeldSomewhere DEF RpcInv, Held
<1>3. UNCHANGED <<requests, running, finished>>
  BY DEF MsgReceived, serverVars
<1>4. UNCHANGED <<Asked, Handled>>
  BY <1>3 DEF Asked, Handled
<1> DEFINE x == Given1(m.call, m.answer)
<1>5. x \in Given /\ Given' = Given \ {x}
  BY <1>1, <1>3, GivenWithoutReply
<1>6. x.call = m.call /\ x.answer = m.answer
  BY DEF Given1
<1> HIDE DEF x
<1>7. CASE UNCHANGED fut
  BY <1>4, <1>5, <1>7, LoseAnswer
<1>8. CASE Answer(m) /\ m.answer # "odd"
  <2>1. fut[m.call] = "pending"
    BY <1>2, <1>8 DEF Answer, RpcInv, IdsInUse
  <2>2. fut' = [fut EXCEPT ![m.call] = m.answer]
    BY <1>2, <1>8 DEF Answer
  <2>3. m.answer \in {"value", "error"}
    BY <1>8 DEF RpcInv, TypeOK, NetTypeOK, Reply, Answers
  <2>4. Contract!Return(x)
    BY <1>4, <1>5, <1>6, <2>1, <2>2, <2>3 DEF Contract!Return
  <2> QED BY <1>5, <2>4 DEF Contract!Next
<1> QED BY <1>1, <1>2, <1>7, <1>8 DEF UnknownAnswer, LateAnswer, Answer

LEMMA GivingUpRefines ==
  ASSUME RpcInv, Timeout \/ CancelCall, UNCHANGED serverVars PROVE Contract!Next
<1>1. PICK n \in Calls, why \in {"timedout", "cancelled"} :
        fut[n] = "pending" /\ fut' = [fut EXCEPT ![n] = why]
  BY DEF Timeout, CancelCall
<1>2. fut' = [k \in Calls |-> IF k \in {n} THEN why ELSE fut[k]]
  BY <1>1 DEF RpcInv, TypeOK, ClientTypeOK
<1>3. UNCHANGED <<requests, replies, running, finished>>
  BY DEF Timeout, CancelCall, netVars, serverVars
<1> QED BY <1>1, <1>2, <1>3, GiveUpMany

LEMMA ConnectionLostRefines ==
  ASSUME RpcInv, ConnectionLost, UNCHANGED serverVars
  PROVE  [Contract!Next]_(Contract!contractVars)
<1>1. UNCHANGED <<requests, replies, running, finished>>
  BY DEF ConnectionLost, netVars, serverVars
<1>2. CASE UNCHANGED fut
  BY <1>1, <1>2, ContractStutters
<1>3. CASE CancelCalls
  <2> DEFINE S == {n \in Calls : fut[n] = "pending" /\ \E id \in DOMAIN calls : calls[id] = n}
  <2>1. fut' = [n \in Calls |-> IF n \in S THEN "dropped" ELSE fut[n]]
    BY <1>3 DEF CancelCalls
  <2>2. S \in SUBSET Calls /\ \A n \in S : fut[n] = "pending"
    OBVIOUS
  <2> HIDE DEF S
  <2> QED BY <1>1, <2>1, <2>2, GiveUpMany
<1> QED BY <1>2, <1>3 DEF ConnectionLost

LEMMA ClientRefines ==
  ASSUME RpcInv, ClientNext, UNCHANGED serverVars
  PROVE  [Contract!Next]_(Contract!contractVars)
<1>1. CASE CallAsserts \/ Close \/ \E c \in Closers : WaitClosed(c) \/ CancelWaitClosed(c)
  BY <1>1, ContractStutters DEF CallAsserts, Close, WaitClosed, CancelWaitClosed, netVars, serverVars
<1> QED BY <1>1, CallRefines, MsgReceivedRefines, GivingUpRefines, ConnectionLostRefines
        DEF ClientNext

\* A request becomes a coroutine, an answer, or a future that has none.
LEMMA ServeRequestRefines ==
  ASSUME RpcInv, UNCHANGED clientVars, NEW s \in Servers, ServeRequest(s) PROVE Contract!Next
<1>1. PICK m \in requests : /\ requests' = requests \ {m}
                            /\ Refuse(s, m) \/ Start(s, m) \/ CallPlain(s, m)
  BY DEF ServeRequest
<1>2. UNCHANGED <<replies, fut>>
  BY DEF ServeRequest, clientVars
<1>3. m.call \in Calls /\ m.call \in Asked /\ Asked' = Asked \ {m.call}
  BY <1>1, AskedWithout
<1>4. CASE Start(s, m)
  <2>1. \A t \in Servers : running'[t] = IF t = s THEN running[s] \cup {m} ELSE running[t]
    BY <1>4 DEF Start, RpcInv, TypeOK, ServerTypeOK
  <2>2. ASSUME NEW n PROVE n \in Handled' <=> n \in Handled \/ n = m.call
    <3>1. n \in Handled' => n \in Handled \/ n = m.call
      BY <2>1, HandledSomewhere
    <3>2. n \in Handled => n \in Handled'
      BY <2>1, HandledSomewhere
    <3>3. m.call \in Handled'
      BY <2>1, HandledSomewhere
    <3> QED BY <3>1, <3>2, <3>3
  <2>3. UNCHANGED Given
    BY <1>2, <1>4 DEF Start, Given
  <2>4. Contract!Handle(m.call)
    BY <1>2, <1>3, <2>2, <2>3 DEF Contract!Handle
  <2> QED BY <1>3, <2>4 DEF Contract!Next
<1>5. ASSUME NEW o, Finish(s, m, o), UNCHANGED running PROVE Contract!Next
  <2>1. UNCHANGED Handled
    BY <1>5 DEF Handled
  <2>2. CASE o \in Answers
    <3>1. Given' = Given \cup {Given1(m.call, o)}
      BY <1>2, <1>5, <2>2, GivenByFinish
    <3>2. Contract!AnswerAtOnce(m.call, o)
      BY <1>2, <1>3, <2>1, <3>1 DEF Contract!AnswerAtOnce, Contract!Answer, Given1
    <3> QED BY <1>3, <2>2, <3>2 DEF Contract!Next
  <2>3. CASE o \notin Answers
    <3>1. UNCHANGED Given
      BY <1>2, <1>5, <2>3, GivenByFinish
    <3> QED BY <1>1, <1>2, <2>1, <3>1, LoseAsked
  <2> QED BY <2>2, <2>3
<1>6. CASE UNCHANGED <<running, finished>>
  <2>1. UNCHANGED <<Handled, Given>>
    BY <1>2, <1>6 DEF Handled, Given
  <2> QED BY <1>1, <1>2, <2>1, LoseAsked
<1> QED BY <1>1, <1>4, <1>5, <1>6 DEF Refuse, CallPlain

LEMMA EndCoroutineRefines ==
  ASSUME RpcInv, UNCHANGED clientVars, NEW s \in Servers, EndCoroutine(s) PROVE Contract!Next
<1>1. PICK m \in running[s], o \in Outcomes :
        running' = [running EXCEPT ![s] = @ \ {m}] /\ Finish(s, m, o)
  BY DEF EndCoroutine
<1>2. UNCHANGED <<requests, replies, fut>>
  BY DEF EndCoroutine, netVars, clientVars
<1>3. m.call \in Calls /\ m.call \in Handled /\ Handled' = Handled \ {m.call}
  BY <1>1, HandledWithout
<1>4. UNCHANGED Asked
  BY <1>2 DEF Asked
<1>5. CASE o \in Answers
  <2>1. Given' = Given \cup {Given1(m.call, o)}
    BY <1>1, <1>2, <1>5, GivenByFinish
  <2>2. Contract!AnswerLater(m.call, o)
    BY <1>2, <1>3, <1>4, <2>1 DEF Contract!AnswerLater, Contract!Answer, Given1
  <2> QED BY <1>3, <1>5, <2>2 DEF Contract!Next
<1>6. CASE o \notin Answers
  <2>1. UNCHANGED Given
    BY <1>1, <1>2, <1>6, GivenByFinish
  <2>2. Contract!Abandon({m.call})
    BY <1>2, <1>3, <1>4, <2>1 DEF Contract!Abandon
  <2>3. {m.call} \in SUBSET Handled
    BY <1>3
  <2> QED BY <2>2, <2>3 DEF Contract!Next
<1> QED BY <1>5, <1>6

\* A reply is the answer of its future; without one the answer is lost, if there
\* was any.
LEMMA CallResultRefines ==
  ASSUME RpcInv, UNCHANGED clientVars, NEW s \in Servers, CallResult(s)
  PROVE  [Contract!Next]_(Contract!contractVars)
<1>1. PICK d \in finished[s] :
        /\ finished' = [finished EXCEPT ![s] = @ \ {d}]
        /\ \/ /\ d.outcome \in Answers
              /\ replies' = replies \cup {[call |-> d.call, id |-> d.id, answer |-> d.outcome]}
           \/ UNCHANGED replies
  BY DEF CallResult
<1>2. UNCHANGED <<requests, running, fut>>
  BY DEF CallResult, clientVars
<1>3. UNCHANGED <<Asked, Handled>>
  BY <1>2 DEF Asked, Handled
<1>4. CASE Given' = Given
  BY <1>2, <1>3, <1>4 DEF Contract!contractVars
<1>5. CASE UNCHANGED replies /\ d.outcome \in Answers
  <2>1. /\ Given1(d.call, d.outcome) \in Given
        /\ Given' = Given \ {Given1(d.call, d.outcome)}
    BY <1>1, <1>5, GivenByResult
  <2> QED BY <1>2, <1>3, <2>1, LoseAnswer
<1> QED BY <1>1, <1>4, <1>5, GivenByResult

\* The end of a connection takes all that run in the server, and no answer.
LEMMA ServerLostRefines ==
  ASSUME RpcInv, UNCHANGED clientVars, NEW s \in Servers, ServerLost(s)
  PROVE  [Contract!Next]_(Contract!contractVars)
<1>1. UNCHANGED <<requests, replies, fut>>
  BY DEF ServerLost, netVars, clientVars
<1>2. CASE s \in abandoned
  BY <1>1, <1>2, ContractStutters DEF ServerLost
<1>3. CASE s \notin abandoned
  <2> DEFINE d(m) == [call |-> m.call, id |-> m.id, outcome |-> "cancelled"]
             S    == {m.call : m \in running[s]}
  <2>1. /\ \A t \in Servers : running'[t] = IF t = s THEN {} ELSE running[t]
        /\ \A t \in Servers : finished'[t] = IF t = s THEN finished[s] \cup {d(m) : m \in running[s]}
                                                      ELSE finished[t]
    BY <1>3 DEF ServerLost, RpcInv, TypeOK, ServerTypeOK
  <2>2. \A m : d(m).outcome \notin Answers
    BY DEF Answers
  <2> HIDE DEF d
  <2>3. ASSUME NEW x PROVE x \in Given' <=> x \in Given
    <3>0. \A t \in Servers : \A f \in finished'[t] : f.outcome \in Answers => f \in finished[t]
      BY <2>1, <2>2
    <3>1. x \in Given' => x \in Given
      BY <1>1, <3>0, GivenSomewhere, GivenSomewhereNext
    <3>2. x \in Given => x \in Given'
      BY <1>1, <2>1, GivenSomewhere, GivenSomewhereNext
    <3> QED BY <3>1, <3>2
  <2>4. S \in SUBSET Handled
    BY HandledSomewhere
  <2>5. ASSUME NEW n PROVE n \in Handled' <=> n \in Handled \ S
    <3>1. \A t \in Servers : \A p \in running[t], q \in running[s] : p.call = q.call => t = s
      BY DEF RpcInv, OneTrace, OneInServers
    <3>2. n \in Handled' => n \in Handled /\ n \notin S
      BY <2>1, <3>1, HandledSomewhere
    <3>3. n \in Handled /\ n \notin S => n \in Handled'
      BY <2>1, HandledSomewhere
    <3> QED BY <3>2, <3>3
  <2>6. UNCHANGED Asked
    BY <1>1 DEF Asked
  <2> HIDE DEF S
  <2>7. Contract!Abandon(S)
    BY <1>1, <2>3, <2>4, <2>5, <2>6 DEF Contract!Abandon
  <2> QED BY <2>4, <2>7 DEF Contract!Next
<1> QED BY <1>2, <1>3

LEMMA ServerRefines ==
  ASSUME RpcInv, ServerNext, UNCHANGED clientVars
  PROVE  [Contract!Next]_(Contract!contractVars)
<1>1. PICK s \in Servers : \/ ServeRequest(s) \/ EndCoroutine(s) \/ CallResult(s)
                           \/ ServerClose(s) \/ ServerLost(s) \/ AbandonServer(s)
  BY DEF ServerNext
<1>2. CASE ServerClose(s) \/ AbandonServer(s)
  BY <1>2, ContractStutters DEF ServerClose, AbandonServer, netVars, clientVars
<1> QED BY <1>1, <1>2, ServeRequestRefines, EndCoroutineRefines, CallResultRefines, ServerLostRefines

LEMMA LossRefines ==
  ASSUME RpcInv, LoseRequest \/ LoseReply, UNCHANGED <<clientVars, serverVars>>
  PROVE  Contract!Next
<1>1. UNCHANGED <<running, finished, fut>>
  BY DEF clientVars, serverVars
<1>2. UNCHANGED Handled
  BY <1>1 DEF Handled
<1>3. CASE LoseRequest
  <2>1. PICK m \in requests : requests' = requests \ {m} /\ UNCHANGED replies
    BY <1>3 DEF LoseRequest
  <2>2. UNCHANGED Given
    BY <1>1, <2>1 DEF Given
  <2> QED BY <1>1, <1>2, <2>1, <2>2, LoseAsked
<1>4. CASE LoseReply
  <2>1. PICK m \in replies : replies' = replies \ {m} /\ UNCHANGED requests
    BY <1>4 DEF LoseReply
  <2>2. /\ Given1(m.call, m.answer) \in Given
        /\ Given' = Given \ {Given1(m.call, m.answer)}
    BY <1>1, <2>1, GivenWithoutReply
  <2>3. UNCHANGED Asked
    BY <2>1 DEF Asked
  <2> QED BY <1>1, <1>2, <2>2, <2>3, LoseAnswer
<1> QED BY <1>3, <1>4

\* The client and its servers implement RpcContract: a call is handled at most
\* once, its result is what its own handler answered, and it is final; the ids,
\* which come round, and the futures that stay behind do not show.
THEOREM RpcContractHolds == Spec => ContractSpec
<1>1. Init => Contract!Init
  BY DEF Init, NetInit, ClientInit, ServerInit, Contract!Init, Asked, Handled, Given
<1>2. RpcInv /\ [Next]_vars => [Contract!Next]_(Contract!contractVars)
  <2> SUFFICES ASSUME RpcInv, [Next]_vars PROVE [Contract!Next]_(Contract!contractVars)
    OBVIOUS
  <2>1. CASE UNCHANGED vars
    BY <2>1, ContractStutters DEF vars, netVars, clientVars, serverVars
  <2> QED BY <2>1, ClientRefines, ServerRefines, LossRefines DEF Next
<1> QED BY <1>1, <1>2, InvAlways, PTL DEF Spec, ContractSpec, Contract!Spec

-----------------------------------------------------------------------------
(* The end of a connection.                                                *)

\* The waiters connection_lost() gets to.
LEMMA ReleasedPrefix ==
  ASSUME NEW i \in 1..Len(doneWaiters), \A k \in 1..i : ~DoneAlready(k)
  PROVE  doneWaiters[i] \in Released
BY DEF Released

LEMMA ReleasedUndisturbed ==
  ASSUME NEW c \in Released, doneWaiters \in Seq(Closers) PROVE closer[c] # "cancelled" /\ c \in Closers
<1>1. PICK i \in 1..Len(doneWaiters) : c = doneWaiters[i] /\ \A k \in 1..i : ~DoneAlready(k)
  BY DEF Released
<1>2. i \in 1..i
  BY <1>1
<1> QED BY <1>1, <1>2 DEF DoneAlready

\* A cancelled wait_closed() stays cancelled.
LEMMA StaysDisturbed ==
  ASSUME TypeOK, [Next]_vars
  PROVE  /\ \A c \in Closers : closer[c] = "cancelled" => closer'[c] = "cancelled"
         /\ Undisturbed' => Undisturbed
<1>0. /\ closer \in [Closers -> {"idle", "waiting", "cancelled", "released"}]
      /\ doneWaiters \in Seq(Closers)
  BY DEF TypeOK, ClientTypeOK
<1>1. \A c \in Closers : closer[c] = "cancelled" => closer'[c] = "cancelled"
  <2>1. CASE UNCHANGED closer
    BY <2>1
  <2>2. CASE ConnectionLost
    BY <1>0, <2>2, ReleasedUndisturbed DEF ConnectionLost
  <2>3. ASSUME NEW c \in Closers, WaitClosed(c) \/ CancelWaitClosed(c)
        PROVE  \A d \in Closers : closer[d] = "cancelled" => closer'[d] = "cancelled"
    BY <1>0, <2>3 DEF WaitClosed, CancelWaitClosed
  <2>4. CASE ClientNext
    BY <2>1, <2>2, <2>3, <2>4
       DEF ClientNext, Call, CallAsserts, MsgReceived, Timeout, CancelCall, Close
  <2>5. CASE UNCHANGED clientVars
    BY <2>1, <2>5 DEF clientVars
  <2> QED BY <2>4, <2>5 DEF Next, vars
<1> QED BY <1>1 DEF Undisturbed

LEMMA EarlyClosersStep ==
  ASSUME TypeOK, EarlyClosersReleased, [Next]_vars PROVE EarlyClosersReleased'
<1>0. /\ closer \in [Closers -> {"idle", "waiting", "cancelled", "released"}]
      /\ doneWaiters \in Seq(Closers)
      /\ \A i \in 1..Len(doneWaiters) : doneWaiters[i] \in Closers
  BY DEF TypeOK, ClientTypeOK
<1>1. CASE UNCHANGED <<transport, doneWaiters, closer>>
  BY <1>1 DEF EarlyClosersReleased
<1>2. CASE transport' # "None"
  BY <1>2 DEF EarlyClosersReleased
<1>3. CASE ConnectionLost
  <2>1. /\ UNCHANGED doneWaiters
        /\ closer' = [c \in Closers |-> IF c \in Released THEN "released" ELSE closer[c]]
    BY <1>3 DEF ConnectionLost
  <2>2. \A c \in Closers : closer[c] = "cancelled" => closer'[c] = "cancelled"
    BY StaysDisturbed, <1>3
  <2> SUFFICES ASSUME NEW i \in 1..Len(doneWaiters),
                      \A j \in 1..i : closer'[doneWaiters[j]] # "cancelled"
               PROVE  closer'[doneWaiters[i]] # "waiting"
    BY <2>1 DEF EarlyClosersReleased
  <2>3. \A j \in 1..i : ~DoneAlready(j)
    BY <1>0, <2>2 DEF DoneAlready
  <2>4. doneWaiters[i] \in Released
    BY <2>3, ReleasedPrefix
  <2> QED BY <1>0, <2>1, <2>4
<1>4. ASSUME NEW c \in Closers, CancelWaitClosed(c) PROVE EarlyClosersReleased'
  <2>1. /\ UNCHANGED <<transport, doneWaiters>>
        /\ closer' = [closer EXCEPT ![c] = "cancelled"]
    BY <1>4 DEF CancelWaitClosed
  <2> QED BY <1>0, <2>1 DEF EarlyClosersReleased
<1>5. ASSUME NEW c \in Closers, WaitClosed(c) PROVE EarlyClosersReleased'
  BY <1>2, <1>5 DEF WaitClosed
<1>6. CASE Call \/ CallAsserts \/ MsgReceived \/ Timeout \/ CancelCall
  BY <1>1, <1>6 DEF Call, CallAsserts, MsgReceived, Timeout, CancelCall
<1>7. CASE Close
  BY <1>2, <1>7 DEF Close
<1>8. CASE UNCHANGED clientVars
  BY <1>1, <1>8 DEF clientVars
<1>9. CASE ClientNext
  BY <1>3, <1>4, <1>5, <1>6, <1>7, <1>9 DEF ClientNext
<1> QED BY <1>8, <1>9 DEF Next, vars

LEMMA NothingRunsStep == ASSUME TypeOK, NothingRuns, [Next]_vars PROVE NothingRuns'
<1>0. /\ running \in [Servers -> SUBSET Request]
      /\ serving \in [Servers -> {"open", "closing", "None"}]
  BY DEF TypeOK, ServerTypeOK
<1>1. CASE UNCHANGED <<running, serving, abandoned>>
  BY <1>1 DEF NothingRuns
<1>2. CASE UNCHANGED serverVars
  BY <1>1, <1>2 DEF serverVars
<1>3. ASSUME NEW s \in Servers, ServeRequest(s) PROVE NothingRuns'
  <2>1. /\ serving[s] # "None" /\ UNCHANGED <<serving, abandoned>>
        /\ \A t \in Servers : t # s => running'[t] = running[t]
    BY <1>0, <1>3 DEF ServeRequest, Refuse, Start, CallPlain
  <2> QED BY <2>1 DEF NothingRuns
<1>4. ASSUME NEW s \in Servers, EndCoroutine(s) PROVE NothingRuns'
  <2>1. /\ UNCHANGED <<serving, abandoned>>
        /\ \A t \in Servers : running'[t] \subseteq running[t]
    BY <1>0, <1>4 DEF EndCoroutine
  <2> QED BY <2>1 DEF NothingRuns
<1>5. ASSUME NEW s \in Servers, CallResult(s) PROVE NothingRuns'
  BY <1>1, <1>5 DEF CallResult
<1>6. ASSUME NEW s \in Servers, ServerClose(s) PROVE NothingRuns'
  BY <1>0, <1>6 DEF ServerClose, NothingRuns
<1>7. ASSUME NEW s \in Servers, ServerLost(s) PROVE NothingRuns'
  BY <1>0, <1>7 DEF ServerLost, NothingRuns
<1>8. ASSUME NEW s \in Servers, AbandonServer(s) PROVE NothingRuns'
  BY <1>0, <1>8 DEF AbandonServer, NothingRuns
<1>9. CASE ServerNext
  BY <1>3, <1>4, <1>5, <1>6, <1>7, <1>8, <1>9 DEF ServerNext
<1> QED BY <1>2, <1>9 DEF Next, vars

\* A lost connection is known to the tasks in wait_closed(), up to one that was
\* cancelled, and to the coroutines of a server whose waiters were not.
THEOREM LossIsKnownHolds == Spec => [](EarlyClosersReleased /\ NothingRuns)
<1>1. Init => EarlyClosersReleased /\ NothingRuns
  BY DEF Init, ClientInit, ServerInit, EarlyClosersReleased, NothingRuns
<1>2. RpcInv /\ EarlyClosersReleased /\ NothingRuns /\ [Next]_vars
        => EarlyClosersReleased' /\ NothingRuns'
  BY EarlyClosersStep, NothingRunsStep DEF RpcInv
<1> QED BY <1>1, <1>2, InvAlways, PTL DEF Spec

-----------------------------------------------------------------------------
(* The calls that wait, when the client can build every exception it is    *)
(* sent: an "odd" answer takes the id of its call away and leaves the call *)
(* waiting.                                                                *)

NothingOdd ==
  /\ \A m \in replies : m.answer # "odd"
  /\ \A s \in Servers : \A d \in finished[s] : d.outcome # "odd"

LEMMA NothingOddStep ==
  ASSUME "odd" \notin Outcomes, TypeOK, NothingOdd, [Next]_vars PROVE NothingOdd'
<1>0. finished \in [Servers -> SUBSET Done]
  BY DEF TypeOK, ServerTypeOK
<1>1. CASE replies' \subseteq replies /\ \A s \in Servers : finished'[s] \subseteq finished[s]
  BY <1>1 DEF NothingOdd
<1>2. ASSUME NEW s \in Servers, NEW m, NEW o, o # "odd", Finish(s, m, o), UNCHANGED replies
      PROVE  NothingOdd'
  <2>1. \A t \in Servers : \A d \in finished'[t] : d \in finished[t] \/ d.outcome = o
    BY <1>0, <1>2 DEF Finish
  <2> QED BY <1>2, <2>1 DEF NothingOdd
<1>3. ASSUME NEW s \in Servers, ServeRequest(s) PROVE NothingOdd'
  <2>1. UNCHANGED replies
    BY <1>3 DEF ServeRequest
  <2>2. PICK m : Refuse(s, m) \/ Start(s, m) \/ CallPlain(s, m)
    BY <1>3 DEF ServeRequest
  <2>3. CASE UNCHANGED finished
    BY <1>1, <2>1, <2>3
  <2>4. CASE \E o \in Outcomes \cup {"error"} : Finish(s, m, o)
    BY <1>2, <2>1, <2>4
  <2> QED BY <2>2, <2>3, <2>4 DEF Refuse, Start, CallPlain
<1>4. ASSUME NEW s \in Servers, EndCoroutine(s) PROVE NothingOdd'
  <2>1. PICK m \in running[s], o \in Outcomes : Finish(s, m, o)
    BY <1>4 DEF EndCoroutine
  <2> QED BY <1>2, <1>4, <2>1 DEF EndCoroutine, netVars
<1>5. ASSUME NEW s \in Servers, CallResult(s) PROVE NothingOdd'
  <2>1. PICK d \in finished[s] :
          /\ finished' = [finished EXCEPT ![s] = @ \ {d}]
          /\ \/ replies' = replies \cup {[call |-> d.call, id |-> d.id, answer |-> d.outcome]}
             \/ UNCHANGED replies
    BY <1>5 DEF CallResult
  <2>2. \A m \in replies' : m \in replies \/ m.answer = d.outcome
    BY <2>1
  <2>3. \A t \in Servers : finished'[t] \subseteq finished[t]
    BY <1>0, <2>1
  <2> QED BY <2>2, <2>3 DEF NothingOdd
<1>6. ASSUME NEW s \in Servers, ServerLost(s) PROVE NothingOdd'
  <2>1. \A t \in Servers : \A d \in finished'[t] : d \in finished[t] \/ d.outcome = "cancelled"
    BY <1>0, <1>6 DEF ServerLost
  <2> QED BY <1>6, <2>1 DEF ServerLost, NothingOdd, netVars
<1>7. ASSUME NEW s \in Servers, ServerClose(s) \/ AbandonServer(s) PROVE NothingOdd'
  BY <1>1, <1>7 DEF ServerClose, AbandonServer, netVars
<1>8. CASE ServerNext
  BY <1>3, <1>4, <1>5, <1>6, <1>7, <1>8 DEF ServerNext
<1>9. CASE UNCHANGED serverVars
  <2>1. CASE ClientNext
    BY <1>1, <1>9, <2>1
       DEF ClientNext, Call, CallAsserts, MsgReceived, Timeout, CancelCall, Close, ConnectionLost,
           WaitClosed, CancelWaitClosed, netVars, serverVars
  <2>2. CASE LoseRequest \/ LoseReply \/ UNCHANGED vars
    BY <1>1, <1>9, <2>2 DEF LoseRequest, LoseReply, vars, netVars, serverVars
  <2> QED BY <1>8, <2>1, <2>2 DEF Next
<1> QED BY <1>8, <1>9 DEF Next, vars

LEMMA PendingIsKnownStep ==
  ASSUME RpcInv, NothingOdd, PendingIsKnown, [Next]_vars PROVE PendingIsKnown'
<1>0. /\ fut \in [Calls -> FutState]
      /\ doneWaiters \in Seq(Closers)
  BY DEF RpcInv, TypeOK, ClientTypeOK
<1>1. Undisturbed' => Undisturbed
  BY StaysDisturbed DEF RpcInv
<1>2. ASSUME UNCHANGED <<calls, transport>>, \A n \in Calls : fut'[n] = "pending" => fut[n] = "pending"
      PROVE  PendingIsKnown'
  BY <1>1, <1>2 DEF PendingIsKnown
<1>3. ASSUME transport' # "None", UNCHANGED <<calls, fut>> PROVE PendingIsKnown'
  BY <1>3 DEF PendingIsKnown
<1>4. CASE Call
  <2>1. /\ transport' # "None"
        /\ \A n \in Calls : n # made' => fut'[n] = fut[n]
        /\ NewId \notin DOMAIN calls /\ NewId \in DOMAIN calls' /\ calls'[NewId] = made'
        /\ \A id \in DOMAIN calls : id \in DOMAIN calls' /\ calls'[id] = calls[id]
    BY <1>0, <1>4 DEF Call
  <2> QED BY <2>1 DEF PendingIsKnown
<1>5. CASE MsgReceived
  <2>1. PICK m \in replies : UnknownAnswer(m) \/ LateAnswer(m) \/ Answer(m)
    BY <1>5 DEF MsgReceived
  <2>2. UNCHANGED transport /\ m.answer # "odd" /\ m.answer \in Answers
    BY <1>5 DEF MsgReceived, NothingOdd, RpcInv, TypeOK, NetTypeOK, Reply
  <2>3. CASE UnknownAnswer(m)
    BY <1>2, <2>2, <2>3 DEF UnknownAnswer
  <2>4. CASE LateAnswer(m) \/ Answer(m)
    <3>1. /\ m.id \in DOMAIN calls
          /\ DOMAIN calls' = DOMAIN calls \ {m.id}
          /\ \A id \in DOMAIN calls' : calls'[id] = calls[id]
      BY <2>4 DEF LateAnswer, Answer, Forget
    <3>2. calls[m.id] \in Calls
      BY <3>1 DEF RpcInv, TypeOK, ClientTypeOK
    <3>3. /\ fut'[calls[m.id]] # "pending"
          /\ \A n \in Calls : n # calls[m.id] => fut'[n] = fut[n]
      BY <1>0, <2>2, <2>4, <3>2 DEF LateAnswer, Answer, Cancelled, Answers
    <3> QED BY <1>1, <2>2, <3>1, <3>3 DEF PendingIsKnown
  <2> QED BY <2>1, <2>3, <2>4
<1>6. CASE Timeout \/ CancelCall
  BY <1>0, <1>2, <1>6 DEF Timeout, CancelCall
<1>7. CASE ConnectionLost
  <2>1. CASE \E i \in 1..Len(doneWaiters) : DoneAlready(i)
    <3>1. PICK i \in 1..Len(doneWaiters) : DoneAlready(i)
      BY <2>1
    <3>2. doneWaiters[i] \in Closers /\ closer[doneWaiters[i]] = "cancelled"
      BY <1>0, <3>1 DEF DoneAlready
    <3>3. ~Undisturbed'
      BY <1>1, <3>2 DEF Undisturbed
    <3> QED BY <1>7, <2>1, <3>3 DEF ConnectionLost, PendingIsKnown
  <2>2. CASE ~\E i \in 1..Len(doneWaiters) : DoneAlready(i)
    <3>1. CancelCalls
      BY <1>7, <2>2 DEF ConnectionLost
    <3>2. \A n \in Calls : fut'[n] # "pending"
      BY <3>1 DEF CancelCalls, PendingIsKnown
    <3> QED BY <3>2 DEF PendingIsKnown
  <2> QED BY <2>1, <2>2
<1>8. CASE CallAsserts \/ \E c \in Closers : WaitClosed(c) \/ CancelWaitClosed(c)
  BY <1>2, <1>8 DEF CallAsserts, WaitClosed, CancelWaitClosed
<1>9. CASE Close
  BY <1>3, <1>9 DEF Close
<1>10. CASE UNCHANGED clientVars
  BY <1>2, <1>10 DEF clientVars
<1>11. CASE ClientNext
  BY <1>4, <1>5, <1>6, <1>7, <1>8, <1>9, <1>11 DEF ClientNext
<1> QED BY <1>10, <1>11 DEF Next, vars

\* The end of a connection, on either side, is known to all that depend on it, and
\* a call that waits is still in `calls'; when no answer is one that the client
\* cannot build.
THEOREM NobodyForgottenHolds == ASSUME "odd" \notin Outcomes PROVE Spec => []NobodyForgotten
<1>1. Init => PendingIsKnown /\ NothingOdd
  BY DEF Init, NetInit, ClientInit, ServerInit, PendingIsKnown, NothingOdd
<1>2. RpcInv /\ NothingOdd /\ PendingIsKnown /\ [Next]_vars => PendingIsKnown' /\ NothingOdd'
  BY PendingIsKnownStep, NothingOddStep DEF RpcInv
<1>3. Spec => [](PendingIsKnown /\ NothingOdd)
  BY <1>1, <1>2, InvAlways, PTL DEF Spec
<1>4. PendingIsKnown /\ EarlyClosersReleased /\ NothingRuns => NobodyForgotten
  BY DEF NobodyForgotten
<1> QED BY <1>3, <1>4, LossIsKnownHolds, PTL

-----------------------------------------------------------------------------
(* Before the ids come round, and when no wait_closed() is cancelled.      *)

\* The ids in use are the numbers of calls that were made.
NotRound == counter = made /\ (\A id \in DOMAIN calls : id > 0 /\ id <= made) /\ IdsFresh

LEMMA NotRoundStep ==
  ASSUME MaxCalls <= MaxId, TypeOK, NotRound, [Next]_vars PROVE NotRound'
<1>0. made \in Nat /\ DOMAIN calls \subseteq Ids
  BY DEF TypeOK, ClientTypeOK
<1>1. NewId \notin DOMAIN calls
  BY <1>0 DEF NewId, NotRound
<1>2. CASE UNCHANGED <<counter, made, asserted>> /\ DOMAIN calls' \subseteq DOMAIN calls
  BY <1>2 DEF NotRound, IdsFresh
<1>3. CASE Call
  <2>1. counter # MaxId
    BY <1>0, <1>3, NetworkAssumption DEF Call, NotRound
  <2>2. NewId = made + 1 /\ made' = made + 1 /\ counter' = made + 1
    BY <1>3, <2>1 DEF Call, NewId, NotRound
  <2>3. DOMAIN calls' = DOMAIN calls \cup {NewId} /\ UNCHANGED asserted
    BY <1>3 DEF Call
  <2> QED BY <1>0, <2>2, <2>3 DEF NotRound, IdsFresh, Ids
<1>4. CASE MsgReceived
  BY <1>2, <1>4 DEF MsgReceived, UnknownAnswer, LateAnswer, Answer, Forget
<1>5. CASE Timeout \/ CancelCall \/ Close \/ ConnectionLost
             \/ \E c \in Closers : WaitClosed(c) \/ CancelWaitClosed(c)
  BY <1>2, <1>5 DEF Timeout, CancelCall, Close, ConnectionLost, WaitClosed, CancelWaitClosed
<1>6. CASE UNCHANGED clientVars
  BY <1>2, <1>6 DEF clientVars
<1>7. CASE ClientNext
  BY <1>1, <1>3, <1>4, <1>5, <1>7 DEF ClientNext, CallAsserts
<1> QED BY <1>6, <1>7 DEF Next, vars

\* A client that makes fewer than 2^32 calls never runs into the assertion of
\* call() that its id is free.
THEOREM IdsFreshHolds == ASSUME MaxCalls <= MaxId PROVE Spec => []IdsFresh
<1>1. Init => NotRound
  BY DEF Init, ClientInit, NotRound, IdsFresh
<1>2. RpcInv /\ NotRound /\ [Next]_vars => NotRound'
  BY NotRoundStep DEF RpcInv
<1>3. NotRound => IdsFresh
  BY DEF NotRound
<1> QED BY <1>1, <1>2, <1>3, InvAlways, PTL DEF Spec

\* A task that waits is among those connection_lost() tells.
Listed ==
  /\ \A c \in Closers : closer[c] = "waiting" => \E i \in 1..Len(doneWaiters) : doneWaiters[i] = c
  /\ Undisturbed
  /\ ClosersReleased

LEMMA ListedStep ==
  ASSUME "closer" \notin Cancels, TypeOK, Listed, [Next]_vars PROVE Listed'
<1>0. /\ closer \in [Closers -> {"idle", "waiting", "cancelled", "released"}]
      /\ doneWaiters \in Seq(Closers)
  BY DEF TypeOK, ClientTypeOK
<1>1. CASE UNCHANGED <<transport, doneWaiters, closer>>
  BY <1>1 DEF Listed, Undisturbed, ClosersReleased
<1>2. ASSUME NEW c \in Closers, WaitClosed(c) PROVE Listed'
  <2>1. /\ transport' # "None"
        /\ doneWaiters' = Append(doneWaiters, c)
        /\ closer' = [closer EXCEPT ![c] = "waiting"]
    BY <1>2 DEF WaitClosed
  <2>2. /\ Len(doneWaiters') = Len(doneWaiters) + 1
        /\ Len(doneWaiters) \in Nat
        /\ doneWaiters'[Len(doneWaiters')] = c
        /\ \A i \in 1..Len(doneWaiters) : doneWaiters'[i] = doneWaiters[i]
    BY <1>0, <2>1
  <2>3. ASSUME NEW d \in Closers, closer'[d] = "waiting"
        PROVE  \E i \in 1..Len(doneWaiters') : doneWaiters'[i] = d
    <3>1. CASE d = c
      BY <2>2, <3>1
    <3>2. CASE d # c
      BY <1>0, <2>1, <2>2, <2>3, <3>2 DEF Listed
    <3> QED BY <3>1, <3>2
  <2>4. Undisturbed' /\ ClosersReleased'
    BY <1>0, <2>1 DEF Listed, Undisturbed, ClosersReleased
  <2> QED BY <2>3, <2>4 DEF Listed
<1>3. CASE Close
  BY <1>3 DEF Close, Listed, Undisturbed, ClosersReleased
<1>4. CASE ConnectionLost
  <2>1. closer' = [c \in Closers |-> IF c \in Released THEN "released" ELSE closer[c]]
    BY <1>4 DEF ConnectionLost
  <2>2. ASSUME NEW c \in Closers, closer[c] = "waiting" PROVE c \in Released
    <3>1. PICK i \in 1..Len(doneWaiters) : doneWaiters[i] = c
      BY <2>2 DEF Listed
    <3>2. \A k \in 1..i : ~DoneAlready(k)
      BY <1>0, <3>1 DEF DoneAlready, Listed, Undisturbed
    <3> QED BY <3>1, <3>2, ReleasedPrefix
  <2>3. \A c \in Closers : closer'[c] \notin {"waiting", "cancelled"}
    BY <1>0, <2>1, <2>2 DEF Listed, Undisturbed
  <2> QED BY <2>3 DEF Listed, Undisturbed, ClosersReleased
<1>5. CASE UNCHANGED clientVars
  BY <1>1, <1>5 DEF clientVars
<1>6. CASE ClientNext
  BY <1>1, <1>2, <1>3, <1>4, <1>6
     DEF ClientNext, Call, CallAsserts, MsgReceived, Timeout, CancelCall, CancelWaitClosed
<1> QED BY <1>5, <1>6 DEF Next, vars

\* wait_closed() returns when the connection is lost, in every task that waits, if
\* none of them is cancelled.
THEOREM ClosersReleasedHolds == ASSUME "closer" \notin Cancels PROVE Spec => []ClosersReleased
<1>1. Init => Listed
  BY DEF Init, ClientInit, Listed, Undisturbed, ClosersReleased
<1>2. RpcInv /\ Listed /\ [Next]_vars => Listed'
  BY ListedStep DEF RpcInv
<1>3. Listed => ClosersReleased
  BY DEF Listed
<1> QED BY <1>1, <1>2, <1>3, InvAlways, PTL DEF Spec

=============================================================================
