--------------------------- MODULE RpcOneWayProofs ---------------------------
(***************************************************************************)
(* Proofs about RpcOneWay, for any translation table, handlers, topics and *)
(* number of messages: the packer's cache makes no difference,  *)
(* the server's pending_waiters is right, and what is called is what the   *)
(* name of a message stands for.                                           *)
(***************************************************************************)
EXTENDS RpcOneWay, WellFoundedInduction, FiniteSetTheorems, SequenceTheorems, TLAPS

\* What the tasks depend on: a message that is still on its way was not handled
\* yet, and is on its way once.
Fresh ==
  /\ sent \in 0..MaxMessages
  /\ net \in Seq(1..sent)
  /\ \A i, j \in 1..Len(net) : i < j => net[i] < net[j]
  /\ \A i \in 1..Len(net) : call[net[i]] = "none"
  /\ \A n \in Messages : n > sent => call[n] = "none"

TaskInv ==
  /\ call \in [Messages -> CallState]
  /\ pending \subseteq Messages
  /\ Fresh
  /\ PendingKnown

\* Why the cache agrees with the table: a class that has an entry of its own is in
\* the cache from the beginning, so the long lookup, which may find the entry of
\* a superclass, is never made for it.
CacheInv ==
  /\ \A k \in DOMAIN Table : Table[k] \in DOMAIN cache
  /\ CacheAgrees(cache)

-----------------------------------------------------------------------------
(* Numbers.                                                                *)

\* The natural numbers are well ordered.
LEMMA Smallest ==
  ASSUME NEW S \in SUBSET Nat, S # {}
  PROVE \E n \in S : \A m \in S : n <= m
<1> DEFINE R == {ss \in Nat \X Nat : ss[1] < ss[2]}
           Below(y, x) == <<y, x>> \in R
<1>1. IsWellFoundedOn(R, Nat)
  BY NatLessThanWellFounded DEF OpToRel
<1>2. \E x \in S : \A y \in S : ~Below(y, x)
  <2> HIDE DEF R
  <2> QED BY <1>1, WFMin
<1>3. \A x, y \in Nat : Below(y, x) <=> y < x
  OBVIOUS
<1> HIDE DEF Below, R
<1>4. PICK x \in S : \A y \in S : ~Below(y, x)
  BY <1>2
<1>5. ASSUME NEW y \in S PROVE x <= y
  <2>1. x \in Nat /\ y \in Nat
    OBVIOUS
  <2> QED BY <1>3, <1>4, <2>1
<1> QED BY <1>5

\* What Min and Max choose is there.
LEMMA MinIsMember ==
  ASSUME NEW S \in SUBSET Nat, S # {}
  PROVE Min(S) \in S
BY Smallest DEF Min

\* A finite set of numbers has a largest one: the numbers of its first k elements
\* are bounded, for every k.
LEMMA Largest ==
  ASSUME NEW S \in SUBSET Nat, S # {}, IsFiniteSet(S)
  PROVE \E n \in S : \A m \in S : n >= m
<1>0. PICK n \in Nat : ExistsSurjection(1..n, S)
  BY FS_NatSurjection
<1>1. PICK f \in [1..n -> S] : \A x \in S : \E i \in 1..n : f[i] = x
  BY <1>0 DEF ExistsSurjection, Surjection
<1> DEFINE Bound(k) == \E b \in Nat : \A i \in 1..k : f[i] <= b
           Bad == {k \in 0..n : ~Bound(k)}
<1>2. Bad = {}
  <2> SUFFICES ASSUME Bad # {} PROVE FALSE
    OBVIOUS
  <2>0. Bad \in SUBSET Nat
    OBVIOUS
  <2>1. PICK k \in Bad : \A m \in Bad : k <= m
    <3> HIDE DEF Bad
    <3> QED BY <2>0, Smallest
  <2>2. k \in 0..n /\ ~Bound(k)
    OBVIOUS
  <2>3. k # 0
    <3>1. Bound(0)
      <4>1. 0 \in Nat /\ \A i \in 1..0 : f[i] <= 0
        OBVIOUS
      <4> QED BY <4>1
    <3> HIDE DEF Bound
    <3> QED BY <2>2, <3>1
  <2>4. k - 1 \in 0..n /\ k - 1 < k /\ k \in 1..n
    BY <2>2, <2>3
  <2>5. Bound(k - 1)
    <3>1. k - 1 \notin Bad
      <4> HIDE DEF Bad
      <4> QED BY <2>1, <2>2, <2>4
    <3> HIDE DEF Bound
    <3> QED BY <2>4, <3>1
  <2> HIDE DEF Bad, Bound
  <2>6. PICK b \in Nat : \A i \in 1..(k - 1) : f[i] <= b
    BY <2>5 DEF Bound
  <2>7. \A i \in 1..n : f[i] \in Nat
    <3>1. \A i \in 1..n : f[i] \in S
      OBVIOUS
    <3> QED BY <3>1
  <2>8. ASSUME NEW i \in 1..k PROVE f[i] <= b + f[k]
    <3>0. i \in 1..n /\ k \in 1..n /\ i \in Int
      BY <2>4
    <3>1. f[i] \in Nat /\ f[k] \in Nat
      BY <3>0, <2>7
    <3>2. i = k \/ i \in 1..(k - 1)
      BY <2>4
    <3>3. CASE i = k
      BY <3>1, <3>3
    <3>4. CASE i \in 1..(k - 1)
      <4>1. f[i] <= b
        BY <2>6, <3>4
      <4> QED BY <3>1, <4>1
    <3> QED BY <3>2, <3>3, <3>4
  <2>9. b + f[k] \in Nat
    <3>1. f[k] \in Nat
      BY <2>4, <2>7
    <3> QED BY <3>1
  <2>10. Bound(k)
    BY <2>8, <2>9 DEF Bound
  <2> QED BY <2>2, <2>10
<1>3. PICK b \in Nat : \A i \in 1..n : f[i] <= b
  <2>1. n \in 0..n
    OBVIOUS
  <2>2. Bound(n)
    <3> HIDE DEF Bound
    <3> QED BY <1>2, <2>1
  <2> QED BY <2>2
<1>4. \A x \in S : x <= b
  BY <1>1, <1>3
<1> DEFINE Gaps == {k \in Nat : \E x \in S : b - x = k}
<1>5. Gaps # {}
  <2>1. PICK x \in S : TRUE
    OBVIOUS
  <2>2. b - x \in Nat
    BY <1>4
  <2> QED BY <2>2
<1>6. PICK k \in Gaps : \A m \in Gaps : k <= m
  BY <1>5, Smallest
<1>7. PICK x \in S : b - x = k
  BY <1>6
<1>8. ASSUME NEW y \in S PROVE y <= x
  <2>1. b - y \in Gaps
    BY <1>4
  <2> QED BY <1>6, <1>7, <2>1
<1> QED BY <1>8

LEMMA MaxIsMember ==
  ASSUME NEW S \in SUBSET Nat, S # {}, IsFiniteSet(S)
  PROVE Max(S) \in S
BY Largest DEF Max
-----------------------------------------------------------------------------
(* The packer.                                                             *)

\* What a new packer answers: the code in its cache, or the long lookup's.
LEMMA FirstCodeDef ==
  ASSUME NEW cls
  PROVE  FirstCode(cls) = IF CodesOf(cls) # {} THEN Max(CodesOf(cls)) ELSE LongLookup(cls)
<1>1. cls \in DOMAIN NewCache <=> CodesOf(cls) # {}
  BY DEF NewCache, CodesOf
<1>2. cls \in DOMAIN NewCache => NewCache[cls] = Max(CodesOf(cls))
  BY DEF NewCache
<1> QED BY <1>1, <1>2 DEF FirstCode, PackHook

\* What is packed under a code is an instance of the class of its entry.
LEMMA FirstCodeFits ==
  ASSUME NEW cls \in Classes, FirstCode(cls) \in DOMAIN Table
  PROVE  Table[FirstCode(cls)] \in Supers[cls]
<1>1. CASE CodesOf(cls) # {}
  <2>1. CodesOf(cls) \in SUBSET Nat /\ IsFiniteSet(CodesOf(cls))
    BY PackerAssumption, FS_Subset DEF CodesOf
  <2>2. Max(CodesOf(cls)) \in CodesOf(cls)
    BY <1>1, <2>1, MaxIsMember
  <2>3. Table[FirstCode(cls)] = cls
    BY <1>1, <2>2, FirstCodeDef DEF CodesOf
  <2> QED BY <2>3, PackerAssumption
<1>2. CASE CodesOf(cls) = {}
  <2> DEFINE fitting == {k \in DOMAIN Table : Table[k] \in Supers[cls]}
  <2>1. FirstCode(cls) = IF fitting = {} THEN NoEntry ELSE Min(fitting)
    BY <1>2, FirstCodeDef DEF LongLookup
  <2>2. fitting # {}
    BY <2>1, PackerAssumption
  <2>3. Min(fitting) \in fitting
    BY <2>2, MinIsMember, PackerAssumption
  <2> QED BY <2>1, <2>2, <2>3
<1> QED BY <1>1, <1>2

\* A value is packed under the code that a new packer would give it, whatever was
\* packed before.
LEMMA PackHookFirst ==
  ASSUME CacheInv, NEW cls
  PROVE  PackHook(cache, cls) = FirstCode(cls)
<1>1. CASE cls \in DOMAIN cache
  BY <1>1 DEF CacheInv, CacheAgrees, PackHook
<1>2. CASE cls \notin DOMAIN cache
  <2>1. CodesOf(cls) = {}
    BY <1>2 DEF CacheInv, CodesOf
  <2> QED BY <1>2, <2>1, FirstCodeDef DEF PackHook
<1> QED BY <1>1, <1>2

\* Remembering what was found keeps the cache right.
LEMMA RememberAgrees ==
  ASSUME CacheInv, NEW cls, cache' = Remember(cache, cls)
  PROVE  CacheInv'
<1>1. DOMAIN cache' = DOMAIN cache \cup {cls}
  BY DEF Remember
<1>2. ASSUME NEW c \in DOMAIN cache'
      PROVE  cache'[c] = FirstCode(c)
  <2>1. CASE c = cls
    BY <1>1, <2>1, PackHookFirst DEF Remember
  <2>2. CASE c # cls
    BY <1>1, <2>2 DEF Remember, CacheInv, CacheAgrees
  <2> QED BY <2>1, <2>2
<1> QED BY <1>1, <1>2 DEF CacheInv, CacheAgrees

\* A new cache says what the table says.
LEMMA CacheInit == Init => CacheInv
<1> SUFFICES ASSUME Init PROVE CacheInv
  OBVIOUS
<1>1. cache = NewCache
  BY DEF Init
<1>2. DOMAIN cache = {Table[k] : k \in DOMAIN Table}
  BY <1>1 DEF NewCache
<1>3. ASSUME NEW cls \in DOMAIN cache
      PROVE  cache[cls] = FirstCode(cls)
  <2>1. CodesOf(cls) # {}
    BY <1>2 DEF CodesOf
  <2> QED BY <1>1, <1>2, <2>1, FirstCodeDef DEF NewCache
<1> QED BY <1>2, <1>3 DEF CacheInv, CacheAgrees

\* The cache of a packer makes no difference to what it answers: neither a subclass that
\* was packed first, nor a class that was not found, changes what becomes of
\* another one (ext_type_pack_hook).
THEOREM CacheHolds == Spec => []CacheAgrees(cache)
<1>1. Init => CacheInv
  BY CacheInit
<1>2. CacheInv /\ [Next]_vars => CacheInv'
  <2> SUFFICES ASSUME CacheInv, [Next]_vars PROVE CacheInv'
    OBVIOUS
  <2>1. CASE UNCHANGED cache
    BY <2>1 DEF CacheInv, CacheAgrees
  <2>2. CASE \E o \in Offers : Publish(o)
    BY <2>2, RememberAgrees DEF Publish
  <2>3. ~(\E o \in Offers : Publish(o)) => UNCHANGED cache
    BY DEF Next, vars, clientVars, SendForeign, CloseClient, LoseClient, LoseMessage, Serve,
           Subscribe, Unsubscribe, CloseServer, AbandonServer, LoseServer, Receive,
           EndCoroutine, ProcessCallResult
  <2> QED BY <2>1, <2>2, <2>3
<1>3. CacheInv => CacheAgrees(cache)
  BY DEF CacheInv
<1> QED BY <1>1, <1>2, <1>3, PTL DEF Spec

-----------------------------------------------------------------------------
(* The tasks of the server.                                                *)

\* A step that leaves messages and calls alone.
LEMMA OtherKeepTasks ==
  ASSUME TaskInv, UNCHANGED <<sent, net, call, pending>>,
         UNCHANGED <<server, abandoned>> \/ server' # "None"
  PROVE  TaskInv'
BY DEF TaskInv, Fresh, PendingKnown

\* A message that is written is new.
LEMMA WriteKeepsTasks ==
  ASSUME TaskInv, NEW m, NEW lost \in BOOLEAN, Write(m, lost),
         UNCHANGED <<call, pending, server, abandoned>>
  PROVE  TaskInv'
<1>1. /\ sent \in Nat /\ MaxMessages \in Nat /\ sent < MaxMessages
      /\ sent' = sent + 1 /\ sent' \in Messages
  BY OneWayAssumption DEF TaskInv, Fresh, Write, Messages
<1>2. net \in Seq(1..sent')
  BY <1>1 DEF TaskInv, Fresh
<1>3. CASE net' = net
  BY <1>1, <1>2, <1>3 DEF TaskInv, Fresh, PendingKnown
<1>4. CASE net' = Append(net, sent')
  <2>1. /\ net' \in Seq(1..sent') /\ Len(net') = Len(net) + 1
        /\ net'[Len(net')] = sent'
        /\ \A i \in 1..Len(net) : net'[i] = net[i] /\ net[i] \in 1..sent
    BY <1>1, <1>2, <1>4 DEF TaskInv, Fresh
  <2>2. call[sent'] = "none"
    BY <1>1 DEF TaskInv, Fresh
  <2>3. ASSUME NEW i \in 1..Len(net'), NEW j \in 1..Len(net'), i < j
        PROVE  net'[i] < net'[j]
    <3>1. Len(net) \in Nat /\ i \in 1..Len(net)
      BY <2>1, <2>3 DEF TaskInv, Fresh
    <3>2. CASE j \in 1..Len(net)
      BY <2>1, <2>3, <3>1, <3>2 DEF TaskInv, Fresh
    <3>3. CASE j = Len(net')
      BY <1>1, <2>1, <3>1, <3>3
    <3> QED BY <2>1, <3>1, <3>2, <3>3
  <2>4. \A i \in 1..Len(net') : call'[net'[i]] = "none"
    BY <2>1, <2>2 DEF TaskInv, Fresh
  <2>5. Fresh'
    BY <1>1, <2>1, <2>3, <2>4 DEF TaskInv, Fresh, Messages
  <2> QED BY <2>5 DEF TaskInv, PendingKnown
<1> QED BY <1>3, <1>4 DEF Write

\* The first message on its way, and those behind it.
LEMMA HeadIsFresh ==
  ASSUME TaskInv, net # <<>>
  PROVE  /\ Head(net) \in Messages /\ Head(net) <= sent
         /\ call[Head(net)] = "none"
         /\ Tail(net) \in Seq(1..sent) /\ Len(Tail(net)) = Len(net) - 1
         /\ \A i \in 1..Len(Tail(net)) : Tail(net)[i] = net[i + 1] /\ Tail(net)[i] # Head(net)
<1>1. sent \in Nat /\ MaxMessages \in Nat /\ sent <= MaxMessages
  BY OneWayAssumption DEF TaskInv, Fresh
<1>2. /\ Len(net) \in Nat /\ 1 \in 1..Len(net) /\ Head(net) = net[1]
      /\ \A i \in 1..Len(net) : net[i] \in 1..sent
      /\ Tail(net) \in Seq(1..sent) /\ Len(Tail(net)) = Len(net) - 1
      /\ \A i \in 1..Len(Tail(net)) : Tail(net)[i] = net[i + 1]
  BY DEF TaskInv, Fresh
<1>3. ASSUME NEW i \in 1..Len(Tail(net))
      PROVE  net[1] < net[i + 1]
  BY <1>2 DEF TaskInv, Fresh
<1>4. \A i \in 1..Len(Tail(net)) : Tail(net)[i] # Head(net)
  BY <1>1, <1>2, <1>3
<1> QED BY <1>1, <1>2, <1>4 DEF TaskInv, Fresh, Messages

\* When it is taken off, what is behind it is as fresh as before.
LEMMA TailIsFresh ==
  ASSUME TaskInv, net # <<>>, net' = Tail(net), UNCHANGED sent,
         \A n \in Messages \ {Head(net)} : call'[n] = call[n]
  PROVE  Fresh'
<1>1. sent \in Nat /\ MaxMessages \in Nat /\ sent <= MaxMessages
  BY OneWayAssumption DEF TaskInv, Fresh
<1>2. \A i \in 1..Len(net') :
        /\ i \in Nat /\ i + 1 \in 1..Len(net)
        /\ net'[i] = net[i + 1] /\ net'[i] # Head(net) /\ net'[i] \in Messages
  BY <1>1, HeadIsFresh DEF TaskInv, Fresh, Messages
<1>3. \A i, j \in 1..Len(net') : i < j => net'[i] < net'[j]
  BY <1>2 DEF TaskInv, Fresh
<1>4. \A i \in 1..Len(net') : call'[net'[i]] = "none"
  BY <1>2 DEF TaskInv, Fresh
<1>5. \A n \in Messages : n > sent' => call'[n] = "none"
  BY <1>1, HeadIsFresh DEF TaskInv, Fresh, Messages
<1> QED BY <1>3, <1>4, <1>5, HeadIsFresh DEF TaskInv, Fresh

\* A message is handled: the task of a coroutine is pending before anything
\* else can happen, and nothing else is.
LEMMA ReceiveKeepsTasks ==
  ASSUME TaskInv, Receive
  PROVE  TaskInv'
<1> DEFINE n == Head(net)
<1>1. /\ net # <<>> /\ net' = Tail(net)
      /\ UNCHANGED <<sent, server>> /\ server # "None"
  BY DEF Receive, clientVars
<1>2. n \in Messages /\ call[n] = "none" /\ n \notin pending
  BY <1>1, HeadIsFresh DEF TaskInv, PendingKnown
<1>3. CASE UNCHANGED <<call, pending>>
  BY <1>1, <1>3, TailIsFresh DEF TaskInv, PendingKnown
<1>4. CASE /\ call' = [call EXCEPT ![n] = "running"]
           /\ pending' = pending \cup {n}
  <2>1. /\ call' \in [Messages -> CallState] /\ call'[n] = "running"
        /\ \A k \in Messages \ {n} : call'[k] = call[k]
    BY <1>2, <1>4 DEF TaskInv, CallState
  <2>2. Fresh'
    BY <1>1, <2>1, TailIsFresh
  <2>3. PendingKnown'
    BY <1>1, <1>4, <2>1 DEF TaskInv, PendingKnown
  <2> QED BY <1>2, <1>4, <2>1, <2>2, <2>3 DEF TaskInv
<1>5. CASE /\ \E how \in {"raised", "ended"} : call' = [call EXCEPT ![n] = how]
           /\ UNCHANGED pending
  <2>1. /\ call' \in [Messages -> CallState] /\ call'[n] \in {"raised", "ended"}
        /\ \A k \in Messages \ {n} : call'[k] = call[k]
    BY <1>2, <1>5 DEF TaskInv, CallState
  <2>2. Fresh'
    BY <1>1, <2>1, TailIsFresh
  <2>3. PendingKnown'
    BY <1>1, <1>2, <1>5, <2>1 DEF TaskInv, PendingKnown
  <2> QED BY <1>5, <2>1, <2>2, <2>3 DEF TaskInv
<1> QED BY <1>3, <1>4, <1>5 DEF Receive, Handle, AddPending

\* Tasks end, and are discarded once they have ended.
LEMMA EndsKeepTasks ==
  ASSUME TaskInv, NEW n \in Messages, EndCoroutine(n) \/ ProcessCallResult(n)
  PROVE  TaskInv'
<1>1. UNCHANGED <<sent, net, server, abandoned>>
  BY DEF EndCoroutine, ProcessCallResult, clientVars
<1>2. /\ call' \in [Messages -> CallState] /\ call[n] # "none"
      /\ \A k \in Messages \ {n} : call'[k] = call[k]
  BY DEF TaskInv, CallState, EndCoroutine, ProcessCallResult
<1>3. Fresh'
  <2>1. sent \in Nat /\ MaxMessages \in Nat /\ sent <= MaxMessages
    BY OneWayAssumption DEF TaskInv, Fresh
  <2>2. \A i \in 1..Len(net) : net[i] \in Messages
    BY <2>1 DEF TaskInv, Fresh, Messages
  <2> QED BY <1>1, <1>2, <2>2 DEF TaskInv, Fresh
<1>4. CASE EndCoroutine(n)
  <2>1. call'[n] = "ended" /\ n \in pending /\ pending' = pending
    BY <1>4 DEF TaskInv, PendingKnown, EndCoroutine
  <2> QED BY <1>1, <1>2, <1>3, <2>1 DEF TaskInv, PendingKnown
<1>5. CASE ProcessCallResult(n)
  <2>1. call'[n] = "done" /\ pending' = pending \ {n}
    BY <1>5 DEF TaskInv, ProcessCallResult
  <2> QED BY <1>1, <1>2, <1>3, <2>1 DEF TaskInv, PendingKnown
<1> QED BY <1>4, <1>5

\* The end of the connection finds every task that runs, or leaves them all.
LEMMA LoseKeepsTasks ==
  ASSUME TaskInv, LoseServer
  PROVE  TaskInv'
<1>1. UNCHANGED <<sent, net, pending>> /\ server' = "None"
  BY DEF LoseServer, clientVars
<1>2. /\ call' \in [Messages -> CallState]
      /\ \A n \in Messages :
           /\ call[n] = "running" => call'[n] = IF abandoned THEN "running" ELSE "cancelling"
           /\ call[n] # "running" => call'[n] = call[n]
      /\ UNCHANGED abandoned
  BY DEF TaskInv, PendingKnown, CallState, LoseServer
<1>3. Fresh'
  <2>1. sent \in Nat /\ MaxMessages \in Nat /\ sent <= MaxMessages
    BY OneWayAssumption DEF TaskInv, Fresh
  <2>2. \A i \in 1..Len(net) : net[i] \in Messages
    BY <2>1 DEF TaskInv, Fresh, Messages
  <2> QED BY <1>1, <1>2, <2>2 DEF TaskInv, Fresh
<1> QED BY <1>1, <1>2, <1>3 DEF TaskInv, PendingKnown

\* pending_waiters has every task that runs and none that is over, in every
\* reachable state, so that the end of the connection cancels them all, unless a
\* wait_closed() was cancelled before it (add_pending, discard_pending, connection_lost).
THEOREM PendingKnownHolds == Spec => []PendingKnown
<1>1. Init => TaskInv
  <2> SUFFICES ASSUME Init PROVE TaskInv
    OBVIOUS
  <2>1. call \in [Messages -> CallState] /\ \A n \in Messages : call[n] = "none"
    BY DEF Init, CallState
  <2>2. Fresh
    BY <2>1, OneWayAssumption DEF Init, Fresh
  <2> QED BY <2>1, <2>2 DEF Init, TaskInv, PendingKnown
<1>2. TaskInv /\ [Next]_vars => TaskInv'
  <2> SUFFICES ASSUME TaskInv, [Next]_vars PROVE TaskInv'
    OBVIOUS
  <2>1. CASE UNCHANGED vars
    BY <2>1, OtherKeepTasks DEF vars, clientVars, serverVars
  <2>2. CASE \E o \in Offers : Publish(o)
    <3>1. PICK o \in Offers : Publish(o)
      BY <2>2
    <3>2. CASE UNCHANGED <<sent, msg, net>>
      BY <3>1, <3>2, OtherKeepTasks DEF Publish, serverVars
    <3>3. CASE \E lost \in BOOLEAN, m \in {[topic |-> o.topic, offer |-> o,
                   code |-> PackHook(cache, o.cls), body |-> o.body]} : Write(m, lost)
      BY <3>1, <3>3, WriteKeepsTasks DEF Publish, serverVars
    <3> QED BY <3>1, <3>2, <3>3 DEF Publish
  <2>3. CASE \E m \in Foreign : SendForeign(m)
    BY <2>3, WriteKeepsTasks DEF SendForeign, serverVars
  <2>4. CASE LoseMessage
    <3>1. net # <<>> /\ net' = Tail(net) /\ UNCHANGED <<sent, call, pending, server, abandoned>>
      BY <2>4 DEF LoseMessage, clientVars, serverVars
    <3>2. Fresh'
      BY <3>1, TailIsFresh
    <3> QED BY <3>1, <3>2 DEF TaskInv, PendingKnown
  <2>5. CASE Receive
    BY <2>5, ReceiveKeepsTasks
  <2>6. CASE \E n \in Messages : EndCoroutine(n) \/ ProcessCallResult(n)
    BY <2>6, EndsKeepTasks
  <2>7. CASE LoseServer
    BY <2>7, LoseKeepsTasks
  <2>8. CASE \/ CloseClient \/ LoseClient \/ CloseServer \/ AbandonServer
             \/ \E topics \in Plans : Serve(topics)
             \/ \E t \in Topics : Subscribe(t) \/ Unsubscribe(t)
    <3>1. UNCHANGED <<sent, net, call, pending>>
      BY <2>8 DEF CloseClient, LoseClient, CloseServer, AbandonServer, Serve, Subscribe, Unsubscribe,
                  clientVars, serverVars
    <3>2. UNCHANGED <<server, abandoned>> \/ server' # "None"
      BY <2>8 DEF CloseClient, LoseClient, CloseServer, AbandonServer, Serve, Subscribe, Unsubscribe,
                  serverVars
    <3> QED BY <3>1, <3>2, OtherKeepTasks
  <2> QED BY <2>1, <2>2, <2>3, <2>4, <2>5, <2>6, <2>7, <2>8 DEF Next
<1>3. TaskInv => PendingKnown
  BY DEF TaskInv
<1> QED BY <1>1, <1>2, <1>3, PTL DEF Spec

-----------------------------------------------------------------------------
(* The books.                                                              *)

\* The long lookup finds a code of the table, or none.
LEMMA LongLookupType ==
  ASSUME NEW cls PROVE LongLookup(cls) \in DOMAIN Table \cup {NoEntry}
<1> DEFINE fitting == {k \in DOMAIN Table : Table[k] \in Supers[cls]}
<1>1. fitting \in SUBSET Nat
  BY PackerAssumption
<1>2. fitting # {} => Min(fitting) \in fitting
  BY <1>1, MinIsMember
<1> QED BY <1>2 DEF LongLookup

\* What the types of the cache are.
CacheType ==
  \A cls \in DOMAIN cache : cls \in Classes /\ cache[cls] \in DOMAIN Table \cup {NoEntry}

LEMMA NewCacheType == Init => CacheType
<1> SUFFICES ASSUME Init PROVE CacheType
  OBVIOUS
<1>1. cache = NewCache
  BY DEF Init
<1>2. DOMAIN cache = {Table[k] : k \in DOMAIN Table}
  BY <1>1 DEF NewCache
<1>3. ASSUME NEW cls \in DOMAIN cache
      PROVE  cls \in Classes /\ cache[cls] \in DOMAIN Table
  <2>1. CodesOf(cls) \in SUBSET DOMAIN Table /\ CodesOf(cls) # {}
    BY <1>2 DEF CodesOf
  <2>2. CodesOf(cls) \in SUBSET Nat /\ IsFiniteSet(CodesOf(cls))
    BY <2>1, PackerAssumption, FS_Subset
  <2>3. Max(CodesOf(cls)) \in CodesOf(cls)
    BY <2>1, <2>2, MaxIsMember
  <2>4. cache[cls] = Max(CodesOf(cls))
    BY <1>1, <1>2 DEF NewCache
  <2>5. cls \in Classes
    BY <1>2, PackerAssumption
  <2> QED BY <2>1, <2>3, <2>4, <2>5
<1> QED BY <1>3 DEF CacheType

LEMMA RememberType ==
  ASSUME CacheType, NEW cls \in Classes, cache' = Remember(cache, cls)
  PROVE  CacheType' /\ PackHook(cache, cls) \in DOMAIN Table \cup {NoEntry}
<1>1. PackHook(cache, cls) \in DOMAIN Table \cup {NoEntry}
  BY LongLookupType DEF PackHook, CacheType
<1>2. DOMAIN cache' = DOMAIN cache \cup {cls}
  BY DEF Remember
<1>3. \A c \in DOMAIN cache' : cache'[c] = IF c = cls THEN PackHook(cache, cls) ELSE cache[c]
  BY DEF Remember
<1> QED BY <1>1, <1>2, <1>3 DEF CacheType

\* What is on its way, and what it says.
WireType ==
  /\ sent \in 0..MaxMessages /\ msg \in Seq(Message \cup Foreign) /\ Len(msg) = sent
  /\ net \in Seq(1..sent)

LEMMA WriteType ==
  ASSUME WireType, NEW m \in Message \cup Foreign, NEW lost \in BOOLEAN, Write(m, lost)
  PROVE  WireType'
<1>1. sent \in Nat /\ MaxMessages \in Nat /\ sent' = sent + 1 /\ sent < MaxMessages
  BY OneWayAssumption DEF WireType, Write
<1>2. msg' = Append(msg, m) /\ msg \in Seq(Message \cup Foreign)
  BY DEF WireType, Write
<1>3. msg' \in Seq(Message \cup Foreign) /\ Len(msg') = sent'
  BY <1>1, <1>2 DEF WireType
<1>4. net \in Seq(1..sent') /\ sent' \in 1..sent'
  BY <1>1 DEF WireType
<1>5. net' \in Seq(1..sent')
  <2>1. Append(net, sent') \in Seq(1..sent')
    BY <1>4, AppendProperties
  <2> QED BY <1>4, <2>1 DEF Write
<1>6. sent' \in 0..MaxMessages
  BY <1>1
<1> QED BY <1>3, <1>5, <1>6 DEF WireType

\* What becomes of a message at the server.
RunType ==
  /\ call \in [Messages -> CallState] /\ pending \subseteq Messages
  /\ came \in [Messages -> Classes \cup {NoEntry}]

LEMMA UnpackHookType ==
  ASSUME NEW code PROVE UnpackHook(ServerCodes, code) \in Classes \cup {NoEntry}
BY PackerAssumption, OneWayAssumption DEF UnpackHook

LEMMA HandleType ==
  ASSUME RunType, NEW n \in Messages, NEW m, Handle(n, m) PROVE RunType'
<1>1. CASE \/ UNCHANGED <<came, pending>>
           \/ /\ came' = [came EXCEPT ![n] = UnpackHook(ServerCodes, m.code)]
              /\ pending' \subseteq pending \cup {n}
  <2>1. pending' \subseteq Messages /\ came' \in [Messages -> Classes \cup {NoEntry}]
    BY <1>1, UnpackHookType DEF RunType
  <2>2. PICK how \in CallState : call' = [call EXCEPT ![n] = how]
    BY DEF Handle, AddPending, CallState
  <2> QED BY <2>1, <2>2 DEF RunType
<1>2. \/ UNCHANGED <<came, pending>>
      \/ /\ came' = [came EXCEPT ![n] = UnpackHook(ServerCodes, m.code)]
         /\ pending' \subseteq pending \cup {n}
  BY DEF Handle, AddPending
<1> QED BY <1>1, <1>2

\* The rest.
EndsType ==
  /\ kind \in Kinds /\ client \in {"open", "closing", "None"}
  /\ server \in {"none", "open", "closing", "None"}
  /\ held \in BOOLEAN /\ abandoned \in BOOLEAN
  /\ subs \in [Topics -> 0..MaxFilters]

LEMMA TypeSplit == TypeOK <=> EndsType /\ CacheType /\ WireType /\ RunType
BY DEF TypeOK, EndsType, CacheType, WireType, RunType

LEMMA EndsTypeStep == ASSUME EndsType, [Next]_vars PROVE EndsType'
<1>1. CASE UNCHANGED <<kind, client, server, held, abandoned, subs>>
  BY <1>1 DEF EndsType
<1>2. ASSUME NEW topics \in Plans, Serve(topics) PROVE EndsType'
  <2>1. subs' \in [Topics -> 0..MaxFilters]
    <3>1. 0 \in 0..MaxFilters /\ 1 \in 0..MaxFilters
      BY OneWayAssumption
    <3> QED BY <1>2, <3>1 DEF Serve, EndsType
  <2>2. held' \in BOOLEAN
    BY <1>2 DEF Serve
  <2> QED BY <1>2, <2>1, <2>2 DEF Serve, EndsType, clientVars
<1>3. ASSUME NEW t \in Topics, Subscribe(t) \/ Unsubscribe(t) PROVE EndsType'
  <2>1. subs[t] \in Nat /\ subs[t] <= MaxFilters /\ MaxFilters \in Nat
    BY OneWayAssumption DEF EndsType
  <2>2. subs' \in [Topics -> 0..MaxFilters]
    BY <1>3, <2>1 DEF Subscribe, Unsubscribe, EndsType
  <2> QED BY <1>3, <2>2 DEF Subscribe, Unsubscribe, EndsType, clientVars
<1>4. CASE CloseClient \/ LoseClient \/ CloseServer \/ AbandonServer \/ LoseServer
  BY <1>4 DEF CloseClient, LoseClient, CloseServer, AbandonServer, LoseServer, EndsType, clientVars,
              serverVars
<1>5. CASE UNCHANGED vars \/ LoseMessage \/ Receive
  BY <1>1, <1>5 DEF vars, LoseMessage, Receive, clientVars, serverVars
<1>6. CASE \/ \E o \in Offers : Publish(o)
           \/ \E m \in Foreign : SendForeign(m)
           \/ \E n \in Messages : EndCoroutine(n) \/ ProcessCallResult(n)
  BY <1>1, <1>6 DEF Publish, SendForeign, EndCoroutine, ProcessCallResult, clientVars, serverVars
<1> QED BY <1>2, <1>3, <1>4, <1>5, <1>6 DEF Next

LEMMA TypeNext == ASSUME TypeOK, [Next]_vars PROVE TypeOK'
<1>0. CacheType /\ WireType /\ RunType /\ EndsType'
  BY TypeSplit, EndsTypeStep
<1>1. CASE UNCHANGED <<cache, sent, msg, net, call, came, pending>>
  BY <1>0, <1>1 DEF TypeOK, EndsType, CacheType, WireType, RunType
<1>2. ASSUME NEW o \in Offers, Publish(o) PROVE TypeOK'
  <2>1. /\ o.cls \in Classes /\ cache' = Remember(cache, o.cls)
        /\ UNCHANGED <<call, came, pending>>
    BY <1>2, OneWayAssumption DEF Publish, serverVars
  <2>2. CacheType' /\ PackHook(cache, o.cls) \in DOMAIN Table \cup {NoEntry}
    BY <1>0, <2>1, RememberType
  <2> DEFINE m == [topic |-> o.topic, offer |-> o, code |-> PackHook(cache, o.cls),
                   body |-> o.body]
  <2>3. CASE UNCHANGED <<sent, msg, net>>
    BY <1>0, <2>1, <2>2, <2>3, TypeSplit DEF WireType, RunType, TypeOK, EndsType, CacheType
  <2>4. ASSUME PackHook(cache, o.cls) # NoEntry, NEW lost \in BOOLEAN, Write(m, lost)
        PROVE  TypeOK'
    <3>1. m \in Message \cup Foreign
      BY <2>2, <2>4, OneWayAssumption DEF Message
    <3>2. WireType'
      <4> HIDE DEF m
      <4> QED BY <1>0, <2>4, <3>1, WriteType
    <3> QED BY <1>0, <2>1, <2>2, <3>2 DEF RunType, WireType, TypeOK, EndsType, CacheType
  <2> QED BY <1>2, <2>3, <2>4 DEF Publish
<1>3. ASSUME NEW m \in Foreign, SendForeign(m) PROVE TypeOK'
  <2>1. WireType'
    BY <1>0, <1>3, WriteType DEF SendForeign
  <2> QED BY <1>0, <1>3, <2>1
          DEF SendForeign, serverVars, RunType, WireType, TypeOK, EndsType, CacheType
<1>4. CASE LoseMessage
  <2>1. net' \in Seq(1..sent')
    BY <1>0, <1>4 DEF LoseMessage, WireType, clientVars
  <2> QED BY <1>0, <1>4, <2>1
          DEF LoseMessage, clientVars, serverVars, RunType, WireType, TypeOK, EndsType, CacheType
<1>5. CASE Receive
  <2>1. sent \in 0..MaxMessages /\ MaxMessages \in Nat /\ net \in Seq(1..sent) /\ net # <<>>
    BY <1>0, <1>5, OneWayAssumption DEF WireType, Receive
  <2>2. Head(net) \in Messages /\ Tail(net) \in Seq(1..sent)
    BY <2>1 DEF Messages
  <2>3. RunType'
    <3>1. CASE Handle(Head(net), msg[Head(net)])
      BY <1>0, <2>2, <3>1, HandleType
    <3>2. CASE UNCHANGED <<call, ran, came, pending>>
      BY <1>0, <3>2 DEF RunType
    <3> QED BY <1>5, <3>1, <3>2 DEF Receive
  <2> QED BY <1>0, <1>5, <2>2, <2>3
          DEF Receive, clientVars, RunType, WireType, TypeOK, EndsType, CacheType
<1>6. ASSUME \/ \E n \in Messages : EndCoroutine(n) \/ ProcessCallResult(n)
             \/ LoseServer
      PROVE  TypeOK'
  <2>1. RunType'
    <3>1. CASE LoseServer
      BY <1>0, <3>1 DEF LoseServer, RunType, CallState
    <3>2. ASSUME NEW n \in Messages, EndCoroutine(n) \/ ProcessCallResult(n)
          PROVE  RunType'
      BY <1>0, <3>2 DEF EndCoroutine, ProcessCallResult, RunType, CallState
    <3> QED BY <1>6, <3>1, <3>2
  <2>2. UNCHANGED <<cache, sent, msg, net>>
    BY <1>6 DEF EndCoroutine, ProcessCallResult, LoseServer, clientVars
  <2> QED BY <1>0, <2>1, <2>2 DEF RunType, WireType, TypeOK, EndsType, CacheType
<1>7. CASE \/ UNCHANGED vars \/ CloseClient \/ LoseClient \/ CloseServer \/ AbandonServer
           \/ \E topics \in Plans : Serve(topics)
           \/ \E t \in Topics : Subscribe(t) \/ Unsubscribe(t)
  BY <1>1, <1>7 DEF vars, CloseClient, LoseClient, CloseServer, AbandonServer, Serve, Subscribe, Unsubscribe,
                    clientVars, serverVars
<1> QED BY <1>2, <1>3, <1>4, <1>5, <1>6, <1>7 DEF Next

LEMMA TypeInit == Init => TypeOK
<1> SUFFICES ASSUME Init PROVE TypeOK
  OBVIOUS
<1>1. WireType /\ RunType /\ EndsType
  <2>1. 0 \in 0..MaxMessages
    BY OneWayAssumption
  <2>2. <<>> \in Seq(Message \cup Foreign) /\ Len(<<>>) = 0 /\ <<>> \in Seq(1..0)
    OBVIOUS
  <2>3. 0 \in 0..MaxFilters
    BY OneWayAssumption
  <2> QED BY <2>1, <2>2, <2>3 DEF Init, WireType, RunType, EndsType, CallState
<1> QED BY <1>1, NewCacheType, TypeSplit

LEMMA TypeAlways == Spec => []TypeOK
<1>1. Init => TypeOK
  BY TypeInit
<1>2. TypeOK /\ [Next]_vars => TypeOK'
  BY TypeNext
<1> QED BY <1>1, <1>2, PTL DEF Spec

\* The variables keep their types, and the cache its agreement with the table
\* (publish, notify, serve_pubsub, serve_pipeline, ext_type_pack_hook).
THEOREM BooksHold == Spec => []Books
<1>1. TypeOK /\ CacheAgrees(cache) => Books
  BY DEF Books
<1> QED BY <1>1, TypeAlways, CacheHolds, PTL
-----------------------------------------------------------------------------
(* dispatch().                                                             *)

\* Induction, over a set of numbers.
LEMMA AllNumbers ==
  ASSUME NEW P \in SUBSET Nat, 0 \in P, \A k \in P : k + 1 \in P
  PROVE  \A k \in Nat : k \in P
<1> SUFFICES ASSUME NEW k \in Nat, k \notin P PROVE FALSE
  OBVIOUS
<1> DEFINE Missing == Nat \ P
<1>1. PICK n \in Missing : \A m \in Missing : n <= m
  BY Smallest
<1>2. n \in Nat /\ n # 0
  BY <1>1
<1>3. n - 1 \in Nat /\ n - 1 < n /\ (n - 1) + 1 = n
  BY <1>2
<1>4. n - 1 \in P
  BY <1>1, <1>3
<1> QED BY <1>1, <1>3, <1>4

\* What is found namespace by namespace.
Steps(w, spaces) ==
  w[0] = Root /\ \A i \in 1..Len(spaces) : w[i] = Enter(w[i - 1], spaces[i])

\* Walk takes these steps: the recursive function exists, up to every length.
LEMMA WalkSteps ==
  ASSUME NEW spaces, Len(spaces) \in Nat
  PROVE  \E w : Steps(w, spaces) /\ Walk(spaces) = w[Len(spaces)]
<1> DEFINE Walks(w, k) ==
             w = [i \in 0..k |-> IF i = 0 THEN Root ELSE Enter(w[i - 1], spaces[i])]
           P == {k \in Nat : \E w : Walks(w, k)}
           n == Len(spaces)
<1>1. 0 \in P
  <2>1. Walks([i \in 0..0 |-> Root], 0)
    OBVIOUS
  <2> HIDE DEF Walks
  <2> QED BY <2>1
<1>2. ASSUME NEW k \in P PROVE k + 1 \in P
  <2>1. PICK w : Walks(w, k)
    OBVIOUS
  <2> DEFINE v == [i \in 0..(k + 1) |-> IF i = 0 THEN Root ELSE Enter(w[i - 1], spaces[i])]
  <2>2. k \in Nat
    OBVIOUS
  <2>3. \A i \in 0..k : w[i] = IF i = 0 THEN Root ELSE Enter(w[i - 1], spaces[i])
    BY <2>1
  <2>4. \A i \in 0..k : v[i] = w[i]
    BY <2>2, <2>3
  <2>5. \A i \in 0..(k + 1) : i # 0 => v[i - 1] = w[i - 1]
    <3> HIDE DEF v
    <3> QED BY <2>2, <2>4
  <2>6. Walks(v, k + 1)
    BY <2>5
  <2> HIDE DEF Walks, v
  <2> QED BY <2>2, <2>6
<1>3. n \in P
  <2> HIDE DEF P, n
  <2>1. P \in SUBSET Nat
    BY DEF P
  <2>2. n \in Nat
    BY DEF n
  <2> QED BY <1>1, <1>2, <2>1, <2>2, AllNumbers
<1> DEFINE w == CHOOSE u : Walks(u, n)
<1>4. Walks(w, n)
  <2>1. PICK u : Walks(u, n)
    BY <1>3
  <2> HIDE DEF Walks
  <2> QED BY <2>1
<1>5. Walk(spaces) = w[n]
  BY DEF Walk
<1> HIDE DEF w
<1>6. Steps(w, spaces)
  BY <1>4 DEF Steps
<1> QED BY <1>5, <1>6

\* It ends at a handler or with an exception, and at a handler only by an entry of
\* each handler before.
LEMMA WalkEnds ==
  ASSUME NEW w, NEW spaces, Steps(w, spaces), NEW n \in Nat, n <= Len(spaces), Len(spaces) \in Nat
  PROVE  /\ w[n] \in Handlers \cup {"TypeError", "NotFoundError"}
         /\ w[n] \in Handlers =>
              \A i \in 1..n : /\ w[i - 1] \in Handlers
                              /\ <<w[i - 1], spaces[i]>> \in DOMAIN Item
                              /\ Item[<<w[i - 1], spaces[i]>>] = w[i]
<1> DEFINE Entry(i) == /\ w[i - 1] \in Handlers
                       /\ <<w[i - 1], spaces[i]>> \in DOMAIN Item
                       /\ Item[<<w[i - 1], spaces[i]>>] = w[i]
           Ends(k) == /\ w[k] \in Handlers \cup {"TypeError", "NotFoundError"}
                      /\ w[k] \in Handlers => \A i \in 1..k : Entry(i)
           P == {k \in Nat : k <= Len(spaces) => Ends(k)}
<1>1. 0 \in P
  <2>1. Ends(0)
    BY DispatchAssumption DEF Steps
  <2> QED BY <2>1
<1>2. ASSUME NEW k \in P PROVE k + 1 \in P
  <2> SUFFICES ASSUME k + 1 <= Len(spaces) PROVE Ends(k + 1)
    OBVIOUS
  <2>1. k \in Nat /\ k + 1 \in 1..Len(spaces) /\ (k + 1) - 1 = k
    BY <1>2
  <2>2. Ends(k)
    <3> HIDE DEF Ends
    <3> QED BY <2>1
  <2>3. w[k + 1] = Enter(w[k], spaces[k + 1])
    BY <2>1 DEF Steps
  <2>4. w[k + 1] \in Handlers \cup {"TypeError", "NotFoundError"}
    BY <2>2, <2>3 DEF Enter
  <2>5. w[k + 1] \in Handlers => w[k] \in Handlers /\ Entry(k + 1)
    <3>1. w[k + 1] \in Handlers => w[k] \in Handlers
      BY <2>3 DEF Enter
    <3>2. w[k + 1] \in Handlers /\ w[k] \in Handlers => w[k + 1] = Lookup(w[k], spaces[k + 1])
      BY <2>3, DispatchAssumption DEF Enter
    <3>3. w[k + 1] \in Handlers => w[k + 1] \notin {"TypeError", "NotFoundError"}
      BY DispatchAssumption
    <3> QED BY <2>1, <3>1, <3>2, <3>3 DEF Lookup
  <2>6. \A i \in 1..(k + 1) : i \in 1..k \/ i = k + 1
    BY <2>1
  <2> HIDE DEF Entry
  <2> QED BY <2>2, <2>4, <2>5, <2>6
<1>3. n \in P
  <2> HIDE DEF P
  <2>1. P \in SUBSET Nat
    BY DEF P
  <2> QED BY <1>1, <1>2, <2>1, AllNumbers
<1> QED BY <1>3

\* A chain of handlers is what the walk finds.
LEMMA WalkFollows ==
  ASSUME NEW w, NEW spaces, Steps(w, spaces), Len(spaces) \in Nat,
         NEW chain, chain[0] = Root,
         \A i \in 1..Len(spaces) :
           /\ chain[i] \in Handlers
           /\ <<chain[i - 1], spaces[i]>> \in DOMAIN Item
           /\ Item[<<chain[i - 1], spaces[i]>>] = chain[i]
  PROVE  w[Len(spaces)] = chain[Len(spaces)]
<1> DEFINE P == {k \in Nat : k <= Len(spaces) => w[k] = chain[k]}
<1>1. 0 \in P
  BY DEF Steps
<1>2. ASSUME NEW k \in P PROVE k + 1 \in P
  <2> SUFFICES ASSUME k + 1 <= Len(spaces) PROVE w[k + 1] = chain[k + 1]
    OBVIOUS
  <2>1. k \in Nat /\ k + 1 \in 1..Len(spaces) /\ (k + 1) - 1 = k /\ w[k] = chain[k]
    BY <1>2
  <2>2. w[k + 1] = Enter(chain[k], spaces[k + 1])
    BY <2>1 DEF Steps
  <2>3. chain[k] \in Handlers
    <3>1. CASE k = 0
      BY <3>1, DispatchAssumption
    <3>2. CASE k # 0
      <4>1. k \in 1..Len(spaces)
        BY <2>1, <3>2
      <4> QED BY <4>1
    <3> QED BY <3>1, <3>2
  <2>4. Lookup(chain[k], spaces[k + 1]) = chain[k + 1] /\ chain[k + 1] \in Handlers
    BY <2>1 DEF Lookup
  <2> QED BY <2>2, <2>3, <2>4 DEF Enter
<1>3. Len(spaces) \in P
  <2> HIDE DEF P
  <2>1. P \in SUBSET Nat
    BY DEF P
  <2> QED BY <1>1, <1>2, <2>1, AllNumbers
<1> QED BY <1>3

\* The namespaces of a name and its last part, as dispatch() takes them apart.
Splits(name, spaces, path) ==
  /\ Len(spaces) \in Nat /\ path \in Seq(Parts) /\ Len(path) = Len(spaces) + 1
  /\ \A i \in 1..Len(spaces) : spaces[i] = path[i]
  /\ Dispatch(name) = IF name = <<Blank>> THEN "NotFoundError"
                      ELSE IF Walk(spaces) \notin Handlers THEN Walk(spaces)
                      ELSE Callee(Lookup(Walk(spaces), path[Len(path)]))
  /\ \A f : AnswersTo(name, f) <=> name # <<Blank>> /\ Leads(path, f)

LEMMA NameSplits ==
  ASSUME NEW name \in Seq(Parts), name # <<>>
  PROVE  \E spaces, path : Splits(name, spaces, path)
<1>1. /\ Len(name) \in Nat /\ Len(name) >= 1
      /\ Len(Front(name)) = Len(name) - 1
      /\ \A i \in 1..(Len(name) - 1) : Front(name)[i] = name[i]
      /\ Front(name) \in Seq(Parts) /\ Head(name) = name[1]
  <2>1. PICK k \in Nat : Len(name) = k + 1
    <3>1. Len(name) \in Nat /\ Len(name) # 0
      OBVIOUS
    <3>2. Len(name) - 1 \in Nat /\ Len(name) = (Len(name) - 1) + 1
      BY <3>1
    <3> QED BY <3>2
  <2>2. k \in Int /\ 1 \in Int /\ Len(name) - 1 = k /\ Len(name) \in Nat /\ Len(name) >= 1
    BY <2>1
  <2>3. \A i \in 1..k : name[i] \in Parts
    BY <2>1
  <2>4. /\ Front(name) \in Seq(Parts) /\ Len(Front(name)) = IF 1 <= k THEN k - 1 + 1 ELSE 0
        /\ \A i \in 1..(k - 1 + 1) : Front(name)[i] = name[1 + i - 1]
    BY <2>2, <2>3, SubSeqProperties DEF Front
  <2>5. (IF 1 <= k THEN k - 1 + 1 ELSE 0) = k /\ k - 1 + 1 = k /\ \A i \in 1..k : 1 + i - 1 = i
    BY <2>1
  <2>6. Len(Front(name)) = k /\ \A i \in 1..k : Front(name)[i] = name[i]
    BY <2>4, <2>5
  <2>7. Head(name) = name[1]
    OBVIOUS
  <2> QED BY <2>2, <2>4, <2>6, <2>7
<1>2. CASE Len(name) = 2 /\ Head(name) = Blank
  <2>1. Front(name) = <<Blank>>
    <3>1. Len(Front(name)) = 1 /\ Front(name)[1] = Blank /\ <<Blank>> \in Seq(Parts)
      BY <1>1, <1>2, DispatchAssumption
    <3>2. Len(<<Blank>>) = 1 /\ \A i \in 1..1 : <<Blank>>[i] = Blank /\ i = 1
      OBVIOUS
    <3> QED BY <1>1, <3>1, <3>2, SeqEqual
  <2>2. name # <<Blank>>
    BY <1>2
  <2>3. Tail(name) \in Seq(Parts) /\ Len(Tail(name)) = 1 /\ Tail(name)[1] = name[2]
    BY <1>2
  <2>4. Last(name) = Tail(name)[Len(Tail(name))]
    BY <1>2, <2>3 DEF Last
  <2>5. \A f : AnswersTo(name, f) <=> Leads(Tail(name), f)
    BY <1>2 DEF AnswersTo
  <2>6. Dispatch(name) = IF Walk(<<>>) \notin Handlers THEN Walk(<<>>)
                         ELSE Callee(Lookup(Walk(<<>>), Tail(name)[Len(Tail(name))]))
    BY <2>1, <2>2, <2>4 DEF Dispatch
  <2>7. Len(<<>>) \in Nat /\ Len(<<>>) = 0 /\ \A i \in 1..Len(<<>>) : FALSE
    OBVIOUS
  <2>8. Splits(name, <<>>, Tail(name))
    <3> DEFINE none == <<>>
    <3>1. Len(none) \in Nat /\ Len(Tail(name)) = Len(none) + 1
      BY <2>3, <2>7
    <3>2. \A i \in 1..Len(none) : none[i] = Tail(name)[i]
      BY <2>7
    <3> HIDE DEF none
    <3>3. Splits(name, none, Tail(name))
      BY <2>2, <2>3, <2>5, <2>6, <3>1, <3>2 DEF Splits, none
    <3> QED BY <3>3 DEF none
  <2> QED BY <2>8
<1>3. CASE ~(Len(name) = 2 /\ Head(name) = Blank)
  <2>1. Front(name) # <<Blank>>
    <3> SUFFICES ASSUME Front(name) = <<Blank>> PROVE FALSE
      OBVIOUS
    <3>1. Len(<<Blank>>) = 1 /\ <<Blank>>[1] = Blank
      OBVIOUS
    <3>2. Len(name) - 1 = 1 /\ 1 \in 1..(Len(name) - 1)
      <4>1. Len(Front(name)) = 1
        BY <3>1
      <4>2. Len(name) - 1 = 1
        BY <1>1, <4>1
      <4> QED BY <4>2
    <3>3. name[1] = Blank
      BY <1>1, <3>1, <3>2
    <3>4. Len(name) = 2
      BY <1>1, <3>2
    <3> QED BY <1>1, <1>3, <3>3, <3>4
  <2>2. \A f : AnswersTo(name, f) <=> name # <<Blank>> /\ Leads(name, f)
    BY <1>3 DEF AnswersTo
  <2>3. Dispatch(name) = IF name = <<Blank>> THEN "NotFoundError"
                         ELSE IF Walk(Front(name)) \notin Handlers THEN Walk(Front(name))
                         ELSE Callee(Lookup(Walk(Front(name)), name[Len(name)]))
    BY <2>1 DEF Dispatch, Last
  <2>4. Splits(name, Front(name), name)
    BY <1>1, <2>2, <2>3 DEF Splits
  <2> QED BY <2>4
<1> QED BY <1>2, <1>3

\* What dispatch() returns answers to the name.
LEMMA DispatchSound ==
  ASSUME NEW name \in Seq(Parts), name # <<>>,
         Dispatch(name) \notin {"NotFoundError", "TypeError"}
  PROVE  Dispatch(name) \in Marked /\ AnswersTo(name, Dispatch(name))
<1>1. PICK spaces, path : Splits(name, spaces, path)
  BY NameSplits
<1>2. PICK w : Steps(w, spaces) /\ Walk(spaces) = w[Len(spaces)]
  BY <1>1, WalkSteps DEF Splits
<1> DEFINE n == Len(spaces)
           f == Dispatch(name)
           chain == [i \in 0..(n + 1) |-> IF i = n + 1 THEN f ELSE w[i]]
<1>3. n \in Nat /\ n <= Len(spaces) /\ Len(path) = n + 1
  BY <1>1 DEF Splits
<1>4. w[n] \in Handlers \cup {"TypeError", "NotFoundError"}
  <2> HIDE DEF n
  <2> QED BY <1>1, <1>2, <1>3, WalkEnds DEF Splits
<1>5. name # <<Blank>> /\ w[n] \in Handlers /\ f = Callee(Lookup(w[n], path[n + 1]))
  BY <1>1, <1>2, <1>3, <1>4 DEF Splits
<1>6. f \in Marked /\ f = Lookup(w[n], path[n + 1])
  BY <1>5 DEF Callee
<1>7. <<w[n], path[n + 1]>> \in DOMAIN Item /\ Item[<<w[n], path[n + 1]>>] = f
  BY <1>6, DispatchAssumption DEF Lookup
<1>8. \A i \in 1..n : /\ w[i - 1] \in Handlers
                      /\ <<w[i - 1], spaces[i]>> \in DOMAIN Item
                      /\ Item[<<w[i - 1], spaces[i]>>] = w[i]
  <2>1. n \in Nat /\ n <= Len(spaces) /\ Len(spaces) \in Nat /\ w[n] \in Handlers
    BY <1>3, <1>5
  <2> HIDE DEF n
  <2> QED BY <1>2, <2>1, WalkEnds
<1>9. \A i \in 0..n : w[i] \in Handlers
  <2>1. ASSUME NEW i \in 0..n PROVE w[i] \in Handlers
    <3>1. CASE i = n
      BY <1>5, <3>1
    <3>2. CASE i # n
      <4>1. i + 1 \in 1..n /\ (i + 1) - 1 = i
        BY <1>3, <3>2
      <4> QED BY <1>8, <4>1
    <3> QED BY <3>1, <3>2
  <2> QED BY <2>1
<1>10. chain \in [0..(n + 1) -> Handlers \cup Marked]
  BY <1>3, <1>6, <1>9
<1>11. chain[0] = Root /\ chain[n + 1] = f
  BY <1>2, <1>3 DEF Steps
<1>12. ASSUME NEW i \in 1..(n + 1)
       PROVE  /\ chain[i - 1] \in Handlers
              /\ <<chain[i - 1], path[i]>> \in DOMAIN Item
              /\ Item[<<chain[i - 1], path[i]>>] = chain[i]
  <2>1. i - 1 \in 0..n /\ chain[i - 1] = w[i - 1]
    BY <1>3
  <2>2. CASE i = n + 1
    <3>1. i - 1 = n /\ chain[i - 1] = w[n] /\ chain[i] = f
      BY <1>3, <1>11, <2>1, <2>2
    <3> HIDE DEF chain
    <3> QED BY <1>5, <1>7, <2>2, <3>1
  <2>3. CASE i # n + 1
    <3>1. i \in 1..n /\ i \in 1..Len(spaces) /\ chain[i] = w[i]
      BY <1>3, <2>3
    <3>2. path[i] = spaces[i]
      BY <1>1, <3>1 DEF Splits
    <3> QED BY <1>8, <2>1, <3>1, <3>2
  <2> QED BY <2>2, <2>3
<1> HIDE DEF chain, f, n
<1>13. Leads(path, f)
  BY <1>3, <1>6, <1>10, <1>11, <1>12 DEF Leads
<1> QED BY <1>1, <1>5, <1>6, <1>13 DEF Splits, f

\* And it finds what answers to the name.
LEMMA DispatchComplete ==
  ASSUME NEW name \in Seq(Parts), name # <<>>, NEW f \in Marked, AnswersTo(name, f)
  PROVE  Dispatch(name) = f
<1>1. PICK spaces, path : Splits(name, spaces, path)
  BY NameSplits
<1>2. PICK w : Steps(w, spaces) /\ Walk(spaces) = w[Len(spaces)]
  BY <1>1, WalkSteps DEF Splits
<1> DEFINE n == Len(spaces)
<1>3. n \in Nat /\ Len(path) = n + 1 /\ name # <<Blank>> /\ Leads(path, f)
  BY <1>1 DEF Splits
<1>4. PICK chain \in [0..(n + 1) -> Handlers \cup Marked] :
        /\ chain[0] = Root /\ chain[n + 1] = f
        /\ \A i \in 1..(n + 1) : /\ chain[i - 1] \in Handlers
                                 /\ <<chain[i - 1], path[i]>> \in DOMAIN Item
                                 /\ Item[<<chain[i - 1], path[i]>>] = chain[i]
  BY <1>3 DEF Leads
<1>5. \A i \in 1..n : /\ chain[i] \in Handlers
                      /\ <<chain[i - 1], spaces[i]>> \in DOMAIN Item
                      /\ Item[<<chain[i - 1], spaces[i]>>] = chain[i]
  <2>1. ASSUME NEW i \in 1..n
        PROVE  /\ chain[i] \in Handlers
               /\ <<chain[i - 1], spaces[i]>> \in DOMAIN Item
               /\ Item[<<chain[i - 1], spaces[i]>>] = chain[i]
    <3>1. i \in 1..(n + 1) /\ i + 1 \in 1..(n + 1) /\ (i + 1) - 1 = i /\ i \in 1..Len(spaces)
      BY <1>3
    <3>2. path[i] = spaces[i]
      BY <1>1, <3>1 DEF Splits
    <3> QED BY <1>4, <3>1, <3>2
  <2> QED BY <2>1
<1>6. w[n] = chain[n]
  BY <1>2, <1>3, <1>4, <1>5, WalkFollows
<1>7. n + 1 \in 1..(n + 1) /\ (n + 1) - 1 = n
  BY <1>3
<1>8. w[n] \in Handlers /\ Lookup(w[n], path[n + 1]) = f
  BY <1>4, <1>6, <1>7 DEF Lookup
<1> QED BY <1>1, <1>2, <1>3, <1>8 DEF Splits, Callee

-----------------------------------------------------------------------------
(* What is called.                                                         *)

\* What the calls depend on: every message of a client was packed as a new packer
\* would have, and what was called was asked for by a message that was sent.
PackedRight(m) ==
  m.code = FirstCode(m.offer.cls) /\ Table[m.code] \in Supers[m.offer.cls]

Packed == \A n \in 1..sent : msg[n] \in Message => PackedRight(msg[n])

Called(n) ==
  /\ ran[n] \notin {"NotFoundError", "ParametersError"} =>
       AnswersTo(msg[n].offer.name, ran[n]) /\ msg[n].body = "sane"
  /\ ran[n] = "NotFoundError" => \A f \in Marked : ~AnswersTo(msg[n].offer.name, f)
  /\ PackedRight(msg[n])
  /\ came[n] = UnpackHook(ServerCodes, msg[n].code)

CallInv ==
  /\ TypeOK /\ CacheInv /\ Packed
  /\ DOMAIN ran = Messages
  /\ \A n \in Messages : ran[n] # "none" => n <= sent /\ Called(n)

LEMMA RightCallDef == RightCall <=> \A n \in Messages : ran[n] # "none" => Called(n)
BY DEF RightCall, Called, PackedRight

\* A message that is written changes none that was.
LEMMA WriteKeepsCalls ==
  ASSUME CallInv, NEW m \in Message \cup Foreign, NEW lost \in BOOLEAN, Write(m, lost),
         m \in Message => PackedRight(m),
         TypeOK', CacheInv', UNCHANGED <<ran, came>>
  PROVE  CallInv'
<1>1. /\ sent \in Nat /\ MaxMessages \in Nat /\ sent' = sent + 1
      /\ msg \in Seq(Message \cup Foreign) /\ Len(msg) = sent /\ msg' = Append(msg, m)
  BY OneWayAssumption DEF CallInv, TypeOK, Write
<1>2. msg'[sent'] = m /\ \A n \in 1..sent : msg'[n] = msg[n]
  BY <1>1
<1>3. Packed'
  <2>1. ASSUME NEW n \in 1..sent', msg'[n] \in Message
        PROVE  PackedRight(msg'[n])
    <3>1. CASE n = sent'
      BY <1>2, <2>1, <3>1
    <3>2. CASE n # sent'
      <4>1. n \in 1..sent
        BY <1>1, <3>2
      <4> QED BY <1>2, <2>1, <4>1 DEF CallInv, Packed
    <3> QED BY <3>1, <3>2
  <2> QED BY <2>1 DEF Packed
<1>4. ASSUME NEW n \in Messages, ran'[n] # "none" PROVE n <= sent' /\ Called(n)'
  <2>1. n \in Nat /\ n >= 1 /\ n <= sent /\ ran[n] # "none" /\ Called(n)
    BY <1>1, <1>4 DEF CallInv, Messages
  <2>2. n \in 1..sent /\ n <= sent'
    BY <1>1, <2>1
  <2>3. msg'[n] = msg[n]
    BY <1>2, <2>2
  <2> QED BY <2>1, <2>2, <2>3 DEF Called
<1> QED BY <1>3, <1>4 DEF CallInv

\* What a message that can be read makes the server call.
LEMMA HandleCalls ==
  ASSUME CallInv, NEW n \in Messages, n <= sent, Handle(n, msg[n]), UNCHANGED <<sent, msg>>
  PROVE  /\ DOMAIN ran' = Messages /\ \A k \in Messages \ {n} : ran'[k] = ran[k] /\ came'[k] = came[k]
         /\ \/ UNCHANGED <<ran, came>>
            \/ Called(n)'
<1> DEFINE m == msg[n]
           f == Dispatch(m.offer.name)
           refused == f = "NotFoundError" \/ m.body = "misfit"
           what == IF f = "NotFoundError" THEN f ELSE IF refused THEN "ParametersError" ELSE f
<1>1. CASE Raises(m)
  BY <1>1 DEF Handle, CallInv
<1>2. CASE ~Raises(m)
  <2>1. /\ ran' = [ran EXCEPT ![n] = what]
        /\ came' = [came EXCEPT ![n] = UnpackHook(ServerCodes, m.code)]
    BY <1>2 DEF Handle
  <2>2. ran'[n] = what /\ came'[n] = UnpackHook(ServerCodes, m.code)
    <3> HIDE DEF what, m
    <3> QED BY <2>1 DEF CallInv, TypeOK
  <2>3. n \in 1..sent /\ m \in Message \cup Foreign
    BY OneWayAssumption DEF CallInv, TypeOK, Messages
  <2>4. m \in Message /\ m.body \in {"sane", "misfit"} /\ f # "TypeError"
    BY <1>2, <2>3 DEF Raises, Message, Foreign
  <2>5. m.offer.name \in Seq(Parts) /\ m.offer.name # <<>>
    <3>1. m.offer \in Offers
      BY <2>4 DEF Message
    <3> QED BY <3>1, OneWayAssumption
  <2>6. PackedRight(m)
    BY <2>3, <2>4 DEF CallInv, Packed
  <2>7. what \notin {"NotFoundError", "ParametersError"} =>
          AnswersTo(m.offer.name, what) /\ m.body = "sane"
    <3> SUFFICES ASSUME what \notin {"NotFoundError", "ParametersError"}
                 PROVE  AnswersTo(m.offer.name, what) /\ m.body = "sane"
      OBVIOUS
    <3>1. f # "NotFoundError" /\ m.body # "misfit" /\ what = f
      OBVIOUS
    <3>2. AnswersTo(m.offer.name, f)
      BY <2>4, <2>5, <3>1, DispatchSound
    <3> QED BY <2>4, <3>1, <3>2
  <2>8. what = "NotFoundError" => \A g \in Marked : ~AnswersTo(m.offer.name, g)
    <3> SUFFICES ASSUME what = "NotFoundError", NEW g \in Marked, AnswersTo(m.offer.name, g)
                 PROVE  FALSE
      OBVIOUS
    <3>1. f = "NotFoundError"
      OBVIOUS
    <3>2. f = g
      BY <2>5, DispatchComplete
    <3> QED BY <3>1, <3>2, DispatchAssumption
  <2>9. Called(n)'
    <3> HIDE DEF what
    <3>1. msg'[n] = m
      OBVIOUS
    <3> HIDE DEF m
    <3> QED BY <2>2, <2>6, <2>7, <2>8, <3>1 DEF Called
  <2>10. DOMAIN ran' = Messages
    <3> HIDE DEF what
    <3> QED BY <2>1 DEF CallInv
  <2>11. \A k \in Messages \ {n} : ran'[k] = ran[k] /\ came'[k] = came[k]
    <3> HIDE DEF what, m
    <3> QED BY <2>1 DEF CallInv, TypeOK
  <2> QED BY <2>9, <2>10, <2>11
<1> QED BY <1>1, <1>2

LEMMA CallsNext == ASSUME CallInv, [Next]_vars PROVE CallInv'
<1>0. TypeOK' /\ CacheInv'
  <2>1. CASE UNCHANGED cache
    BY <2>1, TypeNext DEF CallInv, CacheInv, CacheAgrees
  <2>2. ASSUME NEW o \in Offers, Publish(o) PROVE CacheInv'
    BY <2>2, RememberAgrees DEF Publish, CallInv
  <2>3. ~(\E o \in Offers : Publish(o)) => UNCHANGED cache
    BY DEF Next, vars, clientVars, SendForeign, CloseClient, LoseClient, LoseMessage, Serve,
           Subscribe, Unsubscribe, CloseServer, AbandonServer, LoseServer, Receive,
           EndCoroutine, ProcessCallResult
  <2> QED BY <2>1, <2>2, <2>3, TypeNext DEF CallInv
<1>1. CASE UNCHANGED <<sent, msg, ran, came>>
  BY <1>0, <1>1 DEF CallInv, Packed, Called
<1>2. ASSUME NEW o \in Offers, Publish(o) PROVE CallInv'
  <2> DEFINE m == [topic |-> o.topic, offer |-> o, code |-> PackHook(cache, o.cls),
                   body |-> o.body]
  <2>1. UNCHANGED <<ran, came>>
    BY <1>2 DEF Publish, serverVars
  <2>2. CASE UNCHANGED <<sent, msg, net>>
    BY <1>1, <2>1, <2>2
  <2>3. ASSUME PackHook(cache, o.cls) # NoEntry, NEW lost \in BOOLEAN, Write(m, lost)
        PROVE  CallInv'
    <3>1. o.cls \in Classes
      BY OneWayAssumption
    <3>2. PackHook(cache, o.cls) = FirstCode(o.cls)
      BY PackHookFirst DEF CallInv
    <3>3. PackHook(cache, o.cls) \in DOMAIN Table
      <4>1. CacheType
        BY TypeSplit DEF CallInv
      <4> QED BY <2>3, <4>1, LongLookupType DEF PackHook, CacheType
    <3>4. m \in Message /\ PackedRight(m)
      <4>1. Table[m.code] \in Supers[m.offer.cls]
        BY <3>1, <3>2, <3>3, FirstCodeFits
      <4> QED BY <3>2, <3>3, <4>1, OneWayAssumption DEF Message, PackedRight
    <3> HIDE DEF m
    <3> QED BY <1>0, <2>1, <2>3, <3>4, WriteKeepsCalls
  <2> QED BY <1>2, <2>2, <2>3 DEF Publish
<1>3. ASSUME NEW m \in Foreign, SendForeign(m) PROVE CallInv'
  <2>1. m \notin Message
    BY DEF Foreign, Message
  <2>2. UNCHANGED <<ran, came>> /\ Write(m, FALSE)
    BY <1>3 DEF SendForeign, serverVars
  <2> QED BY <1>0, <2>1, <2>2, WriteKeepsCalls
<1>4. CASE Receive
  <2>1. UNCHANGED <<sent, msg>>
    BY <1>4 DEF Receive, clientVars
  <2>2. PICK n \in Messages : n = Head(net) /\ n <= sent
    <3>1. sent \in 0..MaxMessages /\ MaxMessages \in Nat /\ net \in Seq(1..sent) /\ net # <<>>
      BY <1>4, OneWayAssumption DEF Receive, CallInv, TypeOK
    <3> QED BY <3>1 DEF Messages
  <2>3. CASE UNCHANGED <<ran, came>>
    BY <1>1, <2>1, <2>3
  <2>4. CASE Handle(n, msg[n])
    <3>1. /\ DOMAIN ran' = Messages
          /\ \A k \in Messages \ {n} : ran'[k] = ran[k] /\ came'[k] = came[k]
          /\ UNCHANGED <<ran, came>> \/ Called(n)'
      BY <2>1, <2>2, <2>4, HandleCalls
    <3>2. ASSUME Called(n)', NEW k \in Messages, ran'[k] # "none"
          PROVE  k <= sent' /\ Called(k)'
      <4>1. CASE k = n
        BY <2>1, <2>2, <3>2, <4>1
      <4>2. CASE k # n
        <5>1. k <= sent /\ Called(k) /\ ran'[k] = ran[k] /\ came'[k] = came[k] /\ sent' = sent
          BY <2>1, <3>1, <3>2, <4>2 DEF CallInv
        <5> QED BY <2>1, <5>1 DEF Called
      <4> QED BY <4>1, <4>2
    <3> QED BY <1>0, <2>1, <2>3, <3>1, <3>2 DEF CallInv, Packed
  <2> QED BY <1>4, <2>2, <2>3, <2>4 DEF Receive
<1>5. CASE \/ UNCHANGED vars \/ CloseClient \/ LoseClient \/ LoseMessage
           \/ CloseServer \/ AbandonServer \/ LoseServer
           \/ \E topics \in Plans : Serve(topics)
           \/ \E t \in Topics : Subscribe(t) \/ Unsubscribe(t)
           \/ \E n \in Messages : EndCoroutine(n) \/ ProcessCallResult(n)
  BY <1>1, <1>5 DEF vars, CloseClient, LoseClient, LoseMessage, CloseServer, AbandonServer,
                    LoseServer, Serve, Subscribe, Unsubscribe, EndCoroutine, ProcessCallResult, clientVars, serverVars
<1> QED BY <1>2, <1>3, <1>4, <1>5 DEF Next

\* A call runs only what is exposed under its name, however deep the namespaces
\* are, with arguments that fit, and is refused as not found only when there is no
\* such function; its argument is packed by an entry that fits, the one a new packer
\* would have taken, and comes out as the server's table says, whatever was packed
\* before it (dispatch, check_args, ext_type_pack_hook).
THEOREM RightCallHolds == Spec => []RightCall
<1>1. Init => CallInv
  <2> SUFFICES ASSUME Init PROVE CallInv
    OBVIOUS
  <2>1. TypeOK /\ CacheInv
    BY TypeInit, CacheInit
  <2>2. Packed
    BY DEF Init, Packed
  <2>3. DOMAIN ran = Messages /\ \A n \in Messages : ran[n] = "none"
    BY DEF Init
  <2> QED BY <2>1, <2>2, <2>3 DEF CallInv
<1>2. CallInv /\ [Next]_vars => CallInv'
  BY CallsNext
<1>3. CallInv => RightCall
  BY RightCallDef DEF CallInv
<1> QED BY <1>1, <1>2, <1>3, PTL DEF Spec
=============================================================================
