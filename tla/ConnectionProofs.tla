-------------------------- MODULE ConnectionProofs --------------------------
(***************************************************************************)
(* Proofs about Connection, for any number of connections, endpoints and   *)
(* filters, and any arguments of create_zmq_connection(): what the loop is *)
(* still to call is in the order the constructor of a transport asked for, *)
(* so that what is returned was made; the books agree with the sockets;    *)
(* and a ZmqEventLoop that is closed leaves nothing open that was          *)
(* returned.                                                               *)
(***************************************************************************)
EXTENDS Connection, FiniteSetTheorems, SequenceTheorems, TLAPS

Calls == [call : {"made", "waiter", "wake", "lost"}, conn : Conns]

\* A queued callback is about the protocol of a connection, or about the task that
\* makes it.
Slot(x) == <<x.conn, IF x.call \in {"made", "lost"} THEN "protocol" ELSE "task">>

\* A queue has one callback of a slot at most.
OneEach(q) == \A i, j \in 1..Len(q) : Slot(q[i]) = Slot(q[j]) => i = j

\* What the i-th of a queue says of where its connection c is: connection_made()
\* comes before all that wakes the task, and connection_lost() is queued by a
\* transport that has lost the connection.
CallOK(q, i, c, sockets, protos, losts) ==
  /\ sockets[c] # "none"
  /\ q[i].call = "made" => protos[c] = "new"
  /\ q[i].call = "lost" => losts[c]
  /\ q[i].call \in {"waiter", "wake"} /\ protos[c] = "new" =>
       \E j \in 1..(i - 1) : q[j].call = "made" /\ q[j].conn = c

Fits(q, sockets, protos, losts) ==
  /\ OneEach(q)
  /\ \A i \in 1..Len(q) : CallOK(q, i, q[i].conn, sockets, protos, losts)

QueueOK == Fits(soon, sock, proto, connLost)

\* What a connection has been through agrees with what its transport says.
LifeOK(c) ==
  /\ task[c] = "idle" => sock[c] = "none"
  /\ task[c] \in {"idle", "waiting"} => error[c] = "none"
  /\ task[c] = "returned" => proto[c] # "new"
  /\ sock[c] = "none" => proto[c] = "new"
  /\ proto[c] = "new" => ~closing[c] /\ ~paused[c]
  /\ connLost[c] => closing[c]

\* Only a creation that failed to bind or connect has a closed socket under a
\* transport that was not told, and may meet one when it is to pause or to close.
NotTold(c) ==
  \/ closing[c] /\ ~connLost[c]
  \/ sock[c] = "closed" /\ proto[c] # "lost" /\ loopOpen
  \/ kind = "zmq" /\ paused[c] /\ reader[c]

\* A reader that is there when its time is over.
LeftOn(c) == reader[c] /\ (connLost[c] \/ sock[c] = "closed")

ToldOK(c) ==
  /\ NotTold(c) => error[c] = "OSError"
  /\ LeftOn(c) => error[c] = "OSError" \/ leftPaused[c]

\* The books of a transport are empty before it has a socket.
BooksOK(c) ==
  /\ sock[c] = "none" => bindings[c] = {} /\ connections[c] = {} /\ subscriptions[c] = {}
  /\ sock[c] = "open" => /\ bindings[c] \subseteq bound[c]
                         /\ connections[c] \subseteq linked[c]
                         /\ \A v \in subscriptions[c] : filters[c][v] > 0

\* A loop knows what it returned and nothing else, and closes what it knows.
LoopOK ==
  /\ \A c \in tracked : task[c] = "returned"
  /\ ~loopOpen => soon = <<>> /\ \A c \in tracked : sock[c] = "closed"
  /\ kind = "zmq" => \A c \in Conns : task[c] = "returned" => c \in tracked

\* The types of the variables, but for the length of the queue.
ConnTypeOK ==
  /\ kind \in {"zmq", "plain"} /\ loopOpen \in BOOLEAN /\ tracked \subseteq Conns
  /\ soon \in Seq(Calls)
  /\ task \in [Conns -> {"idle", "waiting", "returned", "raised", "cancelled"}]
  /\ plan \in [Conns -> Plans \cup {<<>>}]
  /\ error \in [Conns -> {"none", "OSError", "other"}]
  /\ sock \in [Conns -> {"none", "open", "closed"}]
  /\ reader \in [Conns -> BOOLEAN] /\ closing \in [Conns -> BOOLEAN]
  /\ paused \in [Conns -> BOOLEAN] /\ leftPaused \in [Conns -> BOOLEAN]
  /\ connLost \in [Conns -> BOOLEAN]
  /\ proto \in [Conns -> {"new", "made", "lost"}]
  /\ bindings \in [Conns -> SUBSET Endpoints] /\ connections \in [Conns -> SUBSET Endpoints]
  /\ bound \in [Conns -> SUBSET Endpoints] /\ linked \in [Conns -> SUBSET Endpoints]
  /\ subscriptions \in [Conns -> SUBSET Values]
  /\ filters \in [Conns -> [Values -> 0..MaxFilters]]

ConnInv ==
  /\ ConnTypeOK /\ QueueOK /\ LoopOK
  /\ \A c \in Conns : LifeOK(c) /\ ToldOK(c) /\ BooksOK(c)

-----------------------------------------------------------------------------
(* Lemmas about the queue of the loop.                                     *)

\* Two callbacks of one slot are alike but for what comes first and second there.
LEMMA SlotsAre ==
  ASSUME NEW x \in Calls, NEW y \in Calls
  PROVE  Slot(x) = Slot(y) <=>
           x.conn = y.conn /\ (x.call \in {"made", "lost"} <=> y.call \in {"made", "lost"})
BY DEF Slot, Calls

\* Each connection has two callbacks queued at most.
LEMMA QueueBound ==
  ASSUME NEW q \in Seq(Calls), OneEach(q)
  PROVE  Len(q) <= 2 * Cardinality(Conns)
<1> DEFINE Slots == Conns \X {"protocol", "task"}
           f == [i \in 1..Len(q) |-> Slot(q[i])]
<1>1. Len(q) \in Nat /\ \A i \in 1..Len(q) : q[i] \in Calls
  BY ElementOfSeq
<1>2. \A i \in 1..Len(q) : Slot(q[i]) \in Slots
  BY <1>1 DEF Calls, Slot
<1>3. f \in Injection(1..Len(q), Slots)
  BY <1>2 DEF Injection, IsInjective, OneEach
<1>4. IsFiniteSet({"protocol", "task"}) /\ Cardinality({"protocol", "task"}) = 2
  <2>1. IsFiniteSet({"protocol"}) /\ Cardinality({"protocol"}) = 1
    BY FS_Singleton
  <2>2. {"protocol", "task"} = {"protocol"} \cup {"task"} /\ "task" \notin {"protocol"}
    OBVIOUS
  <2>3. /\ IsFiniteSet({"protocol"} \cup {"task"})
        /\ Cardinality({"protocol"} \cup {"task"}) = 1 + 1
    BY <2>1, <2>2, FS_AddElement
  <2> QED BY <2>2, <2>3
<1>5. /\ IsFiniteSet(Slots) /\ Cardinality(Conns) \in Nat
      /\ Cardinality(Slots) = Cardinality(Conns) * 2
  BY <1>4, FS_Product, FS_CardinalityType, ConnectionAssumption
<1>6. Cardinality(1..Len(q)) <= Cardinality(Slots)
  BY <1>3, <1>5, FS_Injection
<1>7. Cardinality(1..Len(q)) = Len(q)
  <2>1. 1 \in Int /\ Len(q) \in Int
    BY <1>1
  <2>2. Cardinality(1..Len(q)) = IF 1 > Len(q) THEN 0 ELSE Len(q) - 1 + 1
    BY <2>1, FS_Interval
  <2> QED BY <1>1, <2>2
<1> QED BY <1>1, <1>5, <1>6, <1>7

\* A queue goes on fitting a world in which sockets are not unmade, connections are
\* not regained, and protocols are as new as before.
LEMMA FitsOn ==
  ASSUME NEW q \in Seq(Calls), NEW sk, NEW pr, NEW lo, NEW sk2, NEW pr2, NEW lo2,
         Fits(q, sk, pr, lo),
         \A c \in Conns : /\ sk[c] # "none" => sk2[c] # "none"
                          /\ pr2[c] = "new" <=> pr[c] = "new"
                          /\ lo[c] => lo2[c]
  PROVE  Fits(q, sk2, pr2, lo2)
<1>1. \A i \in 1..Len(q) : q[i].conn \in Conns
  <2>1. \A i \in 1..Len(q) : q[i] \in Calls
    BY ElementOfSeq
  <2> QED BY <2>1 DEF Calls
<1>2. ASSUME NEW i \in 1..Len(q) PROVE CallOK(q, i, q[i].conn, sk2, pr2, lo2)
  <2>1. CallOK(q, i, q[i].conn, sk, pr, lo)
    BY DEF Fits
  <2> QED BY <1>1, <2>1 DEF CallOK
<1> QED BY <1>2 DEF Fits

\* So does what is left of it without its first callback; a protocol it told of
\* its transport is not new any more.
LEMMA FitsTail ==
  ASSUME NEW q \in Seq(Calls), q # <<>>,
         NEW sk, NEW pr, NEW lo, NEW sk2, NEW pr2,
         Fits(q, sk, pr, lo),
         \A c \in Conns : /\ sk[c] # "none" => sk2[c] # "none"
                          /\ pr2[c] = "new" <=> /\ pr[c] = "new"
                                                /\ ~(Head(q).call = "made" /\ Head(q).conn = c)
  PROVE  Fits(Tail(q), sk2, pr2, lo)
<1>1. /\ Len(q) \in Nat \ {0} /\ Head(q) = q[1] /\ Len(Tail(q)) = Len(q) - 1
      /\ \A i \in 1..Len(Tail(q)) : Tail(q)[i] = q[i + 1]
  BY HeadTailProperties, EmptySeq
<1>2. \A i \in 1..Len(q) : q[i] \in Calls
  BY ElementOfSeq
<1>3. OneEach(Tail(q))
  BY <1>1 DEF Fits, OneEach
<1>4. ASSUME NEW i \in 1..Len(Tail(q))
      PROVE  CallOK(Tail(q), i, Tail(q)[i].conn, sk2, pr2, lo)
  <2> DEFINE c == q[i + 1].conn
  <2>1. /\ i + 1 \in 1..Len(q) /\ 1 \in 1..Len(q) /\ i + 1 # 1 /\ i \in Nat
        /\ Tail(q)[i] = q[i + 1]
    BY <1>1
  <2>2. c \in Conns /\ CallOK(q, i + 1, c, sk, pr, lo)
    BY <1>2, <2>1 DEF Fits, Calls
  <2>3. q[i + 1].call = "made" => ~(q[1].call = "made" /\ q[1].conn = c)
    BY <1>2, <2>1, SlotsAre DEF Fits, OneEach
  <2>4. ASSUME q[i + 1].call \in {"waiter", "wake"}, pr2[c] = "new"
        PROVE  \E j \in 1..(i - 1) : Tail(q)[j].call = "made" /\ Tail(q)[j].conn = c
    <3>1. PICK j \in 1..((i + 1) - 1) : q[j].call = "made" /\ q[j].conn = c
      BY <2>2, <2>4 DEF CallOK
    <3>2. j # 1
      BY <3>1, <2>2, <2>4, <1>1
    <3>3. j - 1 \in 1..(i - 1) /\ j - 1 \in 1..Len(Tail(q)) /\ (j - 1) + 1 = j
      BY <3>1, <3>2, <2>1, <1>1
    <3>4. Tail(q)[j - 1] = q[j]
      BY <3>3, <1>1
    <3> QED BY <3>1, <3>3, <3>4
  <2> QED BY <1>1, <2>1, <2>2, <2>3, <2>4 DEF CallOK
<1> QED BY <1>3, <1>4 DEF Fits

\* And what a callback of a free slot is added to, if it fits itself.
LEMMA FitsAppend ==
  ASSUME NEW q \in Seq(Calls), NEW x \in Calls, NEW sk, NEW pr, NEW lo,
         Fits(q, sk, pr, lo),
         \A i \in 1..Len(q) : Slot(q[i]) # Slot(x),
         sk[x.conn] # "none",
         x.call = "made" => pr[x.conn] = "new",
         x.call = "lost" => lo[x.conn],
         x.call \in {"waiter", "wake"} /\ pr[x.conn] = "new" =>
           \E j \in 1..Len(q) : q[j].call = "made" /\ q[j].conn = x.conn
  PROVE  Append(q, x) \in Seq(Calls) /\ Fits(Append(q, x), sk, pr, lo)
<1> DEFINE r == Append(q, x)
<1>1. /\ r \in Seq(Calls) /\ Len(q) \in Nat /\ Len(r) = Len(q) + 1
      /\ \A i \in 1..Len(q) : r[i] = q[i]
      /\ r[Len(q) + 1] = x
  BY AppendProperties, LenProperties
<1>2. \A i \in 1..Len(r) : i \in 1..Len(q) \/ i = Len(q) + 1
  BY <1>1
<1> HIDE DEF r
<1>3. OneEach(r)
  BY <1>1, <1>2 DEF Fits, OneEach
<1>4. ASSUME NEW i \in 1..Len(q) PROVE CallOK(r, i, r[i].conn, sk, pr, lo)
  <2>1. \A j \in 1..(i - 1) : j \in 1..Len(q)
    BY <1>1
  <2> QED BY <1>1, <2>1 DEF Fits, CallOK
<1>5. CallOK(r, Len(q) + 1, x.conn, sk, pr, lo)
  <2>1. (Len(q) + 1) - 1 = Len(q)
    BY <1>1
  <2> QED BY <1>1, <2>1 DEF CallOK
<1>6. Fits(r, sk, pr, lo)
  BY <1>1, <1>2, <1>3, <1>4, <1>5 DEF Fits
<1> QED BY <1>1, <1>6 DEF r

-----------------------------------------------------------------------------
(* Each step keeps the invariant.                                          *)

LEMMA ConnInvInit == Init => ConnInv
<1> SUFFICES ASSUME Init PROVE ConnInv
  OBVIOUS
<1>1. ConnTypeOK
  BY ConnectionAssumption, EmptySeq DEF Init, ConnTypeOK
<1>2. QueueOK
  BY EmptySeq DEF Init, QueueOK, Fits, OneEach
<1>3. LoopOK /\ \A c \in Conns : LifeOK(c) /\ ToldOK(c) /\ BooksOK(c)
  BY DEF Init, LoopOK, LifeOK, ToldOK, NotTold, LeftOn, BooksOK
<1> QED BY <1>1, <1>2, <1>3 DEF ConnInv

\* A task that waits has a socket, unless it was closed, and has raised nothing.
LEMMA CreateKeeps ==
  ASSUME ConnInv, NEW c \in Conns, NEW p \in Plans, NEW before \in SUBSET Endpoints,
         Create(c, p, before)
  PROVE  ConnInv'
<1>1. /\ sock[c] = "none" /\ proto[c] = "new" /\ ~closing[c] /\ ~connLost[c] /\ ~paused[c]
      /\ error[c] = "none"
      /\ bindings[c] = {} /\ connections[c] = {} /\ subscriptions[c] = {}
  BY DEF Create, ConnInv, LifeOK, BooksOK
<1> DEFINE m == [call |-> "made", conn |-> c]
           w == [call |-> "waiter", conn |-> c]
           q == Append(soon, m)
<1>2. m \in Calls /\ w \in Calls /\ soon \in Seq(Calls)
  BY DEF Calls, ConnInv, ConnTypeOK
<1>3. soon' = Append(Append(soon, m), w)
  <2>1. q \in Seq(Calls) /\ q = soon \o <<m>> /\ Append(q, w) = q \o <<w>>
    BY <1>2, AppendProperties, AppendIsConcat
  <2>2. soon \o <<m, w>> = (soon \o <<m>>) \o <<w>>
    BY <1>2
  <2> QED BY <2>1, <2>2 DEF Create, MadeSoon
<1>4. \A i \in 1..Len(soon) : soon[i] \in Calls /\ soon[i].conn # c
  BY <1>1, <1>2, ElementOfSeq DEF ConnInv, QueueOK, Fits, CallOK
<1>5. Fits(soon, sock', proto', connLost')
  <2>1. \A d \in Conns : sock[d] # "none" => sock'[d] # "none"
    BY DEF Create, ConnInv, ConnTypeOK
  <2> QED BY <1>2, <2>1, FitsOn DEF Create, ConnInv, QueueOK, tranVars
<1>6. /\ sock'[c] = "open" /\ proto'[c] = "new"
  BY <1>1 DEF Create, ConnInv, ConnTypeOK, tranVars
<1>7. q \in Seq(Calls) /\ Fits(q, sock', proto', connLost')
  <2>1. \A i \in 1..Len(soon) : Slot(soon[i]) # Slot(m)
    BY <1>2, <1>4, SlotsAre
  <2> QED BY <1>2, <1>5, <1>6, <2>1, FitsAppend
<1>8. /\ Len(soon) \in Nat /\ Len(q) = Len(soon) + 1 /\ q[Len(soon) + 1] = m
      /\ \A i \in 1..Len(soon) : q[i] = soon[i]
  BY <1>2, AppendProperties, LenProperties
<1>9. Append(q, w) \in Seq(Calls) /\ Fits(Append(q, w), sock', proto', connLost')
  <2>1. \A i \in 1..Len(q) : Slot(q[i]) # Slot(w)
    <3>1. \A i \in 1..Len(q) : i \in 1..Len(soon) \/ i = Len(soon) + 1
      BY <1>8
    <3>2. Slot(m) # Slot(w)
      BY <1>2, SlotsAre
    <3> QED BY <1>2, <1>4, <1>8, <3>1, <3>2, SlotsAre
  <2>2. Len(q) \in 1..Len(q) /\ q[Len(q)].call = "made" /\ q[Len(q)].conn = c
    BY <1>8
  <2> QED BY <1>2, <1>6, <1>7, <2>1, <2>2, FitsAppend
<1>10. soon' \in Seq(Calls) /\ QueueOK'
  BY <1>3, <1>9 DEF QueueOK
<1>11. ConnTypeOK'
  <2>1. [v \in Values |-> 1] \in [Values -> 0..MaxFilters]
    BY ConnectionAssumption
  <2>2. filters' \in [Conns -> [Values -> 0..MaxFilters]]
    BY <2>1 DEF Create, ConnInv, ConnTypeOK
  <2> QED BY <1>10, <2>2 DEF Create, ConnInv, ConnTypeOK, tranVars, bookVars, loopVars
<1>12. LoopOK'
  BY DEF Create, ConnInv, ConnTypeOK, LoopOK, loopVars
<1>13. \A d \in Conns : LifeOK(d)' /\ ToldOK(d)' /\ BooksOK(d)'
  <2> TAKE d \in Conns
  <2>1. CASE d = c
    BY <1>1, <1>6, <2>1
      DEF Create, ConnInv, ConnTypeOK, LifeOK, ToldOK, NotTold, LeftOn, BooksOK, tranVars, bookVars
  <2>2. CASE d # c
    <3>1. LifeOK(d)'
      BY <2>2 DEF Create, ConnInv, ConnTypeOK, LifeOK, tranVars
    <3>2. ToldOK(d)'
      BY <2>2 DEF Create, ConnInv, ConnTypeOK, ToldOK, NotTold, LeftOn, tranVars, loopVars
    <3>3. BooksOK(d)'
      BY <2>2 DEF Create, ConnInv, ConnTypeOK, BooksOK, bookVars
    <3> QED BY <3>1, <3>2, <3>3
  <2> QED BY <2>1, <2>2
<1> QED BY <1>10, <1>11, <1>12, <1>13 DEF ConnInv

\* Nothing is made of a socket that is refused, and a task that is cancelled returns
\* nothing.
LEMMA TaskStepsKeep ==
  ASSUME ConnInv, NEW c \in Conns, CreateRefused(c) \/ Cancel(c)
  PROVE  ConnInv'
<1>1. ConnTypeOK'
  <2>1. CASE CreateRefused(c)
    BY <2>1 DEF CreateRefused, ConnInv, ConnTypeOK, tranVars, bookVars, zmqVars, loopVars
  <2>2. CASE Cancel(c)
    BY <2>2 DEF Cancel, ConnInv, ConnTypeOK, tranVars, bookVars, zmqVars, loopVars
  <2> QED BY <2>1, <2>2
<1>2. QueueOK'
  BY DEF CreateRefused, Cancel, ConnInv, QueueOK, tranVars
<1>3. LoopOK'
  BY DEF CreateRefused, Cancel, ConnInv, ConnTypeOK, LoopOK, loopVars
<1>4. \A d \in Conns : LifeOK(d)'
  BY DEF CreateRefused, Cancel, ConnInv, ConnTypeOK, LifeOK, tranVars
<1>5. \A d \in Conns : ToldOK(d)'
  BY DEF CreateRefused, Cancel, ConnInv, ToldOK, NotTold, LeftOn, tranVars, loopVars
<1>6. \A d \in Conns : BooksOK(d)'
  BY DEF CreateRefused, Cancel, ConnInv, BooksOK, bookVars, zmqVars
<1> QED BY <1>1, <1>2, <1>3, <1>4, <1>5, <1>6 DEF ConnInv

\* What the first callback of the loop says of its connection.
LEMMA FirstIs ==
  ASSUME ConnInv, NEW c \in Conns, NEW call \in {"made", "waiter", "wake", "lost"},
         First(call, c)
  PROVE  /\ soon \in Seq(Calls) /\ soon # <<>> /\ Head(soon) = soon[1]
         /\ Head(soon).call = call /\ Head(soon).conn = c
         /\ loopOpen
         /\ sock[c] # "none"
         /\ call = "made" => proto[c] = "new"
         /\ call = "lost" => connLost[c]
         /\ call \in {"waiter", "wake"} => proto[c] # "new"
         /\ \A i \in 1..Len(soon) : i # 1 => Slot(soon[i]) # Slot(soon[1])
<1>1. soon \in Seq(Calls) /\ soon # <<>> /\ loopOpen
  BY DEF First, ConnInv, ConnTypeOK, LoopOK
<1>2. Head(soon) = soon[1] /\ 1 \in 1..Len(soon) /\ 1..(1 - 1) = {}
  BY <1>1, EmptySeq
<1>3. soon[1].call = call /\ soon[1].conn = c
  BY <1>2 DEF First
<1>4. CallOK(soon, 1, c, sock, proto, connLost) /\ OneEach(soon)
  BY <1>2, <1>3 DEF ConnInv, QueueOK, Fits
<1> QED BY <1>1, <1>2, <1>3, <1>4 DEF CallOK, OneEach

\* connection_made().
LEMMA RunMadeKeeps ==
  ASSUME ConnInv, NEW c \in Conns, RunMade(c)
  PROVE  ConnInv'
<1>1. First("made", c) /\ soon' = Tail(soon) /\ proto' = [proto EXCEPT ![c] = "made"]
  BY DEF RunMade
<1>2. /\ soon \in Seq(Calls) /\ soon # <<>> /\ loopOpen /\ sock[c] # "none"
      /\ Head(soon).call = "made" /\ Head(soon).conn = c
  BY <1>1, FirstIs
<1>3. Tail(soon) \in Seq(Calls)
  BY <1>2, HeadTailProperties
<1>4. proto \in [Conns -> {"new", "made", "lost"}]
  BY DEF ConnInv, ConnTypeOK
<1>5. QueueOK'
  <2>1. \A d \in Conns : proto'[d] = "new" <=>
          proto[d] = "new" /\ ~(Head(soon).call = "made" /\ Head(soon).conn = d)
    BY <1>1, <1>2, <1>4
  <2>2. Fits(Tail(soon), sock, proto', connLost)
    BY <1>2, <2>1, FitsTail DEF ConnInv, QueueOK
  <2> QED BY <1>1, <2>2 DEF RunMade, QueueOK
<1>6. ConnTypeOK'
  BY <1>1, <1>3
    DEF RunMade, ConnInv, ConnTypeOK, taskVars, bookVars, zmqVars, loopVars
<1>7. LoopOK'
  BY <1>2 DEF RunMade, ConnInv, LoopOK, taskVars, loopVars
<1>8. \A d \in Conns : LifeOK(d)'
  BY <1>2, <1>4 DEF RunMade, ConnInv, LifeOK, taskVars
<1>9. \A d \in Conns : ToldOK(d)'
  <2> TAKE d \in Conns
  <2>1. NotTold(d)' => NotTold(d)
    <3>1. proto'[d] # "lost" => proto[d] # "lost"
      BY <1>1, <1>2, <1>4, FirstIs
    <3> QED BY <3>1 DEF RunMade, NotTold, loopVars
  <2>2. LeftOn(d)' = LeftOn(d)
    BY DEF RunMade, LeftOn
  <2> QED BY <2>1, <2>2 DEF RunMade, ConnInv, ToldOK, taskVars
<1>10. \A d \in Conns : BooksOK(d)'
  BY DEF RunMade, ConnInv, BooksOK, bookVars, zmqVars
<1> QED BY <1>5, <1>6, <1>7, <1>8, <1>9, <1>10 DEF ConnInv

\* The waiter is done, and the task that waits for it is to go on.
LEMMA RunWaiterKeeps ==
  ASSUME ConnInv, NEW c \in Conns, RunWaiter(c)
  PROVE  ConnInv'
<1> DEFINE w == [call |-> "wake", conn |-> c]
           q == Tail(soon)
<1>1. /\ soon \in Seq(Calls) /\ soon # <<>> /\ loopOpen /\ sock[c] # "none"
      /\ Head(soon).call = "waiter" /\ Head(soon).conn = c /\ Head(soon) = soon[1]
      /\ proto[c] # "new"
      /\ \A i \in 1..Len(soon) : i # 1 => Slot(soon[i]) # Slot(soon[1])
  BY FirstIs DEF RunWaiter
<1>2. /\ q \in Seq(Calls) /\ Len(soon) \in Nat /\ Len(q) = Len(soon) - 1
      /\ soon[1] \in Calls
      /\ \A i \in 1..Len(q) : q[i] = soon[i + 1] /\ q[i] \in Calls
  BY <1>1, HeadTailProperties, LenProperties, ElementOfSeq
<1>3. Fits(q, sock, proto, connLost)
  BY <1>1, FitsTail DEF ConnInv, QueueOK
<1>4. w \in Calls /\ Slot(w) = Slot(soon[1])
  <2>1. w \in Calls
    BY DEF Calls
  <2> QED BY <1>1, <1>2, <2>1, SlotsAre
<1>5. \A i \in 1..Len(q) : Slot(q[i]) # Slot(w)
  <2>1. \A i \in 1..Len(q) : i + 1 \in 1..Len(soon) /\ i + 1 # 1
    BY <1>2
  <2> QED BY <1>1, <1>2, <1>4, <2>1
<1>6. Append(q, w) \in Seq(Calls) /\ Fits(Append(q, w), sock, proto, connLost)
  BY <1>1, <1>2, <1>3, <1>4, <1>5, FitsAppend
<1>7. soon' = q \/ soon' = Append(q, w)
  <2>1. q \o <<w>> = Append(q, w) /\ q \o <<>> = q
    BY <1>2, <1>4, AppendIsConcat, ConcatEmptySeq
  <2> QED BY <2>1 DEF RunWaiter
<1>8. soon' \in Seq(Calls) /\ Fits(soon', sock, proto, connLost)
  BY <1>2, <1>3, <1>6, <1>7
<1>9. QueueOK'
  BY <1>8 DEF RunWaiter, QueueOK, tranVars
<1>10. ConnTypeOK'
  BY <1>8 DEF RunWaiter, ConnInv, ConnTypeOK, taskVars, tranVars, bookVars, zmqVars, loopVars
<1>11. LoopOK'
  BY <1>1 DEF RunWaiter, ConnInv, LoopOK, taskVars, loopVars
<1>12. \A d \in Conns : LifeOK(d)' /\ ToldOK(d)' /\ BooksOK(d)'
  BY DEF RunWaiter, ConnInv, LifeOK, ToldOK, NotTold, LeftOn, BooksOK, taskVars, tranVars,
         bookVars, zmqVars, loopVars
<1> QED BY <1>9, <1>10, <1>11, <1>12 DEF ConnInv

\* connection_lost().
LEMMA RunLostKeeps ==
  ASSUME ConnInv, NEW c \in Conns, RunLost(c)
  PROVE  ConnInv'
<1>1. /\ soon' = Tail(soon) /\ proto' = [proto EXCEPT ![c] = "lost"]
      /\ sock' = [sock EXCEPT ![c] = "closed"]
  BY DEF RunLost
<1>2. /\ soon \in Seq(Calls) /\ soon # <<>> /\ loopOpen /\ sock[c] # "none" /\ connLost[c]
      /\ Head(soon).call = "lost" /\ Head(soon).conn = c
  BY FirstIs DEF RunLost
<1>3. Tail(soon) \in Seq(Calls)
  BY <1>2, HeadTailProperties
<1>4. /\ proto \in [Conns -> {"new", "made", "lost"}]
      /\ sock \in [Conns -> {"none", "open", "closed"}]
  BY DEF ConnInv, ConnTypeOK
<1>5. proto[c] # "new"
  BY <1>2 DEF ConnInv, LifeOK
<1>6. QueueOK'
  <2>1. \A d \in Conns :
          /\ sock[d] # "none" => sock'[d] # "none"
          /\ proto'[d] = "new" <=>
               proto[d] = "new" /\ ~(Head(soon).call = "made" /\ Head(soon).conn = d)
    BY <1>1, <1>2, <1>4, <1>5
  <2>2. Fits(Tail(soon), sock', proto', connLost)
    BY <1>2, <2>1, FitsTail DEF ConnInv, QueueOK
  <2> QED BY <1>1, <2>2 DEF RunLost, QueueOK
<1>7. ConnTypeOK'
  <2>1. [v \in Values |-> 0] \in [Values -> 0..MaxFilters]
    BY ConnectionAssumption
  <2> QED BY <1>1, <1>3, <2>1
    DEF RunLost, ConnInv, ConnTypeOK, Unbound, taskVars, bookVars, loopVars
<1>8. LoopOK'
  BY <1>2 DEF RunLost, ConnInv, LoopOK, taskVars, loopVars
<1>9. \A d \in Conns : LifeOK(d)'
  BY <1>1, <1>2, <1>4, <1>5 DEF RunLost, ConnInv, LifeOK, taskVars
<1>10. \A d \in Conns : ToldOK(d)'
  <2> TAKE d \in Conns
  <2>1. (NotTold(d)' => NotTold(d)) /\ (LeftOn(d)' => LeftOn(d))
    BY <1>1, <1>2, <1>4 DEF RunLost, NotTold, LeftOn, loopVars
  <2> QED BY <2>1 DEF RunLost, ConnInv, ToldOK, taskVars
<1>11. \A d \in Conns : BooksOK(d)'
  BY <1>1, <1>2, <1>4 DEF RunLost, ConnInv, ConnTypeOK, BooksOK, Unbound, bookVars
<1> QED BY <1>6, <1>7, <1>8, <1>9, <1>10, <1>11 DEF ConnInv

\* The endpoints of the first steps of a plan are endpoints.
LEMMA StepsAreEndpoints ==
  ASSUME ConnInv, NEW c \in Conns, NEW op, NEW n \in 0..Len(plan[c])
  PROVE  Steps(c, op, n) \subseteq Endpoints
<1> DEFINE Step == [op : {"bind", "connect", "invalid"}, endpoint : Endpoints]
<1>1. plan[c] \in Seq(Step)
  <2>1. plan[c] \in Plans \cup {<<>>} /\ <<>> \in Seq(Step)
    BY EmptySeq DEF ConnInv, ConnTypeOK
  <2> QED BY <2>1, ConnectionAssumption
<1>2. \A i \in 1..Len(plan[c]) : plan[c][i] \in Step
  BY <1>1, ElementOfSeq
<1>3. Len(plan[c]) \in Nat
  BY <1>1, LenProperties
<1>4. \A i \in 1..n : plan[c][i].endpoint \in Endpoints
  BY <1>2, <1>3
<1> QED BY <1>4 DEF Steps

\* A task that goes on binds and connects as far as it gets, and is over: the books
\* get what the socket gets, and only a socket that is closed on the way is closed
\* under a transport that was not told.
LEMMA ResumeKeeps ==
  ASSUME ConnInv, NEW c \in Conns, First("wake", c), task[c] = "waiting",
         NEW n \in 0..Len(plan[c]),
         (Return(c) /\ n = Len(plan[c])) \/ Raise(c, n),
         plan' = [plan EXCEPT ![c] = <<>>],
         UNCHANGED <<tranVars, subscriptions, kind, loopOpen>>
  PROVE  /\ \A d \in Conns : LifeOK(d)' /\ ToldOK(d)' /\ BooksOK(d)'
         /\ \A d \in Conns : sock[d] # "none" => sock'[d] # "none"
         /\ soon' \in Seq(Calls) => ConnTypeOK'
         /\ kind' = "zmq" => \A d \in Conns : task'[d] = "returned" => d \in tracked'
         /\ \A d \in tracked' : task'[d] = "returned"
<1>1. ConnTypeOK
  BY DEF ConnInv
<1>2. sock[c] # "none" /\ proto[c] # "new" /\ error[c] = "none" /\ ~NotTold(c)
  <2>1. sock[c] # "none" /\ proto[c] # "new"
    BY FirstIs
  <2> QED BY <2>1 DEF ConnInv, LifeOK, ToldOK
<1> DEFINE B == Steps(c, "bind", n)
           L == Steps(c, "connect", n)
<1>3. B \subseteq Endpoints /\ L \subseteq Endpoints
  BY StepsAreEndpoints
<1>4. /\ bindings' = [bindings EXCEPT ![c] = @ \cup B]
      /\ connections' = [connections EXCEPT ![c] = @ \cup L]
      /\ task' = [task EXCEPT ![c] = "returned"] \/ task' = [task EXCEPT ![c] = "raised"]
  BY DEF Return, Raise
<1> HIDE DEF B, L
\* What the socket keeps of it.
<1>5. \/ /\ bound' = [bound EXCEPT ![c] = @ \cup B]
         /\ linked' = [linked EXCEPT ![c] = @ \cup L]
         /\ UNCHANGED <<sock, filters>>
      \/ /\ error' = [error EXCEPT ![c] = "OSError"]
         /\ sock' = [sock EXCEPT ![c] = "closed"]
         /\ Unbound(c)
  BY DEF Return, Raise, B, L
<1>6. error' = error \/ \E err \in {"OSError", "other"} : error' = [error EXCEPT ![c] = err]
  BY DEF Return, Raise, Errors
<1>7. \/ (task' = [task EXCEPT ![c] = "returned"] /\ Track(c))
      \/ (task' = [task EXCEPT ![c] = "raised"] /\ UNCHANGED tracked)
  BY DEF Return, Raise
<1>8. UNCHANGED <<reader, paused, leftPaused, closing, connLost, proto, subscriptions, kind, loopOpen>>
  BY DEF tranVars
<1>9. \A d \in Conns : LifeOK(d)'
  <2> TAKE d \in Conns
  <2>1. CASE d = c
    BY <1>1, <1>2, <1>4, <1>5, <1>8, <2>1 DEF ConnTypeOK, ConnInv, LifeOK
  <2>2. CASE d # c
    BY <1>1, <1>4, <1>5, <1>6, <1>8, <2>2 DEF ConnTypeOK, ConnInv, LifeOK
  <2> QED BY <2>1, <2>2
<1>10. \A d \in Conns : ToldOK(d)'
  <2> TAKE d \in Conns
  <2>1. CASE d = c /\ sock' = sock
    BY <1>2, <1>8, <2>1 DEF ConnInv, ToldOK, NotTold, LeftOn
  <2>2. CASE d = c /\ error' = [error EXCEPT ![c] = "OSError"]
    BY <1>1, <2>2 DEF ConnTypeOK, ToldOK
  <2>3. CASE d # c
    <3>1. sock'[d] = sock[d] /\ error'[d] = error[d]
      BY <1>1, <1>5, <1>6, <2>3 DEF ConnTypeOK
    <3> QED BY <1>8, <3>1 DEF ConnInv, ToldOK, NotTold, LeftOn
  <2> QED BY <1>5, <2>1, <2>2, <2>3
<1>11. \A d \in Conns : BooksOK(d)'
  <2> TAKE d \in Conns
  <2>1. CASE d = c
    BY <1>1, <1>2, <1>4, <1>5, <1>8, <2>1 DEF ConnTypeOK, ConnInv, BooksOK
  <2>2. CASE d # c
    BY <1>1, <1>4, <1>5, <1>8, <2>2 DEF ConnTypeOK, ConnInv, BooksOK, Unbound
  <2> QED BY <2>1, <2>2
<1>12. \A d \in Conns : sock[d] # "none" => sock'[d] # "none"
  BY <1>1, <1>5 DEF ConnTypeOK
<1>13. ASSUME soon' \in Seq(Calls) PROVE ConnTypeOK'
  <2>1. plan' \in [Conns -> Plans \cup {<<>>}]
    BY <1>1 DEF ConnTypeOK
  <2>2. tracked' \subseteq Conns /\ task' \in [Conns -> {"idle", "waiting", "returned", "raised", "cancelled"}]
    BY <1>1, <1>7 DEF ConnTypeOK, Track
  <2>3. error' \in [Conns -> {"none", "OSError", "other"}]
    BY <1>1, <1>6 DEF ConnTypeOK
  <2>4. /\ bindings' \in [Conns -> SUBSET Endpoints]
        /\ connections' \in [Conns -> SUBSET Endpoints]
    <3>1. bindings' \in [Conns -> SUBSET Endpoints]
      BY <1>1, <1>3, <1>4 DEF ConnTypeOK
    <3>2. connections' \in [Conns -> SUBSET Endpoints]
      BY <1>1, <1>3, <1>4 DEF ConnTypeOK
    <3> QED BY <3>1, <3>2
  <2>5. /\ sock' \in [Conns -> {"none", "open", "closed"}]
        /\ bound' \in [Conns -> SUBSET Endpoints]
        /\ linked' \in [Conns -> SUBSET Endpoints]
    <3>1. sock' \in [Conns -> {"none", "open", "closed"}]
      BY <1>1, <1>5 DEF ConnTypeOK
    <3>2. bound' \in [Conns -> SUBSET Endpoints]
      <4>1. CASE bound' = [bound EXCEPT ![c] = @ \cup B]
        BY <1>1, <1>3, <4>1 DEF ConnTypeOK
      <4>2. CASE bound' = [bound EXCEPT ![c] = {}]
        BY <1>1, <4>2 DEF ConnTypeOK
      <4> QED BY <1>5, <4>1, <4>2 DEF Unbound
    <3>3. linked' \in [Conns -> SUBSET Endpoints]
      <4>1. CASE linked' = [linked EXCEPT ![c] = @ \cup L]
        BY <1>1, <1>3, <4>1 DEF ConnTypeOK
      <4>2. CASE linked' = [linked EXCEPT ![c] = {}]
        BY <1>1, <4>2 DEF ConnTypeOK
      <4> QED BY <1>5, <4>1, <4>2 DEF Unbound
    <3> QED BY <3>1, <3>2, <3>3
  <2>6. filters' \in [Conns -> [Values -> 0..MaxFilters]]
    <3>1. [v \in Values |-> 0] \in [Values -> 0..MaxFilters]
      BY ConnectionAssumption
    <3>2. CASE filters' = filters
      BY <1>1, <3>2 DEF ConnTypeOK
    <3>3. CASE filters' = [filters EXCEPT ![c] = [v \in Values |-> 0]]
      BY <1>1, <3>1, <3>3 DEF ConnTypeOK
    <3> QED BY <1>5, <3>2, <3>3 DEF Unbound
  <2> QED BY <1>1, <1>8, <1>13, <2>1, <2>2, <2>3, <2>4, <2>5, <2>6 DEF ConnTypeOK
<1>14. ASSUME kind' = "zmq", NEW d \in Conns, task'[d] = "returned" PROVE d \in tracked'
  BY <1>1, <1>7, <1>8, <1>14 DEF ConnTypeOK, ConnInv, LoopOK, Track
<1>15. ASSUME NEW d \in tracked' PROVE task'[d] = "returned"
  BY <1>1, <1>7 DEF ConnTypeOK, ConnInv, LoopOK, Track
<1> QED BY <1>9, <1>10, <1>11, <1>12, <1>13, <1>14, <1>15

\* A task is woken: it was made by then, and what comes of it is told to the loop.
LEMMA RunWakeKeeps ==
  ASSUME ConnInv, NEW c \in Conns, RunWake(c)
  PROVE  ConnInv'
<1>1. /\ soon' = Tail(soon) /\ soon \in Seq(Calls) /\ soon # <<>> /\ loopOpen
      /\ Head(soon).call = "wake"
  BY FirstIs DEF RunWake
<1>2. Tail(soon) \in Seq(Calls)
  BY <1>1, HeadTailProperties
<1>3. CASE task[c] # "waiting"
  <2>1. UNCHANGED <<taskVars, sock, tranVars, bookVars, zmqVars, loopVars>>
    BY <1>3 DEF RunWake, Resume
  <2>2. QueueOK'
    <3>1. Fits(Tail(soon), sock, proto, connLost)
      BY <1>1, FitsTail DEF ConnInv, QueueOK
    <3> QED BY <1>1, <2>1, <3>1 DEF QueueOK, tranVars
  <2>3. ConnTypeOK'
    BY <1>1, <1>2, <2>1
      DEF ConnInv, ConnTypeOK, taskVars, tranVars, bookVars, zmqVars, loopVars
  <2>4. LoopOK'
    BY <1>1, <2>1 DEF ConnInv, LoopOK, taskVars, loopVars
  <2>5. \A d \in Conns : LifeOK(d)' /\ ToldOK(d)' /\ BooksOK(d)'
    BY <2>1 DEF ConnInv, LifeOK, ToldOK, NotTold, LeftOn, BooksOK, taskVars, tranVars, bookVars,
                zmqVars, loopVars
  <2> QED BY <2>2, <2>3, <2>4, <2>5 DEF ConnInv
<1>4. CASE task[c] = "waiting"
  <2>1. /\ plan' = [plan EXCEPT ![c] = <<>>]
        /\ UNCHANGED <<tranVars, subscriptions, kind, loopOpen>>
        /\ First("wake", c)
    BY <1>4 DEF RunWake, Resume
  <2>2. Len(plan[c]) \in Nat
    <3>1. plan[c] \in Plans \cup {<<>>} /\ Len(<<>>) = 0
      BY DEF ConnInv, ConnTypeOK
    <3> QED BY <3>1, ConnectionAssumption, LenProperties
  <2>3. PICK n \in 0..Len(plan[c]) : (Return(c) /\ n = Len(plan[c])) \/ Raise(c, n)
    BY <1>4, <2>2 DEF RunWake, Resume
  <2>4. /\ \A d \in Conns : LifeOK(d)' /\ ToldOK(d)' /\ BooksOK(d)'
        /\ \A d \in Conns : sock[d] # "none" => sock'[d] # "none"
        /\ soon' \in Seq(Calls) => ConnTypeOK'
        /\ kind' = "zmq" => \A d \in Conns : task'[d] = "returned" => d \in tracked'
        /\ \A d \in tracked' : task'[d] = "returned"
    BY <1>4, <2>1, <2>3, ResumeKeeps
  <2>5. QueueOK'
    <3>1. Fits(Tail(soon), sock', proto, connLost)
      BY <1>1, <2>4, FitsTail DEF ConnInv, QueueOK
    <3> QED BY <1>1, <2>1, <3>1 DEF QueueOK, tranVars
  <2>6. LoopOK'
    BY <1>1, <2>1, <2>4 DEF LoopOK
  <2> QED BY <1>1, <1>2, <2>4, <2>5, <2>6 DEF ConnInv
<1> QED BY <1>3, <1>4

\* connection_lost() is queued once, by a transport that goes from open to lost.
LEMMA LostSoonFits ==
  ASSUME ConnInv, NEW c \in Conns, Usable(c), ~connLost[c], LostSoon(c),
         connLost' = [connLost EXCEPT ![c] = TRUE],
         UNCHANGED <<sock, proto>>
  PROVE  soon' \in Seq(Calls) /\ QueueOK'
<1> DEFINE x == [call |-> "lost", conn |-> c]
<1>1. /\ soon \in Seq(Calls) /\ x \in Calls
      /\ proto[c] = "made" /\ sock[c] # "none"
      /\ connLost' \in [Conns -> BOOLEAN] /\ connLost'[c]
      /\ \A d \in Conns : connLost[d] => connLost'[d]
  <2>1. soon \in Seq(Calls) /\ x \in Calls
    BY DEF ConnInv, ConnTypeOK, Calls
  <2>2. proto[c] = "made" /\ sock[c] # "none"
    BY DEF Usable, ConnInv, LifeOK
  <2> QED BY <2>1, <2>2 DEF ConnInv, ConnTypeOK
<1>2. Fits(soon, sock, proto, connLost')
  BY <1>1, FitsOn DEF ConnInv, QueueOK
<1>3. ASSUME NEW i \in 1..Len(soon) PROVE Slot(soon[i]) # Slot(x)
  <2>1. soon[i] \in Calls
    BY <1>1, ElementOfSeq
  <2>2. CallOK(soon, i, soon[i].conn, sock, proto, connLost)
    BY DEF ConnInv, QueueOK, Fits
  <2>3. soon[i].conn = c => soon[i].call \notin {"made", "lost"}
    BY <1>1, <2>2 DEF CallOK
  <2> QED BY <1>1, <2>1, <2>3, SlotsAre
<1>4. Append(soon, x) \in Seq(Calls) /\ Fits(Append(soon, x), sock, proto, connLost')
  BY <1>1, <1>2, <1>3, FitsAppend
<1>5. soon' = Append(soon, x)
  BY DEF LostSoon
<1> QED BY <1>4, <1>5 DEF QueueOK

\* close(): what it leaves half closed had lost its socket to a creation that failed,
\* and a reader it leaves is that of a paused transport.
LEMMA CloseKeeps ==
  ASSUME ConnInv, NEW c \in Conns, Close(c)
  PROVE  ConnInv'
<1>1. ConnTypeOK /\ Usable(c) /\ ~closing[c] /\ ~connLost[c] /\ proto[c] = "made" /\ loopOpen
  BY DEF ConnInv, LifeOK, Close, Usable
<1>2. CASE kind = "zmq" /\ sock[c] = "closed" /\ ~paused[c]
  <2>1. /\ closing' = [closing EXCEPT ![c] = TRUE]
        /\ leftPaused' = [leftPaused EXCEPT ![c] = FALSE]
        /\ UNCHANGED <<soon, connLost, reader, paused, taskVars, sock, proto, bookVars, zmqVars,
                       loopVars>>
    BY <1>2 DEF Close
  <2>2. ConnTypeOK' /\ QueueOK'
    BY <1>1, <2>1 DEF ConnInv, QueueOK, ConnTypeOK, taskVars, bookVars, zmqVars, loopVars
  <2>3. LoopOK' /\ \A d \in Conns : BooksOK(d)'
    BY <2>1 DEF ConnInv, LoopOK, BooksOK, taskVars, bookVars, zmqVars, loopVars
  <2>4. \A d \in Conns : LifeOK(d)'
    BY <1>1, <2>1 DEF ConnInv, ConnTypeOK, LifeOK, taskVars
  <2>5. \A d \in Conns : ToldOK(d)'
    <3> TAKE d \in Conns
    <3>1. CASE d = c
      <4>1. NotTold(c)
        BY <1>1, <1>2 DEF NotTold
      <4>2. error'[c] = "OSError"
        BY <2>1, <4>1 DEF ConnInv, ToldOK, taskVars
      <4> QED BY <3>1, <4>2 DEF ToldOK
    <3>2. CASE d # c
      BY <1>1, <2>1, <3>2 DEF ConnInv, ConnTypeOK, ToldOK, NotTold, LeftOn, taskVars, loopVars
    <3> QED BY <3>1, <3>2
  <2> QED BY <2>2, <2>3, <2>4, <2>5 DEF ConnInv
<1>3. CASE ~(kind = "zmq" /\ sock[c] = "closed" /\ ~paused[c])
  <2>1. /\ closing' = [closing EXCEPT ![c] = TRUE]
        /\ connLost' = [connLost EXCEPT ![c] = TRUE]
        /\ leftPaused' = [leftPaused EXCEPT ![c] = kind = "plain" /\ paused[c]]
        /\ reader' = [reader EXCEPT ![c] = paused[c] /\ reader[c]]
        /\ LostSoon(c)
        /\ UNCHANGED <<taskVars, sock, paused, proto, bookVars, zmqVars, loopVars>>
    BY <1>3 DEF Close
  <2>2. soon' \in Seq(Calls) /\ QueueOK'
    BY <1>1, <2>1, LostSoonFits
  <2>3. ConnTypeOK'
    BY <1>1, <2>1, <2>2 DEF ConnTypeOK, taskVars, bookVars, zmqVars, loopVars
  <2>4. LoopOK' /\ \A d \in Conns : BooksOK(d)'
    BY <1>1, <2>1 DEF ConnInv, LoopOK, BooksOK, taskVars, bookVars, zmqVars, loopVars
  <2>5. \A d \in Conns : LifeOK(d)'
    BY <1>1, <2>1 DEF ConnInv, ConnTypeOK, LifeOK, taskVars
  <2>6. \A d \in Conns : ToldOK(d)'
    <3> TAKE d \in Conns
    <3>1. NotTold(d)' => NotTold(d)
      BY <1>1, <2>1 DEF ConnTypeOK, NotTold, loopVars
    <3>2. CASE d # c
      <4>1. LeftOn(d)' = LeftOn(d) /\ leftPaused'[d] = leftPaused[d]
        BY <1>1, <2>1, <3>2 DEF ConnTypeOK, LeftOn
      <4> QED BY <2>1, <3>1, <4>1 DEF ConnInv, ToldOK, taskVars
    <3>3. CASE d = c
      <4>1. ASSUME LeftOn(c)' PROVE error'[c] = "OSError" \/ leftPaused'[c]
        <5>1. paused[c] /\ reader[c]
          BY <1>1, <2>1, <4>1 DEF ConnTypeOK, LeftOn
        <5>2. CASE kind = "zmq"
          BY <2>1, <5>1, <5>2 DEF ConnInv, ToldOK, NotTold, taskVars
        <5>3. CASE kind = "plain"
          BY <1>1, <2>1, <5>1, <5>3 DEF ConnTypeOK
        <5> QED BY <1>1, <5>2, <5>3 DEF ConnTypeOK
      <4> QED BY <2>1, <3>1, <3>3, <4>1 DEF ConnInv, ToldOK, taskVars
    <3> QED BY <3>2, <3>3
  <2> QED BY <2>2, <2>3, <2>4, <2>5, <2>6 DEF ConnInv
<1> QED BY <1>2, <1>3

\* abort() and errors: a reader they leave is one that was not told.
LEMMA AbortKeeps ==
  ASSUME ConnInv, NEW c \in Conns, Abort(c)
  PROVE  ConnInv'
<1>1. ConnTypeOK /\ Usable(c) /\ ~connLost[c] /\ proto[c] = "made" /\ loopOpen
  BY DEF ConnInv, Abort, Usable
<1>2. /\ closing' = [closing EXCEPT ![c] = TRUE]
      /\ connLost' = [connLost EXCEPT ![c] = TRUE]
      /\ \/ reader' = reader /\ (closing[c] \/ (kind = "zmq" /\ paused[c]))
         \/ reader' = [reader EXCEPT ![c] = FALSE]
      /\ LostSoon(c)
      /\ UNCHANGED <<taskVars, sock, paused, leftPaused, proto, bookVars, zmqVars, loopVars>>
  BY DEF Abort
<1>3. soon' \in Seq(Calls) /\ QueueOK'
  BY <1>1, <1>2, LostSoonFits
<1>4. ConnTypeOK'
  BY <1>1, <1>2, <1>3 DEF ConnTypeOK, taskVars, bookVars, zmqVars, loopVars
<1>5. LoopOK' /\ \A d \in Conns : BooksOK(d)'
  BY <1>1, <1>2 DEF ConnInv, LoopOK, BooksOK, taskVars, bookVars, zmqVars, loopVars
<1>6. \A d \in Conns : LifeOK(d)'
  BY <1>1, <1>2 DEF ConnInv, ConnTypeOK, LifeOK, taskVars
<1>7. \A d \in Conns : ToldOK(d)'
  <2> TAKE d \in Conns
  <2>1. (NotTold(d)' => NotTold(d)) /\ (LeftOn(d)' => LeftOn(d) \/ NotTold(d))
    BY <1>1, <1>2 DEF ConnTypeOK, NotTold, LeftOn, loopVars
  <2> QED BY <1>2, <2>1 DEF ConnInv, ToldOK, taskVars
<1> QED BY <1>3, <1>4, <1>5, <1>6, <1>7 DEF ConnInv

\* pause_reading() and resume_reading(): a reader that stays under a paused transport
\* of a ZmqEventLoop is one of a socket that was closed without its knowledge.
LEMMA PauseKeeps ==
  ASSUME ConnInv, NEW c \in Conns, PauseReading(c) \/ ResumeReading(c)
  PROVE  ConnInv'
<1>1. ConnTypeOK /\ Usable(c) /\ proto[c] = "made" /\ loopOpen /\ sock[c] # "none"
  BY DEF ConnInv, LifeOK, PauseReading, ResumeReading, Usable
<1>2. UNCHANGED <<taskVars, soon, sock, leftPaused, closing, connLost, proto, bookVars, zmqVars,
                  loopVars>>
  BY DEF PauseReading, ResumeReading
<1>3. ConnTypeOK' /\ QueueOK' /\ LoopOK'
  BY <1>1, <1>2 DEF PauseReading, ResumeReading, Register, ConnInv, ConnTypeOK, QueueOK, LoopOK,
                    taskVars, bookVars, zmqVars, loopVars
<1>4. \A d \in Conns : LifeOK(d)' /\ BooksOK(d)'
  BY <1>1, <1>2 DEF PauseReading, ResumeReading, ConnInv, ConnTypeOK, LifeOK, BooksOK, taskVars,
                    bookVars, zmqVars
<1>5. \A d \in Conns : ToldOK(d)'
  <2> TAKE d \in Conns
  <2>1. CASE PauseReading(c)
    <3>1. (NotTold(d)' => NotTold(d)) /\ (LeftOn(d)' => LeftOn(d))
      BY <1>1, <1>2, <2>1 DEF PauseReading, Register, ConnTypeOK, NotTold, LeftOn, loopVars
    <3> QED BY <1>2, <3>1 DEF ConnInv, ToldOK, taskVars
  <2>2. CASE ResumeReading(c)
    <3>1. connLost[c] => closing[c]
      BY DEF ConnInv, LifeOK
    <3>2. (NotTold(d)' => NotTold(d)) /\ (LeftOn(d)' => LeftOn(d))
      BY <1>1, <1>2, <2>2, <3>1 DEF ResumeReading, Register, ConnTypeOK, NotTold, LeftOn, loopVars
    <3> QED BY <1>2, <3>2 DEF ConnInv, ToldOK, taskVars
  <2> QED BY <2>1, <2>2
<1> QED BY <1>3, <1>4, <1>5 DEF ConnInv

\* What the application does to the books of a connection with an open socket and
\* to what the socket has, it does to both.
BookStep(c) ==
  \/ \E e \in Endpoints : Bind(c, e) \/ Unbind(c, e) \/ Connect(c, e) \/ Disconnect(c, e)
  \/ \E v \in Values : Unsubscribe(c, v) \/ \E raw \in BOOLEAN : Subscribe(c, v, raw)

LEMMA BookStepKeepsBooks ==
  ASSUME ConnTypeOK, NEW c \in Conns, BooksOK(c), BookStep(c)
  PROVE  /\ bindings' \in [Conns -> SUBSET Endpoints]
         /\ connections' \in [Conns -> SUBSET Endpoints]
         /\ subscriptions' \in [Conns -> SUBSET Values]
         /\ bound' \in [Conns -> SUBSET Endpoints] /\ linked' \in [Conns -> SUBSET Endpoints]
         /\ filters' \in [Conns -> [Values -> 0..MaxFilters]]
         /\ BooksOK(c)'
         /\ \A d \in Conns : d # c =>
              /\ bindings'[d] = bindings[d] /\ connections'[d] = connections[d]
              /\ subscriptions'[d] = subscriptions[d]
              /\ bound'[d] = bound[d] /\ linked'[d] = linked[d] /\ filters'[d] = filters[d]
<1>1. ASSUME NEW e \in Endpoints, Bind(c, e) \/ Unbind(c, e)
      PROVE  /\ bindings' \in [Conns -> SUBSET Endpoints] /\ bound' \in [Conns -> SUBSET Endpoints]
             /\ UNCHANGED <<connections, subscriptions, linked, filters>>
             /\ \A d \in Conns : d # c => bindings'[d] = bindings[d] /\ bound'[d] = bound[d]
             /\ BooksOK(c)'
  <2>1. CASE Bind(c, e)
    <3>1. /\ bound' = [bound EXCEPT ![c] = @ \cup {e}]
          /\ bindings' = [bindings EXCEPT ![c] = @ \cup {e}] \/ bindings' = bindings
          /\ UNCHANGED <<sock, connections, subscriptions, linked, filters>>
          /\ sock[c] = "open"
      BY <2>1 DEF Bind
    <3>2. /\ bindings' \in [Conns -> SUBSET Endpoints]
          /\ \A d \in Conns : d # c => bindings'[d] = bindings[d]
          /\ bindings'[c] \subseteq bindings[c] \cup {e}
      <4>1. CASE bindings' = bindings
        BY <4>1 DEF ConnTypeOK
      <4>2. CASE bindings' = [bindings EXCEPT ![c] = @ \cup {e}]
        BY <4>2 DEF ConnTypeOK
      <4> QED BY <3>1, <4>1, <4>2
    <3>3. /\ bound' \in [Conns -> SUBSET Endpoints]
          /\ \A d \in Conns : d # c => bound'[d] = bound[d]
          /\ bound'[c] = bound[c] \cup {e}
      BY <3>1 DEF ConnTypeOK
    <3>4. BooksOK(c)'
      BY <3>1, <3>2, <3>3 DEF BooksOK
    <3> QED BY <3>1, <3>2, <3>3, <3>4
  <2>2. CASE Unbind(c, e)
    <3>1. /\ bound' = [bound EXCEPT ![c] = @ \ {e}]
          /\ bindings' = [bindings EXCEPT ![c] = @ \ {e}]
          /\ UNCHANGED <<sock, connections, subscriptions, linked, filters>>
          /\ sock[c] = "open"
      BY <2>2 DEF Unbind
    <3> QED BY <3>1 DEF ConnTypeOK, BooksOK
  <2> QED BY <1>1, <2>1, <2>2
<1>2. ASSUME NEW e \in Endpoints, Connect(c, e) \/ Disconnect(c, e)
      PROVE  /\ connections' \in [Conns -> SUBSET Endpoints]
             /\ linked' \in [Conns -> SUBSET Endpoints]
             /\ UNCHANGED <<bindings, subscriptions, bound, filters>>
             /\ \A d \in Conns : d # c => connections'[d] = connections[d] /\ linked'[d] = linked[d]
             /\ BooksOK(c)'
  <2>1. CASE Connect(c, e)
    <3>1. /\ linked' = [linked EXCEPT ![c] = @ \cup {e}]
          /\ connections' = [connections EXCEPT ![c] = @ \cup {e}]
          /\ UNCHANGED <<sock, bindings, subscriptions, bound, filters>>
          /\ sock[c] = "open"
      BY <2>1 DEF Connect
    <3> QED BY <3>1 DEF ConnTypeOK, BooksOK
  <2>2. CASE Disconnect(c, e)
    <3>1. /\ linked' = [linked EXCEPT ![c] = @ \ {e}]
          /\ connections' = [connections EXCEPT ![c] = @ \ {e}]
          /\ UNCHANGED <<sock, bindings, subscriptions, bound, filters>>
          /\ sock[c] = "open"
      BY <2>2 DEF Disconnect
    <3> QED BY <3>1 DEF ConnTypeOK, BooksOK
  <2> QED BY <1>2, <2>1, <2>2
<1>3. ASSUME NEW v \in Values, Unsubscribe(c, v) \/ \E raw \in BOOLEAN : Subscribe(c, v, raw)
      PROVE  /\ subscriptions' \in [Conns -> SUBSET Values]
             /\ filters' \in [Conns -> [Values -> 0..MaxFilters]]
             /\ UNCHANGED <<bindings, connections, bound, linked>>
             /\ \A d \in Conns : d # c => subscriptions'[d] = subscriptions[d]
                                          /\ filters'[d] = filters[d]
             /\ BooksOK(c)'
  <2>1. MaxFilters \in Nat /\ filters[c] \in [Values -> 0..MaxFilters]
    BY ConnectionAssumption DEF ConnTypeOK
  <2>2. CASE Unsubscribe(c, v)
    <3>1. filters'[c] = [filters[c] EXCEPT ![v] = IF filters[c][v] = 0 THEN 0 ELSE filters[c][v] - 1]
      BY <2>2 DEF Unsubscribe, ConnTypeOK
    <3>2. filters'[c] \in [Values -> 0..MaxFilters]
      BY <2>1, <3>1
    <3>3. \A u \in Values : u # v => filters'[c][u] = filters[c][u]
      BY <2>1, <3>1
    <3> QED BY <2>1, <2>2, <3>2, <3>3 DEF Unsubscribe, ConnTypeOK, BooksOK
  <2>3. ASSUME NEW raw \in BOOLEAN, Subscribe(c, v, raw)
        PROVE  /\ subscriptions' \in [Conns -> SUBSET Values]
               /\ filters' \in [Conns -> [Values -> 0..MaxFilters]]
               /\ UNCHANGED <<bindings, connections, bound, linked>>
               /\ \A d \in Conns : d # c => subscriptions'[d] = subscriptions[d]
                                            /\ filters'[d] = filters[d]
               /\ BooksOK(c)'
    <3>1. filters[c][v] < MaxFilters /\ filters'[c] = [filters[c] EXCEPT ![v] = filters[c][v] + 1]
      BY <2>3 DEF Subscribe, ConnTypeOK
    <3>2. filters'[c] \in [Values -> 0..MaxFilters] /\ filters'[c][v] > 0
      BY <2>1, <3>1
    <3>3. \A u \in Values : u # v => filters'[c][u] = filters[c][u]
      BY <2>1, <3>1
    <3> QED BY <2>1, <2>3, <3>2, <3>3 DEF Subscribe, ConnTypeOK, BooksOK
  <2> QED BY <1>3, <2>2, <2>3
<1>4. CASE \E e \in Endpoints : Bind(c, e) \/ Unbind(c, e)
  BY <1>1, <1>4 DEF ConnTypeOK
<1>5. CASE \E e \in Endpoints : Connect(c, e) \/ Disconnect(c, e)
  BY <1>2, <1>5 DEF ConnTypeOK
<1>6. CASE \E v \in Values : Unsubscribe(c, v) \/ \E raw \in BOOLEAN : Subscribe(c, v, raw)
  BY <1>3, <1>6 DEF ConnTypeOK
<1> QED BY <1>4, <1>5, <1>6 DEF BookStep

LEMMA BookStepKeeps ==
  ASSUME ConnInv, NEW c \in Conns, BookStep(c)
  PROVE  ConnInv'
<1>1. /\ UNCHANGED <<taskVars, soon, tranVars, loopVars>>
      /\ sock' = sock
  BY DEF BookStep, Bind, Unbind, Connect, Disconnect, Subscribe, Unsubscribe
<1>2. ConnTypeOK /\ BooksOK(c)
  BY DEF ConnInv
<1>3. /\ bindings' \in [Conns -> SUBSET Endpoints]
      /\ connections' \in [Conns -> SUBSET Endpoints]
      /\ subscriptions' \in [Conns -> SUBSET Values]
      /\ bound' \in [Conns -> SUBSET Endpoints] /\ linked' \in [Conns -> SUBSET Endpoints]
      /\ filters' \in [Conns -> [Values -> 0..MaxFilters]]
      /\ BooksOK(c)'
      /\ \A d \in Conns : d # c =>
           /\ bindings'[d] = bindings[d] /\ connections'[d] = connections[d]
           /\ subscriptions'[d] = subscriptions[d]
           /\ bound'[d] = bound[d] /\ linked'[d] = linked[d] /\ filters'[d] = filters[d]
  BY <1>2, BookStepKeepsBooks
<1>4. ConnTypeOK' /\ QueueOK' /\ LoopOK'
  BY <1>1, <1>2, <1>3 DEF ConnInv, ConnTypeOK, QueueOK, LoopOK, taskVars, tranVars, loopVars
<1>5. \A d \in Conns : LifeOK(d)' /\ ToldOK(d)'
  BY <1>1 DEF ConnInv, LifeOK, ToldOK, NotTold, LeftOn, taskVars, tranVars, loopVars
<1>6. ASSUME NEW d \in Conns PROVE BooksOK(d)'
  <2>1. CASE d # c
    BY <1>1, <1>3, <2>1 DEF ConnInv, BooksOK
  <2> QED BY <1>3, <2>1
<1> QED BY <1>4, <1>5, <1>6 DEF ConnInv

\* close() of the loop.
LEMMA CloseLoopKeeps ==
  ASSUME ConnInv, CloseLoop
  PROVE  ConnInv'
<1>1. ConnTypeOK'
  <2>1. [v \in Values |-> 0] \in [Values -> 0..MaxFilters] /\ <<>> \in Seq(Calls)
    BY ConnectionAssumption, EmptySeq
  <2>2. /\ sock' \in [Conns -> {"none", "open", "closed"}] /\ reader' \in [Conns -> BOOLEAN]
        /\ bound' \in [Conns -> SUBSET Endpoints] /\ linked' \in [Conns -> SUBSET Endpoints]
    BY DEF CloseLoop, ConnInv, ConnTypeOK
  <2>3. filters' \in [Conns -> [Values -> 0..MaxFilters]]
    BY <2>1 DEF CloseLoop, ConnInv, ConnTypeOK
  <2> QED BY <2>1, <2>2, <2>3 DEF CloseLoop, ConnInv, ConnTypeOK, taskVars, bookVars
<1>2. QueueOK'
  BY EmptySeq DEF CloseLoop, QueueOK, Fits, OneEach
<1>3. LoopOK'
  BY DEF CloseLoop, ConnInv, ConnTypeOK, LoopOK, taskVars
<1>4. \A d \in Conns : LifeOK(d)'
  BY DEF CloseLoop, ConnInv, ConnTypeOK, LoopOK, LifeOK, taskVars
<1>5. \A d \in Conns : ToldOK(d)'
  BY DEF CloseLoop, ConnInv, ToldOK, NotTold, LeftOn, taskVars
<1>6. \A d \in Conns : BooksOK(d)'
  BY DEF CloseLoop, ConnInv, ConnTypeOK, BooksOK, bookVars
<1> QED BY <1>1, <1>2, <1>3, <1>4, <1>5, <1>6 DEF ConnInv

LEMMA ConnInvNext == ConnInv /\ [Next]_vars => ConnInv'
<1> SUFFICES ASSUME ConnInv, [Next]_vars PROVE ConnInv'
  OBVIOUS
<1>1. ASSUME NEW c \in Conns, NEW p \in Plans,
             NEW before \in {{}} \cup {{e} : e \in {f \in Endpoints : Free(f)}},
             Create(c, p, before)
      PROVE  ConnInv'
  <2>1. before \in SUBSET Endpoints
    OBVIOUS
  <2> QED BY <1>1, <2>1, CreateKeeps
<1>2. ASSUME NEW c \in Conns, CreateRefused(c) \/ Cancel(c) PROVE ConnInv'
  BY <1>2, TaskStepsKeep
<1>3. ASSUME NEW c \in Conns, Use(c) PROVE ConnInv'
  <2>1. Close(c) \/ Abort(c) \/ PauseReading(c) \/ ResumeReading(c) \/ BookStep(c)
    BY <1>3 DEF Use, BookStep
  <2> QED BY <2>1, CloseKeeps, AbortKeeps, PauseKeeps, BookStepKeeps
<1>4. CASE RunSoon
  BY <1>4, RunMadeKeeps, RunWaiterKeeps, RunWakeKeeps, RunLostKeeps DEF RunSoon
<1>5. CASE CloseLoop
  BY <1>5, CloseLoopKeeps
<1>6. CASE UNCHANGED vars
  BY <1>6 DEF vars, ConnInv, ConnTypeOK, QueueOK, LoopOK, LifeOK, ToldOK, NotTold, LeftOn, BooksOK
<1> QED BY <1>1, <1>2, <1>3, <1>4, <1>5, <1>6 DEF Next

LEMMA ConnInvHolds == Spec => []ConnInv
BY ConnInvInit, ConnInvNext, PTL DEF Spec

-----------------------------------------------------------------------------
(* What follows.                                                           *)

\* The types of the variables, with two calls queued at most for a connection; the
\* books list nothing that an open socket does not have; and only a creation that
\* failed half way, or on a plain loop a close() while reading was paused, leaves a
\* closed socket registered: whatever is paused, closed, aborted, cancelled or brought
\* along, and in whatever order.
THEOREM BooksHold == Spec => []Books
<1>1. ConnInv => TypeOK
  <2>1. ConnInv => Len(soon) <= 2 * Cardinality(Conns)
    BY QueueBound DEF ConnInv, ConnTypeOK, QueueOK, Fits
  <2> QED BY <2>1 DEF ConnInv, ConnTypeOK, TypeOK, Calls
<1>2. ConnInv => BooksTruthful
  BY DEF ConnInv, BooksOK, BooksTruthful
<1>3. ConnInv => StrandedKnown
  BY DEF ConnInv, ToldOK, LeftOn, StrandedKnown, Stranded
<1> QED BY <1>1, <1>2, <1>3, ConnInvHolds, PTL DEF Books

\* create_zmq_connection() returns no protocol before its connection_made() was
\* called, although the task is woken by a callback of its own: the loop calls in
\* the order the constructor of the transport asked for.
THEOREM ReturnedWasMadeHolds == Spec => []ReturnedWasMade
<1>1. ConnInv => ReturnedWasMade
  BY DEF ConnInv, LifeOK, ReturnedWasMade
<1> QED BY <1>1, ConnInvHolds, PTL

\* A closed ZmqEventLoop leaves no socket open of a connection that was returned,
\* and none is returned afterwards.
THEOREM LoopClosesSocketsHolds == Spec => []LoopClosesSockets
<1>1. ConnInv => LoopClosesSockets
  BY DEF ConnInv, LoopOK, LoopClosesSockets
<1> QED BY <1>1, ConnInvHolds, PTL

=============================================================================
