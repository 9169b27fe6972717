---------------------------- MODULE MonitorProofs ----------------------------
(***************************************************************************)
(* Proofs about Monitor, for any number of calls of enable_monitor(), of   *)
(* events and of their readers: no monitor connection is forgotten that    *)
(* was not overtaken, no event comes late, events are read in their order, *)
(* and one reader is never left waiting for what is there.                 *)
(***************************************************************************)
EXTENDS Monitor, SequenceTheorems, TLAPS

-----------------------------------------------------------------------------
(* The stream's half.                                                      *)

\* What a bounded deque keeps is the end of what it was given.
LEMMA LastProperties ==
  ASSUME NEW S, NEW s \in Seq(S), NEW n \in Nat
  PROVE  /\ Last(s, n) \in Seq(S)
         /\ Len(Last(s, n)) = IF Len(s) <= n THEN Len(s) ELSE n
         /\ \A k \in 1..Len(Last(s, n)) : Last(s, n)[k] = s[Len(s) - Len(Last(s, n)) + k]
<1>1. CASE Len(s) <= n
  <2>1. Last(s, n) = s /\ Len(s) \in Nat
    BY <1>1 DEF Last
  <2> QED BY <1>1, <2>1
<1>2. CASE ~(Len(s) <= n)
  <2> DEFINE m == Len(s) - n
  <2>1. m \in Nat /\ m >= 1 /\ Len(s) = m + n /\ Len(s) - n + 1 = m + 1
    BY <1>2
  <2> DEFINE a == m + 1
             b == m + n
  <2>2. Last(s, n) = SubSeq(s, a, b)
    BY <1>2, <2>1 DEF Last
  <2>3. \A k \in a..b : s[k] \in S
    BY <2>1
  <2>4. a \in Int /\ b \in Int
    BY <2>1
  <2>5. /\ (IF a <= b THEN b - a + 1 ELSE 0) = n /\ b - a + 1 = n
        /\ \A k \in 1..n : a + k - 1 = m + k
    BY <2>1
  <2> HIDE DEF m, a, b
  <2>6. /\ Last(s, n) \in Seq(S)
        /\ Len(Last(s, n)) = IF a <= b THEN b - a + 1 ELSE 0
        /\ \A k \in 1..(b - a + 1) : Last(s, n)[k] = s[a + k - 1]
    BY <2>2, <2>3, <2>4, SubSeqProperties
  <2>7. Len(Last(s, n)) = n /\ \A k \in 1..n : Last(s, n)[k] = s[m + k]
    BY <2>5, <2>6
  <2>8. Len(s) - n = m
    BY <2>1
  <2> QED BY <1>2, <2>6, <2>7, <2>8
<1> QED BY <1>1, <1>2

\* Every method of the stream keeps the types.
LEMMA FeedEventType ==
  ASSUME StreamTypeOK, NEW e \in 1..MaxEvents, FeedEvent(e)
  PROVE  StreamTypeOK'
<1>1. CASE closing
  BY <1>1 DEF FeedEvent, StreamTypeOK, streamVars
<1>2. CASE ~closing
  <2>1. /\ evQueue' = Last(Append(evQueue, e), backlog) /\ fed' = Append(fed, e)
        /\ WakeReader("woken")
        /\ UNCHANGED <<closing, exception, backlog, got, emptyReads>>
    BY <1>2 DEF FeedEvent
  <2>2. backlog \in Nat /\ Append(evQueue, e) \in Seq(1..MaxEvents)
    BY EventsAssumption DEF StreamTypeOK
  <2>3. /\ Last(Append(evQueue, e), backlog) \in Seq(1..MaxEvents)
        /\ Len(Last(Append(evQueue, e), backlog)) <= backlog
    <3> DEFINE q == Append(evQueue, e)
    <3>1. q \in Seq(1..MaxEvents) /\ Len(q) \in Nat /\ backlog \in Nat
      BY <2>2
    <3> HIDE DEF q
    <3>2. /\ Last(q, backlog) \in Seq(1..MaxEvents)
          /\ Len(Last(q, backlog)) = IF Len(q) <= backlog THEN Len(q) ELSE backlog
      BY <3>1, LastProperties
    <3>3. Len(Last(q, backlog)) <= backlog
      BY <3>1, <3>2
    <3> QED BY <3>2, <3>3 DEF q
  <2>4. fed' \in Seq(1..MaxEvents)
    BY <2>1 DEF StreamTypeOK
  <2>5. /\ evWaiter' \in EventReaders \cup {NoReader}
        /\ er' \in [EventReaders -> {"idle", "waiting", "woken", "raised", "cancelled"}]
    BY <2>1 DEF StreamTypeOK, WakeReader
  <2> QED BY <2>1, <2>3, <2>4, <2>5 DEF StreamTypeOK
<1> QED BY <1>1, <1>2

LEMMA EndOfStreamType ==
  ASSUME StreamTypeOK, FeedClosing \/ SetException
  PROVE  StreamTypeOK'
<1>1. /\ evWaiter' \in EventReaders \cup {NoReader}
      /\ er' \in [EventReaders -> {"idle", "waiting", "woken", "raised", "cancelled"}]
  BY DEF StreamTypeOK, WakeReader, FeedClosing, SetException
<1>2. {closing', exception', emptyReads'} \subseteq BOOLEAN
  BY DEF StreamTypeOK, FeedClosing, SetException
<1>3. UNCHANGED <<evQueue, fed, got, backlog>>
  BY DEF FeedClosing, SetException
<1> QED BY <1>1, <1>2, <1>3 DEF StreamTypeOK

LEMMA PopType ==
  ASSUME StreamTypeOK, PopEvent
  PROVE  /\ evQueue' \in Seq(1..MaxEvents) /\ Len(evQueue') <= backlog
         /\ got' \in Seq(1..MaxEvents) /\ emptyReads' \in BOOLEAN
<1>1. CASE evQueue = <<>>
  BY <1>1 DEF PopEvent, StreamTypeOK
<1>2. CASE evQueue # <<>>
  <2>1. /\ evQueue' = Tail(evQueue) /\ got' = Append(got, Head(evQueue))
        /\ emptyReads' = emptyReads
    BY <1>2 DEF PopEvent
  <2>2. Head(evQueue) \in 1..MaxEvents /\ Tail(evQueue) \in Seq(1..MaxEvents)
    BY <1>2, HeadTailProperties DEF StreamTypeOK
  <2>3. Len(Tail(evQueue)) <= backlog
    <3>1. Len(evQueue) \in Nat /\ Len(Tail(evQueue)) = Len(evQueue) - 1 /\ backlog \in Nat
      BY <1>2, EventsAssumption DEF StreamTypeOK
    <3> QED BY <3>1 DEF StreamTypeOK
  <2> QED BY <2>1, <2>2, <2>3 DEF StreamTypeOK
<1> QED BY <1>1, <1>2

LEMMA ReadEventType ==
  ASSUME StreamTypeOK, NEW r \in EventReaders, ReadEvent(r) \/ CancelReadEvent(r)
  PROVE  StreamTypeOK'
<1>1. CASE ReadEventAtOnce(r)
  BY <1>1, PopType DEF ReadEventAtOnce, StreamTypeOK
<1>2. CASE ReadEventWoken(r)
  BY <1>2, PopType DEF ReadEventWoken, StreamTypeOK
<1>3. CASE ReadEventWait(r) \/ ReadEventRaises(r) \/ CancelReadEvent(r)
  <2>1. /\ evWaiter' \in EventReaders \cup {NoReader}
        /\ er' \in [EventReaders -> {"idle", "waiting", "woken", "raised", "cancelled"}]
    BY <1>3 DEF StreamTypeOK, ReadEventWait, ReadEventRaises, CancelReadEvent
  <2>2. UNCHANGED <<evQueue, fed, got, backlog, closing, exception, emptyReads>>
    BY <1>3 DEF ReadEventWait, ReadEventRaises, CancelReadEvent
  <2> QED BY <2>1, <2>2 DEF StreamTypeOK
<1> QED BY <1>1, <1>2, <1>3 DEF ReadEvent

-----------------------------------------------------------------------------
(* The queue of the loop, and the types.                                   *)

Calls == [call : {"made", "wake", "lost"}, of : Mons \cup {0}]

QueueType == soon \in Seq(Calls)
ConnType ==
  /\ monitor \in Mons \cup {0} /\ feeding \in Mons \cup {0}
  /\ mon \in [Mons -> {"none", "open", "closing", "lost"}]
  /\ en \in [Mons -> {"none", "waiting", "cancelled", "done"}]
  /\ {overtaken, late} \subseteq SUBSET Mons
EventType == wire \in [Mons -> Seq(1..MaxEvents)] /\ made \in 0..MaxEvents
EndType ==
  /\ kind \in {"zmq", "loopless"} /\ failed \in BOOLEAN /\ flushed \in BOOLEAN
  /\ tr \in {"open", "flushing", "ending", "lost"}

Types == StreamTypeOK /\ QueueType /\ ConnType /\ EventType /\ EndType

LEMMA TypeSplit == TypeOK <=> Types
BY DEF Types, TypeOK, QueueType, ConnType, EventType, EndType, Calls

\* The call that the loop makes is gone.
LEMMA RunTail ==
  ASSUME QueueType, NEW name, NEW i, Run(name, i)
  PROVE  /\ soon # <<>> /\ soon[1] = Call(name, i)
         /\ Tail(soon) \in Seq(Calls) /\ Len(soon) \in Nat
         /\ Len(Tail(soon)) = Len(soon) - 1
         /\ \A k \in 1..Len(Tail(soon)) : Tail(soon)[k] = soon[k + 1]
<1>1. soon # <<>> /\ Head(soon) = Call(name, i) /\ soon \in Seq(Calls)
  BY DEF Run, QueueType
<1> QED BY <1>1, HeadTailProperties

LEMMA CallType ==
  ASSUME NEW name \in {"made", "wake", "lost"}, NEW i \in Mons \cup {0}
  PROVE  Call(name, i) \in Calls /\ <<Call(name, i)>> \in Seq(Calls)
BY DEF Call, Calls

\* What disabling the monitor asks of the loop.
Ending == IF monitor = 0 THEN <<>> ELSE <<Call("lost", monitor)>>

LEMMA DisableType ==
  ASSUME QueueType, ConnType, EventType, NEW next \in Seq(Calls), DisableMonitor(next),
         UNCHANGED <<en, late, made>>, overtaken' \subseteq Mons
  PROVE  QueueType' /\ ConnType' /\ EventType'
<1>1. Ending \in Seq(Calls)
  BY CallType DEF Ending, ConnType
<1>2. soon' = soon \o Ending \o next
  BY DEF DisableMonitor, Ending
<1>3. QueueType'
  BY <1>1, <1>2 DEF QueueType
<1>4. /\ monitor' = 0 /\ feeding' \in Mons \cup {0}
      /\ mon' \in [Mons -> {"none", "open", "closing", "lost"}]
  BY DEF DisableMonitor, ConnType
<1>5. EventType'
  BY DEF EventType, DisableMonitor
<1> QED BY <1>3, <1>4, <1>5 DEF ConnType

LEMMA LoseType ==
  ASSUME Types, Lose, QueueType'
  PROVE  Types'
<1>1. StreamTypeOK'
  BY EndOfStreamType DEF Lose, Types
<1> QED BY <1>1
        DEF Types, Lose, monVars, zmqVars, ConnType, EventType, EndType

LEMMA TypeNext == ASSUME Types, [Next]_vars PROVE Types'
<1> USE DEF Types
<1>1. CASE UNCHANGED vars
  BY <1>1 DEF vars, streamVars, trVars, monVars, zmqVars, StreamTypeOK, QueueType, ConnType,
              EventType, EndType
<1>2. ASSUME UNCHANGED <<streamVars, trVars>> PROVE StreamTypeOK' /\ EndType'
  BY <1>2 DEF streamVars, trVars, StreamTypeOK, EndType
<1>3. ASSUME NEW i \in Mons, Enable(i) PROVE Types'
  <2>1. QueueType'
    BY <1>3, CallType DEF Enable, QueueType
  <2>2. Waiting \subseteq Mons
    BY DEF Waiting
  <2>3. ConnType'
    BY <1>3, <2>2 DEF Enable, ConnType, zmqVars
  <2>4. EventType'
    BY <1>3 DEF Enable, zmqVars, EventType
  <2> QED BY <1>2, <1>3, <2>1, <2>3, <2>4 DEF Enable
<1>4. ASSUME NEW i \in Mons, CancelEnable(i) PROVE Types'
  BY <1>2, <1>4 DEF CancelEnable, QueueType, ConnType, zmqVars, EventType
<1>5. ASSUME NEW i \in Mons, Deliver(i) PROVE Types'
  <2>1. wire[i] \in Seq(1..MaxEvents) /\ wire[i] # <<>>
    BY <1>5 DEF Deliver, EventType
  <2>2. Head(wire[i]) \in 1..MaxEvents /\ Tail(wire[i]) \in Seq(1..MaxEvents)
    BY <2>1, HeadTailProperties
  <2>3. StreamTypeOK'
    BY <1>5, <2>2, FeedEventType DEF Deliver
  <2>4. EventType'
    BY <1>5, <2>2 DEF Deliver, EventType
  <2>5. QueueType' /\ ConnType' /\ EndType'
    BY <1>5 DEF Deliver, monVars, trVars, QueueType, ConnType, EndType
  <2> QED BY <2>3, <2>4, <2>5
<1>6. CASE Disable
  <2>1. <<>> \in Seq(Calls)
    OBVIOUS
  <2>2. QueueType' /\ ConnType' /\ EventType'
    BY <1>6, <2>1, DisableType DEF Disable, ConnType
  <2> QED BY <1>2, <1>6, <2>2 DEF Disable
<1>7. CASE Emit
  <2>1. made' \in 1..MaxEvents /\ feeding \in Mons
    BY <1>7, EventsAssumption DEF Emit, EventType, ConnType
  <2>2. EventType'
    <3>1. wire' = [wire EXCEPT ![feeding] = Append(wire[feeding], made')]
      BY <1>7 DEF Emit
    <3>2. Append(wire[feeding], made') \in Seq(1..MaxEvents)
      BY <2>1 DEF EventType
    <3> QED BY <2>1, <3>1, <3>2 DEF EventType
  <2>3. QueueType' /\ ConnType'
    BY <1>7 DEF Emit, monVars, QueueType, ConnType
  <2> QED BY <1>2, <1>7, <2>2, <2>3 DEF Emit
<1>8. ASSUME Close \/ \E error \in BOOLEAN : ForceClose(error) PROVE Types'
  <2>1. <<>> \in Seq(Calls) /\ LoseSoon \in Seq(Calls)
    BY CallType DEF LoseSoon
  <2>2. overtaken' \subseteq Mons
    BY <1>8 DEF Close, ForceClose, ConnType, Waiting
  <2>3. UNCHANGED <<en, late, made>> /\ UNCHANGED streamVars
    BY <1>8 DEF Close, ForceClose
  <2>4. PICK next \in Seq(Calls) : DisableMonitor(next)
    BY <1>8, <2>1 DEF Close, ForceClose
  <2>5. QueueType' /\ ConnType' /\ EventType'
    BY <2>2, <2>3, <2>4, DisableType
  <2>6. EndType'
    BY <1>8 DEF Close, ForceClose, EndType
  <2>7. StreamTypeOK'
    BY <2>3 DEF streamVars, StreamTypeOK
  <2> QED BY <2>5, <2>6, <2>7
<1>9. CASE Flush
  BY <1>9, LoseType DEF Flush, QueueType
<1>10. CASE RunLost
  <2>1. QueueType'
    BY <1>10, RunTail DEF RunLost, QueueType
  <2> QED BY <1>10, <2>1, LoseType DEF RunLost
<1>11. ASSUME NEW i \in Mons, RunMade(i) PROVE Types'
  <2>1. QueueType'
    <3>1. Tail(soon) \in Seq(Calls)
      BY <1>11, RunTail DEF RunMade
    <3>2. (IF en[i] = "waiting" THEN <<Call("wake", i)>> ELSE <<>>) \in Seq(Calls)
      BY CallType
    <3> QED BY <1>11, <3>1, <3>2 DEF RunMade, QueueType
  <2>2. ConnType' /\ EventType'
    BY <1>11 DEF RunMade, monVars, zmqVars, ConnType, EventType
  <2> QED BY <1>2, <1>11, <2>1, <2>2 DEF RunMade
<1>12. ASSUME NEW i \in Mons, RunWake(i) PROVE Types'
  <2>1. QueueType'
    BY <1>12, RunTail DEF RunWake, QueueType
  <2>2. ConnType'
    <3>1. Fed(i) \subseteq Mons \cup {0}
      BY DEF Fed, ConnType
    <3> QED BY <1>12, <3>1 DEF RunWake, ConnType
  <2>3. EventType'
    BY <1>12 DEF RunWake, EventType
  <2> QED BY <1>2, <1>12, <2>1, <2>2, <2>3 DEF RunWake
<1>13. ASSUME NEW i \in Mons, RunMonitorLost(i) PROVE Types'
  <2>1. QueueType'
    BY <1>13, RunTail DEF RunMonitorLost, QueueType
  <2>2. ConnType' /\ EventType'
    BY <1>13 DEF RunMonitorLost, ConnType, EventType
  <2> QED BY <1>2, <1>13, <2>1, <2>2 DEF RunMonitorLost
<1>14. ASSUME NEW r \in EventReaders, Reader(r) PROVE Types'
  <2>1. StreamTypeOK'
    BY <1>14, ReadEventType DEF Reader
  <2> QED BY <1>14, <2>1
          DEF Reader, trVars, monVars, zmqVars, QueueType, ConnType, EventType, EndType
<1> QED BY <1>1, <1>3, <1>4, <1>5, <1>6, <1>7, <1>8, <1>9, <1>10, <1>11, <1>12, <1>13, <1>14
        DEF Next, RunSoon

LEMMA TypeInit == Init => Types
<1> SUFFICES ASSUME Init PROVE Types
  OBVIOUS
<1>1. StreamTypeOK
  <2>1. evQueue = <<>> /\ Len(evQueue) = 0 /\ backlog \in Nat /\ backlog \in Backlogs
    BY EventsAssumption DEF Init, StreamInit
  <2>2. evQueue \in Seq(1..MaxEvents) /\ fed \in Seq(1..MaxEvents) /\ got \in Seq(1..MaxEvents)
    BY DEF Init, StreamInit
  <2>3. /\ evWaiter \in EventReaders \cup {NoReader}
        /\ er \in [EventReaders -> {"idle", "waiting", "woken", "raised", "cancelled"}]
        /\ {closing, exception, emptyReads} \subseteq BOOLEAN
    BY DEF Init, StreamInit
  <2>4. Len(evQueue) <= backlog
    BY <2>1
  <2> QED BY <2>1, <2>2, <2>3, <2>4 DEF StreamTypeOK
<1>2. QueueType /\ ConnType /\ EndType
  <2>1. QueueType
    BY DEF Init, QueueType
  <2>2. ConnType
    BY DEF Init, ConnType
  <2>3. EndType
    BY DEF Init, EndType
  <2> QED BY <2>1, <2>2, <2>3
<1>3. EventType
  <2>1. 0 \in 0..MaxEvents
    BY EventsAssumption
  <2> QED BY <2>1 DEF Init, EventType
<1> QED BY <1>1, <1>2, <1>3 DEF Types

-----------------------------------------------------------------------------
(* Who owns the monitor connections.                                       *)

\* Why an open connection is the monitor's unless it was overtaken.  Of calls of
\* enable_monitor() that wait side by side each overtakes the other; one that
\* waits when the transport ends is overtaken by that; and a monitor that is there
\* while a call waits, or once the transport has been closed, belongs to a call
\* that was overtaken.
Overtaken ==
  /\ \A i, j \in Waiting : i # j => i \in overtaken
  /\ \A i \in Waiting : tr # "open" => i \in overtaken
  /\ monitor # 0 /\ (tr # "open" \/ Waiting # {}) => monitor \in overtaken

\* The loop loses the transport only after it was closed.
NoEnd(calls) == \A k \in 1..Len(calls) : calls[k] # Call("lost", 0)
EndAsked == tr \in {"open", "flushing"} => NoEnd(soon)

OwnInv == Types /\ Overtaken /\ EndAsked /\ MonitorsOwned

LEMMA NoEndTail ==
  ASSUME QueueType, NEW name, NEW i, Run(name, i), NoEnd(soon)
  PROVE  NoEnd(Tail(soon))
<1>1. ASSUME NEW k \in 1..Len(Tail(soon)) PROVE Tail(soon)[k] # Call("lost", 0)
  <2>1. k + 1 \in 1..Len(soon) /\ Tail(soon)[k] = soon[k + 1]
    BY RunTail
  <2> QED BY <2>1 DEF NoEnd
<1> QED BY <1>1 DEF NoEnd

LEMMA NoEndConcat ==
  ASSUME NEW s \in Seq(Calls), NEW t \in Seq(Calls), NoEnd(s), NoEnd(t)
  PROVE  NoEnd(s \o t)
<1>1. ASSUME NEW k \in 1..Len(s \o t) PROVE (s \o t)[k] # Call("lost", 0)
  <2>1. Len(s) \in Nat /\ Len(t) \in Nat /\ Len(s \o t) = Len(s) + Len(t)
    OBVIOUS
  <2>2. CASE k \in 1..Len(s)
    BY <2>2 DEF NoEnd
  <2>3. CASE k \notin 1..Len(s)
    <3>1. k - Len(s) \in 1..Len(t) /\ (s \o t)[k] = t[k - Len(s)]
      BY <2>1, <2>3
    <3> QED BY <3>1 DEF NoEnd
  <2> QED BY <2>2, <2>3
<1> QED BY <1>1 DEF NoEnd

LEMMA NoEndOne ==
  /\ NoEnd(<<>>)
  /\ \A name, i : name # "lost" \/ i # 0 => NoEnd(<<Call(name, i)>>)
<1>0. NoEnd(<<>>)
  BY DEF NoEnd
<1> SUFFICES ASSUME NEW name, NEW i, name # "lost" \/ i # 0
             PROVE  NoEnd(<<Call(name, i)>>)
  BY <1>0
<1>1. Call(name, i) # Call("lost", 0)
  BY DEF Call
<1>2. Len(<<Call(name, i)>>) = 1 /\ <<Call(name, i)>>[1] = Call(name, i) /\ Len(<<>>) = 0
  OBVIOUS
<1> QED BY <1>1, <1>2 DEF NoEnd

LEMMA NoEndEnding ==
  ASSUME ConnType
  PROVE  NoEnd(Ending) /\ Ending \in Seq(Calls)
<1>1. CASE monitor = 0
  <2>1. NoEnd(<<>>) /\ <<>> \in Seq(Calls)
    BY NoEndOne
  <2> QED BY <1>1, <2>1 DEF Ending
<1>2. CASE monitor # 0
  <2>1. NoEnd(<<Call("lost", monitor)>>)
    BY <1>2, NoEndOne
  <2> QED BY <1>2, <2>1, CallType DEF Ending, ConnType
<1> QED BY <1>1, <1>2

\* What no connection, no call of enable_monitor() and not the transport notices.
LEMMA OwnKept ==
  ASSUME OwnInv, UNCHANGED <<tr, monitor, mon, en, overtaken>>, Types', EndAsked'
  PROVE  OwnInv'
BY DEF OwnInv, Overtaken, MonitorsOwned, Waiting

\* The monitor, if there is one, is disabled.
LEMMA DisableKeepsOwned ==
  ASSUME OwnInv, NEW next, DisableMonitor(next), UNCHANGED en, overtaken \subseteq overtaken',
         tr # "lost", tr' # "lost",
         UNCHANGED tr \/ Waiting \subseteq overtaken'
  PROVE  Overtaken' /\ MonitorsOwned'
<1>1. /\ monitor' = 0 /\ Waiting' = Waiting
      /\ \A i \in Mons : mon'[i] = IF i = monitor THEN "closing" ELSE mon[i]
  BY DEF DisableMonitor, Waiting, OwnInv, Types, ConnType
<1>2. Overtaken'
  BY <1>1 DEF OwnInv, Overtaken
<1>3. ASSUME NEW i \in Mons, mon'[i] = "open", en'[i] # "waiting"
      PROVE  i \in overtaken'
  BY <1>1, <1>3 DEF OwnInv, MonitorsOwned
<1> QED BY <1>2, <1>3 DEF MonitorsOwned

LEMMA LoseKeepsOwned ==
  ASSUME OwnInv, Lose, tr # "open", Types'
  PROVE  OwnInv'
<1>1. tr' = "lost" /\ UNCHANGED <<monitor, mon, en, overtaken>> /\ Waiting' = Waiting
  BY DEF Lose, monVars, Waiting
<1>2. Overtaken' /\ EndAsked'
  BY <1>1 DEF OwnInv, Overtaken, EndAsked
<1>3. ASSUME NEW i \in Mons, mon[i] = "open", en[i] # "waiting"
      PROVE  i \in overtaken
  <2>1. CASE monitor = i
    <3>1. monitor # 0
      BY <2>1 DEF Mons
    <3> QED BY <2>1, <3>1 DEF OwnInv, Overtaken
  <2>2. CASE monitor # i
    BY <1>3, <2>2 DEF OwnInv, MonitorsOwned
  <2> QED BY <2>1, <2>2
<1> QED BY <1>1, <1>2, <1>3 DEF OwnInv, MonitorsOwned

LEMMA OwnNext == ASSUME OwnInv, [Next]_vars PROVE OwnInv'
<1>0. Types /\ Types' /\ QueueType /\ ConnType /\ 0 \notin Mons
  BY TypeNext, TypeSplit DEF OwnInv, Types, Mons
<1>1. CASE UNCHANGED <<tr, monitor, mon, en, overtaken, soon>>
  BY <1>0, <1>1, OwnKept DEF OwnInv, EndAsked
<1>2. ASSUME NEW i \in Mons, Enable(i) PROVE OwnInv'
  <2>1. /\ tr # "lost" /\ monitor = 0 /\ UNCHANGED <<tr, monitor>>
        /\ mon' = [mon EXCEPT ![i] = "open"] /\ en' = [en EXCEPT ![i] = "waiting"]
        /\ soon' = Append(soon, Call("made", i))
        /\ overtaken' = IF Waiting = {} /\ tr = "open" THEN overtaken
                        ELSE overtaken \cup Waiting \cup {i}
    BY <1>2 DEF Enable, trVars
  <2>2. Waiting' = Waiting \cup {i}
    BY <1>0, <2>1 DEF Waiting, ConnType
  <2>3. Overtaken'
    BY <2>1, <2>2 DEF OwnInv, Overtaken
  <2>4. EndAsked'
    <3>1. soon' = soon \o <<Call("made", i)>>
      BY <1>0, <2>1, CallType DEF QueueType
    <3>2. NoEnd(<<Call("made", i)>>) /\ <<Call("made", i)>> \in Seq(Calls)
      BY NoEndOne, CallType
    <3> QED BY <1>0, <2>1, <3>1, <3>2, NoEndConcat DEF OwnInv, EndAsked, QueueType
  <2>5. MonitorsOwned'
    <3>1. ASSUME NEW j \in Mons, mon'[j] = "open", en'[j] # "waiting"
          PROVE  monitor' # j \/ tr' = "lost" => j \in overtaken'
      <4>1. j # i /\ mon[j] = "open" /\ en[j] # "waiting"
        BY <1>0, <2>1, <3>1 DEF ConnType
      <4> QED BY <2>1, <4>1 DEF OwnInv, MonitorsOwned
    <3> QED BY <3>1 DEF MonitorsOwned
  <2> QED BY <1>0, <2>3, <2>4, <2>5 DEF OwnInv
<1>3. ASSUME NEW i \in Mons, CancelEnable(i) PROVE OwnInv'
  <2>1. /\ en' = [en EXCEPT ![i] = "cancelled"] /\ overtaken' = overtaken \cup {i}
        /\ UNCHANGED <<tr, monitor, mon, soon>>
    BY <1>3 DEF CancelEnable, trVars
  <2>2. Waiting' \subseteq Waiting
    BY <1>0, <2>1 DEF Waiting, ConnType
  <2>3. Overtaken' /\ EndAsked'
    BY <2>1, <2>2 DEF OwnInv, Overtaken, EndAsked
  <2>4. ASSUME NEW j \in Mons, mon'[j] = "open", en'[j] # "waiting"
        PROVE  monitor' # j \/ tr' = "lost" => j \in overtaken'
    <3>1. CASE j = i
      BY <2>1, <3>1
    <3>2. CASE j # i
      BY <1>0, <2>1, <2>4, <3>2 DEF ConnType, OwnInv, MonitorsOwned
    <3> QED BY <3>1, <3>2
  <2> QED BY <1>0, <2>3, <2>4 DEF OwnInv, MonitorsOwned
<1>4. CASE Disable
  <2>1. DisableMonitor(<<>>) /\ UNCHANGED <<en, overtaken, tr>> /\ tr # "lost"
    BY <1>4 DEF Disable, trVars
  <2>2. Overtaken' /\ MonitorsOwned'
    BY <2>1, DisableKeepsOwned
  <2>3. EndAsked'
    <3>1. soon' = soon \o Ending \o <<>>
      BY <2>1 DEF DisableMonitor, Ending
    <3>2. soon' = soon \o Ending
      BY <1>0, <3>1, NoEndEnding DEF QueueType
    <3> QED BY <1>0, <2>1, <3>2, NoEndEnding, NoEndConcat DEF OwnInv, EndAsked, QueueType
  <2> QED BY <1>0, <2>2, <2>3 DEF OwnInv
<1>5. CASE Close
  <2>1. PICK next : DisableMonitor(next)
    BY <1>5 DEF Close
  <2>2. /\ UNCHANGED en /\ overtaken' = overtaken \cup Waiting
        /\ tr = "open" /\ tr' \in {"flushing", "ending"}
    BY <1>5 DEF Close
  <2>3. Overtaken' /\ MonitorsOwned'
    BY <2>1, <2>2, DisableKeepsOwned
  <2>4. EndAsked'
    <3>1. CASE tr' = "ending"
      BY <3>1 DEF EndAsked
    <3>2. CASE tr' = "flushing"
      <4>1. DisableMonitor(<<>>)
        BY <1>5, <3>2 DEF Close
      <4>2. soon' = soon \o Ending \o <<>>
        BY <4>1 DEF DisableMonitor, Ending
      <4>3. soon' = soon \o Ending
        BY <1>0, <4>2, NoEndEnding DEF QueueType
      <4> QED BY <1>0, <2>2, <4>3, NoEndEnding, NoEndConcat DEF OwnInv, EndAsked, QueueType
    <3> QED BY <2>2, <3>1, <3>2
  <2> QED BY <1>0, <2>3, <2>4 DEF OwnInv
<1>6. ASSUME NEW error \in BOOLEAN, ForceClose(error) PROVE OwnInv'
  <2>1. /\ DisableMonitor(LoseSoon) /\ UNCHANGED en /\ overtaken' = overtaken \cup Waiting
        /\ tr # "lost" /\ tr' = "ending"
    BY <1>6 DEF ForceClose
  <2>2. Overtaken' /\ MonitorsOwned'
    BY <2>1, DisableKeepsOwned
  <2> QED BY <1>0, <2>1, <2>2 DEF OwnInv, EndAsked
<1>7. CASE Flush
  BY <1>0, <1>7, LoseKeepsOwned DEF Flush
<1>8. CASE RunLost
  <2>1. ~NoEnd(soon)
    <3>1. 1 \in 1..Len(soon) /\ soon[1] = Call("lost", 0)
      BY <1>0, <1>8, RunTail DEF RunLost
    <3> QED BY <3>1 DEF NoEnd
  <2> QED BY <1>0, <1>8, <2>1, LoseKeepsOwned DEF RunLost, OwnInv, EndAsked
<1>9. ASSUME NEW i \in Mons, RunMade(i) PROVE OwnInv'
  <2> DEFINE more == IF en[i] = "waiting" THEN <<Call("wake", i)>> ELSE <<>>
  <2>1. UNCHANGED <<tr, monitor, mon, en, overtaken>> /\ soon' = Tail(soon) \o more
    BY <1>9 DEF RunMade, trVars, monVars
  <2>2. more \in Seq(Calls) /\ NoEnd(more)
    BY CallType, NoEndOne
  <2>3. EndAsked'
    <3>1. Run("made", i) /\ Tail(soon) \in Seq(Calls)
      BY <1>0, <1>9, RunTail DEF RunMade
    <3> HIDE DEF more
    <3> QED BY <1>0, <2>1, <2>2, <3>1, NoEndTail, NoEndConcat DEF OwnInv, EndAsked
  <2> QED BY <1>0, <2>1, <2>3, OwnKept
<1>10. ASSUME NEW i \in Mons, RunWake(i) PROVE OwnInv'
  <2>1. EndAsked'
    BY <1>0, <1>10, NoEndTail DEF RunWake, OwnInv, EndAsked, trVars
  <2>2. CASE en[i] # "waiting"
    BY <1>0, <1>10, <2>1, <2>2, OwnKept DEF RunWake, trVars
  <2>3. CASE en[i] = "waiting"
    <3>1. /\ en' = [en EXCEPT ![i] = "done"] /\ monitor' = i
          /\ UNCHANGED <<tr, mon, overtaken>>
      BY <1>10, <2>3 DEF RunWake, trVars
    <3>2. Waiting' = Waiting \ {i} /\ i \in Waiting
      BY <1>0, <2>3, <3>1 DEF Waiting, ConnType
    <3>3. Overtaken'
      BY <3>1, <3>2 DEF OwnInv, Overtaken
    <3>4. ASSUME NEW j \in Mons, mon'[j] = "open", en'[j] # "waiting",
                 monitor' # j \/ tr' = "lost"
          PROVE  j \in overtaken'
      <4>1. CASE j = i
        BY <3>1, <3>2, <3>4, <4>1 DEF OwnInv, Overtaken
      <4>2. CASE j # i
        <5>1. en[j] # "waiting" /\ mon[j] = "open"
          BY <1>0, <3>1, <3>4, <4>2 DEF ConnType
        <5>2. CASE monitor = j
          BY <1>0, <3>1, <3>2, <5>2 DEF OwnInv, Overtaken
        <5>3. CASE monitor # j
          BY <3>1, <5>1, <5>3 DEF OwnInv, MonitorsOwned
        <5> QED BY <5>2, <5>3
      <4> QED BY <4>1, <4>2
    <3> QED BY <1>0, <2>1, <3>3, <3>4 DEF OwnInv, MonitorsOwned
  <2> QED BY <2>2, <2>3
<1>11. ASSUME NEW i \in Mons, RunMonitorLost(i) PROVE OwnInv'
  <2>1. /\ UNCHANGED <<tr, monitor, en, overtaken>> /\ mon' = [mon EXCEPT ![i] = "lost"]
        /\ soon' = Tail(soon) /\ Run("lost", i)
    BY <1>11 DEF RunMonitorLost, trVars
  <2>2. EndAsked'
    BY <1>0, <2>1, NoEndTail DEF OwnInv, EndAsked
  <2>3. \A j \in Mons : mon'[j] = "open" => mon[j] = "open"
    BY <1>0, <2>1 DEF ConnType
  <2>4. MonitorsOwned' /\ Overtaken'
    BY <2>1, <2>3 DEF OwnInv, MonitorsOwned, Overtaken, Waiting
  <2> QED BY <1>0, <2>2, <2>4 DEF OwnInv
<1>12. CASE \/ UNCHANGED vars \/ Emit
            \/ \E i \in Mons : Deliver(i)
            \/ \E r \in EventReaders : Reader(r)
  BY <1>1, <1>12 DEF vars, trVars, monVars, Emit, Deliver, Reader
<1> QED BY <1>2, <1>3, <1>4, <1>5, <1>6, <1>7, <1>8, <1>9, <1>10, <1>11, <1>12
        DEF Next, RunSoon

LEMMA OwnInit == Init => OwnInv
<1> SUFFICES ASSUME Init PROVE OwnInv
  OBVIOUS
<1>1. Waiting = {} /\ monitor = 0 /\ \A i \in Mons : mon[i] = "none"
  BY DEF Init, Waiting
<1>2. NoEnd(soon)
  BY DEF Init, NoEnd
<1> QED BY <1>1, <1>2, TypeInit DEF OwnInv, Overtaken, EndAsked, MonitorsOwned

\* Every open monitor connection is the one that _monitor stands for, of a
\* transport that is not lost, unless an enable_monitor() was overtaken by a
\* cancellation, by another call or by the end of the transport (enable_monitor,
\* _disable_monitor, close, abort, _fatal_error).
THEOREM MonitorsOwnedHolds == Spec => []MonitorsOwned
<1>1. OwnInv /\ [Next]_vars => OwnInv'
  BY OwnNext
<1>2. OwnInv => MonitorsOwned
  BY DEF OwnInv
<1> QED BY OwnInit, <1>1, <1>2, PTL DEF Spec

-----------------------------------------------------------------------------
(* Events after the end.                                                   *)

\* Why no event comes late: what ends a monitor connection is called before what
\* ends the transport, unless the transport ends without the loop, by a flush, or
\* the monitor is one that was overtaken.
Ahead(calls, i) ==
  \E k \in 1..Len(calls) :
    calls[k] = Call("lost", i) /\ \A j \in 1..(k - 1) : calls[j] # Call("lost", 0)

Timely ==
  /\ tr = "flushing" => flushed
  /\ \A i \in Mons :
       mon[i] = "closing" /\ i \notin overtaken /\ ~flushed => tr # "lost" /\ Ahead(soon, i)

LateInv == OwnInv /\ Timely /\ EventsInTime

LEMMA AheadTail ==
  ASSUME QueueType, NEW name, NEW j, Run(name, j), NEW i, Ahead(soon, i),
         Call(name, j) # Call("lost", i)
  PROVE  Ahead(Tail(soon), i)
<1>1. PICK k \in 1..Len(soon) :
        soon[k] = Call("lost", i) /\ \A h \in 1..(k - 1) : soon[h] # Call("lost", 0)
  BY DEF Ahead
<1>2. /\ soon[1] = Call(name, j) /\ Len(soon) \in Nat /\ Len(Tail(soon)) = Len(soon) - 1
      /\ \A h \in 1..Len(Tail(soon)) : Tail(soon)[h] = soon[h + 1]
  BY RunTail
<1>3. k - 1 \in 1..Len(Tail(soon)) /\ (k - 1) + 1 = k
  BY <1>1, <1>2
<1>4. Tail(soon)[k - 1] = Call("lost", i)
  BY <1>1, <1>2, <1>3
<1>5. ASSUME NEW h \in 1..((k - 1) - 1) PROVE Tail(soon)[h] # Call("lost", 0)
  <2>1. h \in 1..Len(Tail(soon)) /\ h + 1 \in 1..(k - 1)
    BY <1>2, <1>3
  <2> QED BY <1>1, <1>2, <2>1
<1> QED BY <1>3, <1>4, <1>5 DEF Ahead

LEMMA AheadOfEnd ==
  ASSUME QueueType, Run("lost", 0), NEW i \in Mons
  PROVE  ~Ahead(soon, i)
<1> SUFFICES ASSUME Ahead(soon, i) PROVE FALSE
  OBVIOUS
<1>1. PICK k \in 1..Len(soon) :
        soon[k] = Call("lost", i) /\ \A h \in 1..(k - 1) : soon[h] # Call("lost", 0)
  BY DEF Ahead
<1>2. soon[1] = Call("lost", 0) /\ Call("lost", 0) # Call("lost", i)
  BY RunTail DEF Call, Mons
<1>3. k # 1 /\ 1 \in 1..(k - 1)
  BY <1>1, <1>2
<1> QED BY <1>1, <1>2, <1>3

LEMMA AheadConcat ==
  ASSUME NEW s \in Seq(Calls), NEW t \in Seq(Calls), NEW i, Ahead(s, i)
  PROVE  Ahead(s \o t, i)
<1>1. PICK k \in 1..Len(s) :
        s[k] = Call("lost", i) /\ \A h \in 1..(k - 1) : s[h] # Call("lost", 0)
  BY DEF Ahead
<1>2. /\ Len(s) \in Nat /\ Len(t) \in Nat /\ Len(s \o t) = Len(s) + Len(t)
      /\ \A h \in 1..Len(s) : (s \o t)[h] = s[h]
  OBVIOUS
<1>3. k \in 1..Len(s \o t) /\ \A h \in 1..(k - 1) : h \in 1..Len(s)
  BY <1>1, <1>2
<1> QED BY <1>1, <1>2, <1>3 DEF Ahead

LEMMA AheadNew ==
  ASSUME NEW s \in Seq(Calls), NoEnd(s), NEW i \in Mons
  PROVE  Ahead(s \o <<Call("lost", i)>>, i)
<1> DEFINE q == s \o <<Call("lost", i)>>
           n == Len(s) + 1
<1>1. /\ Len(s) \in Nat /\ n \in 1..Len(q) /\ q[n] = Call("lost", i)
      /\ \A h \in 1..Len(s) : q[h] = s[h]
  <2>1. q = Append(s, Call("lost", i)) /\ Len(s) \in Nat
    BY CallType
  <2> QED BY <2>1, AppendProperties, CallType
<1>2. \A h \in 1..(n - 1) : h \in 1..Len(s)
  BY <1>1
<1> HIDE DEF q, n
<1>3. Ahead(q, i)
  BY <1>1, <1>2 DEF Ahead, NoEnd
<1> QED BY <1>3 DEF q

\* Disabling the monitor of a transport that was not closed comes in time.
LEMMA DisableIsTimely ==
  ASSUME LateInv, NEW next \in Seq(Calls), DisableMonitor(next),
         overtaken \subseteq overtaken', flushed => flushed',
         tr \in {"open", "ending"} \/ flushed', tr = "ending" => UNCHANGED tr,
         tr # "lost", tr' # "lost"
  PROVE  \A i \in Mons : mon'[i] = "closing" /\ i \notin overtaken' /\ ~flushed' =>
           tr' # "lost" /\ Ahead(soon', i)
<1>1. QueueType /\ ConnType
  BY DEF LateInv, OwnInv, Types
<1>2. soon' = (soon \o Ending) \o next /\ Ending \in Seq(Calls)
  BY <1>1, NoEndEnding DEF DisableMonitor, Ending
<1> SUFFICES ASSUME NEW i \in Mons, mon'[i] = "closing", i \notin overtaken', ~flushed'
             PROVE  Ahead(soon', i)
  OBVIOUS
<1>3. i \notin overtaken /\ ~flushed /\ tr \in {"open", "ending"}
  OBVIOUS
<1>4. Ahead(soon \o Ending, i)
  <2>1. CASE i = monitor
    <3>1. monitor # 0
      BY <2>1 DEF Mons
    <3>2. tr = "open"
      BY <1>3, <2>1, <3>1 DEF LateInv, OwnInv, Overtaken
    <3>3. NoEnd(soon)
      BY <3>2 DEF LateInv, OwnInv, EndAsked
    <3> QED BY <1>1, <2>1, <3>1, <3>3, AheadNew DEF Ending, QueueType
  <2>2. CASE i # monitor
    <3>1. mon[i] = "closing"
      BY <1>1, <2>2 DEF DisableMonitor, ConnType
    <3>2. Ahead(soon, i)
      BY <1>3, <3>1 DEF LateInv, Timely
    <3> QED BY <1>1, <1>2, <3>2, AheadConcat DEF QueueType
  <2> QED BY <2>1, <2>2
<1>5. soon \o Ending \in Seq(Calls)
  BY <1>1, <1>2 DEF QueueType
<1> HIDE DEF Ending
<1> QED BY <1>2, <1>4, <1>5, AheadConcat

\* A step that changes no connection to "closing", nor the end of the transport.
LEMMA TimelyKept ==
  ASSUME LateInv, UNCHANGED <<tr, flushed>>, overtaken \subseteq overtaken',
         \A i \in Mons : mon'[i] = "closing" => mon[i] = "closing",
         \A i \in Mons : mon'[i] = "closing" /\ Ahead(soon, i) => Ahead(soon', i)
  PROVE  Timely'
BY DEF LateInv, Timely

LEMMA TimelyNext == ASSUME LateInv, [Next]_vars PROVE Timely'
<1>0. QueueType /\ ConnType /\ EndType
  BY DEF LateInv, OwnInv, Types
<1>1. CASE UNCHANGED <<tr, flushed, mon, soon>> /\ overtaken \subseteq overtaken'
  BY <1>1, TimelyKept
<1>2. ASSUME NEW i \in Mons, Enable(i) PROVE Timely'
  <2>1. /\ UNCHANGED <<tr, flushed>> /\ overtaken \subseteq overtaken'
        /\ mon' = [mon EXCEPT ![i] = "open"] /\ soon' = Append(soon, Call("made", i))
    BY <1>2 DEF Enable, trVars
  <2>2. soon' = soon \o <<Call("made", i)>> /\ <<Call("made", i)>> \in Seq(Calls)
    <3>1. Call("made", i) \in Calls /\ <<Call("made", i)>> \in Seq(Calls)
      BY CallType
    <3> QED BY <1>0, <2>1, <3>1 DEF QueueType
  <2>3. \A j \in Mons : Ahead(soon, j) => Ahead(soon', j)
    BY <1>0, <2>2, AheadConcat DEF QueueType
  <2>4. \A j \in Mons : mon'[j] = "closing" => mon[j] = "closing"
    BY <1>0, <2>1 DEF ConnType
  <2> QED BY <2>1, <2>3, <2>4, TimelyKept
<1>3. CASE Disable
  <2>1. /\ DisableMonitor(<<>>) /\ <<>> \in Seq(Calls) /\ UNCHANGED <<overtaken, tr, flushed>>
        /\ tr # "lost"
    BY <1>3 DEF Disable, trVars
  <2>2. tr \in {"open", "ending"} \/ flushed'
    BY <1>0, <2>1 DEF EndType, LateInv, Timely
  <2> QED BY <2>1, <2>2, DisableIsTimely DEF Timely, LateInv
<1>4. CASE Close
  <2>1. PICK next \in Seq(Calls) : DisableMonitor(next)
    <3>1. <<>> \in Seq(Calls) /\ LoseSoon \in Seq(Calls)
      BY CallType DEF LoseSoon
    <3> QED BY <1>4, <3>1 DEF Close
  <2>2. /\ overtaken \subseteq overtaken' /\ tr = "open" /\ tr' \in {"flushing", "ending"}
        /\ tr' = "flushing" => flushed'
        /\ flushed => flushed'
    BY <1>4 DEF Close
  <2> QED BY <2>1, <2>2, DisableIsTimely DEF Timely
<1>5. ASSUME NEW error \in BOOLEAN, ForceClose(error) PROVE Timely'
  <2>1. /\ DisableMonitor(LoseSoon) /\ LoseSoon \in Seq(Calls) /\ tr' = "ending"
        /\ overtaken \subseteq overtaken' /\ tr \in {"open", "flushing"} /\ UNCHANGED flushed
    BY <1>5, CallType DEF ForceClose, LoseSoon
  <2>2. tr = "flushing" => flushed'
    BY <2>1 DEF LateInv, Timely
  <2> QED BY <2>1, <2>2, DisableIsTimely DEF Timely
<1>6. CASE Flush
  <2>1. flushed /\ flushed' /\ tr' = "lost"
    BY <1>6 DEF Flush, Lose, LateInv, Timely
  <2> QED BY <2>1 DEF Timely
<1>7. CASE RunLost
  <2>1. \A i \in Mons : mon[i] = "closing" => i \in overtaken \/ flushed
    BY <1>0, <1>7, AheadOfEnd DEF RunLost, LateInv, Timely
  <2>2. tr' = "lost" /\ UNCHANGED <<mon, overtaken, flushed>>
    BY <1>7 DEF RunLost, Lose, monVars
  <2> QED BY <2>1, <2>2 DEF Timely
<1>8. ASSUME NEW i \in Mons, RunMade(i) PROVE Timely'
  <2> DEFINE more == IF en[i] = "waiting" THEN <<Call("wake", i)>> ELSE <<>>
  <2>1. UNCHANGED <<tr, flushed, mon, overtaken>> /\ soon' = Tail(soon) \o more
    BY <1>8 DEF RunMade, trVars, monVars
  <2>2. more \in Seq(Calls) /\ Run("made", i) /\ Tail(soon) \in Seq(Calls)
    BY <1>0, <1>8, CallType, RunTail DEF RunMade
  <2> HIDE DEF more
  <2>3. ASSUME NEW j \in Mons, Ahead(soon, j) PROVE Ahead(soon', j)
    <3>1. Call("made", i) # Call("lost", j)
      BY DEF Call
    <3>2. Ahead(Tail(soon), j)
      BY <1>0, <2>2, <2>3, <3>1, AheadTail
    <3> QED BY <2>1, <2>2, <3>2, AheadConcat
  <2> QED BY <2>1, <2>3, TimelyKept
<1>9. ASSUME NEW i \in Mons, RunWake(i) PROVE Timely'
  <2>1. UNCHANGED <<tr, flushed, mon, overtaken>> /\ soon' = Tail(soon) /\ Run("wake", i)
    BY <1>9 DEF RunWake, trVars
  <2>2. ASSUME NEW j \in Mons, Ahead(soon, j) PROVE Ahead(soon', j)
    <3>1. Call("wake", i) # Call("lost", j)
      BY DEF Call
    <3> QED BY <1>0, <2>1, <2>2, <3>1, AheadTail
  <2> QED BY <2>1, <2>2, TimelyKept
<1>10. ASSUME NEW i \in Mons, RunMonitorLost(i) PROVE Timely'
  <2>1. /\ UNCHANGED <<tr, flushed, overtaken>> /\ soon' = Tail(soon) /\ Run("lost", i)
        /\ mon' = [mon EXCEPT ![i] = "lost"]
    BY <1>10 DEF RunMonitorLost, trVars
  <2>2. \A j \in Mons : mon'[j] = "closing" => j # i /\ mon[j] = "closing"
    BY <1>0, <2>1 DEF ConnType
  <2>3. ASSUME NEW j \in Mons, j # i, Ahead(soon, j) PROVE Ahead(soon', j)
    <3>1. Call("lost", i) # Call("lost", j)
      BY <2>3 DEF Call
    <3> QED BY <1>0, <2>1, <2>3, <3>1, AheadTail
  <2> QED BY <2>1, <2>2, <2>3, TimelyKept
<1>11. CASE \/ UNCHANGED vars \/ Emit
            \/ \E i \in Mons : CancelEnable(i) \/ Deliver(i)
            \/ \E r \in EventReaders : Reader(r)
  BY <1>1, <1>11 DEF vars, trVars, monVars, Emit, CancelEnable, Deliver, Reader
<1> QED BY <1>2, <1>3, <1>4, <1>5, <1>6, <1>7, <1>8, <1>9, <1>10, <1>11 DEF Next, RunSoon

\* What excuses a late event.
Excused(j) == j \in overtaken \/ (kind = "loopless" /\ flushed)

LEMMA LateNext == ASSUME LateInv, [Next]_vars PROVE EventsInTime'
<1>1. /\ overtaken \subseteq overtaken' /\ UNCHANGED kind
      /\ flushed => flushed'
  <2>1. overtaken \subseteq overtaken'
    BY DEF Next, RunSoon, RunLost, Lose, Flush, Enable, CancelEnable, Deliver, Disable, Emit,
           Close, ForceClose, RunMade, RunWake, RunMonitorLost, Reader, vars, monVars
  <2>2. UNCHANGED kind
    BY DEF Next, RunSoon, RunLost, Lose, Flush, Enable, CancelEnable, Deliver, Disable, Emit,
           Close, ForceClose, RunMade, RunWake, RunMonitorLost, Reader, vars, trVars
  <2>3. UNCHANGED flushed \/ (flushed' = TRUE)
    BY DEF Next, RunSoon, RunLost, Lose, Flush, Enable, CancelEnable, Deliver, Disable, Emit,
           Close, ForceClose, RunMade, RunWake, RunMonitorLost, Reader, vars, trVars
  <2> QED BY <2>1, <2>2, <2>3
<1>2. flushed \in BOOLEAN /\ flushed' \in BOOLEAN
  BY TypeNext, TypeSplit DEF LateInv, OwnInv, Types, EndType
<1>3. late \subseteq Mons /\ \A j \in late : Excused(j)
  BY DEF LateInv, OwnInv, Types, ConnType, EventsInTime, Excused
<1>4. ASSUME late' \subseteq Mons, \A j \in late' : Excused(j) PROVE EventsInTime'
  <2>1. ASSUME NEW j \in late' PROVE j \in overtaken' \/ (kind' = "loopless" /\ flushed')
    <3>1. j \in overtaken \/ (kind = "loopless" /\ flushed)
      BY <1>4 DEF Excused
    <3> QED BY <1>1, <1>2, <3>1
  <2> QED BY <2>1 DEF EventsInTime
<1>5. CASE UNCHANGED late
  BY <1>3, <1>4, <1>5
<1>6. ASSUME NEW i \in Mons, Deliver(i) PROVE EventsInTime'
  <2>1. CASE tr # "lost"
    BY <1>5, <1>6, <2>1 DEF Deliver
  <2>2. CASE tr = "lost"
    <3>1. late' = late \cup {i}
      BY <1>6, <2>2 DEF Deliver
    <3>2. CASE mon[i] = "open"
      <4>1. i \in overtaken
        BY <2>2, <3>2 DEF LateInv, OwnInv, Overtaken, MonitorsOwned, Waiting
      <4> QED BY <1>3, <1>4, <3>1, <4>1 DEF Excused
    <3>3. CASE mon[i] = "closing" /\ kind = "loopless"
      <4>1. i \in overtaken \/ flushed
        BY <2>2, <3>3 DEF LateInv, Timely
      <4> QED BY <1>3, <1>4, <3>1, <3>3, <4>1 DEF Excused
    <3> QED BY <1>6, <3>2, <3>3 DEF Deliver, Receives
  <2> QED BY <2>1, <2>2
<1>7. ~(\E i \in Mons : Deliver(i)) => UNCHANGED late
  BY DEF Next, RunSoon, RunLost, Lose, Flush, Enable, CancelEnable, Disable, Emit, Close,
         ForceClose, RunMade, RunWake, RunMonitorLost, Reader, vars
<1> QED BY <1>5, <1>6, <1>7

\* No event reaches the protocol after connection_lost(), but from a monitor that
\* was overtaken and, on a plain loop, after a flush: the call that ends the
\* monitor is always ahead of the one that ends the transport (_disable_monitor in
\* close() and _force_close()).
THEOREM EventsInTimeHolds == Spec => []EventsInTime
<1>1. Init => LateInv
  <2> SUFFICES ASSUME Init PROVE LateInv
    OBVIOUS
  <2>1. tr = "open" /\ late = {} /\ \A i \in Mons : mon[i] = "none"
    BY DEF Init
  <2> QED BY <2>1, OwnInit DEF LateInv, Timely, EventsInTime
<1>2. LateInv /\ [Next]_vars => LateInv'
  BY OwnNext, TimelyNext, LateNext DEF LateInv
<1>3. LateInv => EventsInTime
  BY DEF LateInv
<1> QED BY <1>1, <1>2, <1>3, PTL DEF Spec

-----------------------------------------------------------------------------
(* The reader of events.                                                   *)

\* One reader is woken for an event that is there when it runs.
OneReader == \A r, s \in EventReaders : r = s
ReaderInv ==
  /\ Types /\ EventReaderServed
  /\ \A r \in EventReaders : er[r] = "woken" /\ backlog # 0 => evQueue # <<>>

LEMMA FeedEventServes ==
  ASSUME ReaderInv, NEW e \in 1..MaxEvents, FeedEvent(e), Types'
  PROVE  ReaderInv'
<1>1. CASE closing
  BY <1>1 DEF FeedEvent, streamVars, ReaderInv, EventReaderServed
<1>2. CASE ~closing
  <2>1. /\ evQueue' = Last(Append(evQueue, e), backlog) /\ WakeReader("woken")
        /\ UNCHANGED <<closing, backlog, emptyReads>>
    BY <1>2 DEF FeedEvent
  <2>2. backlog # 0 => evQueue' # <<>>
    <3> SUFFICES ASSUME backlog # 0 PROVE evQueue' # <<>>
      OBVIOUS
    <3> DEFINE q == Append(evQueue, e)
    <3>1. q \in Seq(1..MaxEvents) /\ Len(q) \in Nat /\ Len(q) >= 1 /\ backlog \in Nat
      <4>1. evQueue \in Seq(1..MaxEvents)
        BY DEF ReaderInv, Types, StreamTypeOK
      <4>2. q \in Seq(1..MaxEvents) /\ Len(q) = Len(evQueue) + 1 /\ Len(evQueue) \in Nat
        BY <4>1, AppendProperties
      <4>3. backlog \in Nat
        BY EventsAssumption DEF ReaderInv, Types, StreamTypeOK
      <4> HIDE DEF q
      <4> QED BY <4>2, <4>3
    <3> HIDE DEF q
    <3>2. Len(Last(q, backlog)) = IF Len(q) <= backlog THEN Len(q) ELSE backlog
      BY <3>1, LastProperties
    <3>3. Len(Last(q, backlog)) # 0
      BY <3>1, <3>2
    <3> QED BY <2>1, <3>3 DEF q
  <2>3. \A r \in EventReaders : er'[r] # "waiting"
    BY <2>1 DEF WakeReader, ReaderInv, EventReaderServed
  <2> QED BY <2>1, <2>2, <2>3 DEF ReaderInv, EventReaderServed
<1> QED BY <1>1, <1>2

LEMMA EndServes ==
  ASSUME ReaderInv, FeedClosing \/ SetException, Types'
  PROVE  ReaderInv'
<1>1. /\ WakeReader("raised") /\ UNCHANGED <<evQueue, backlog, emptyReads>>
  BY DEF FeedClosing, SetException
<1>2. \A r \in EventReaders : er'[r] # "waiting" /\ (er'[r] = "woken" => er[r] = "woken")
  BY <1>1 DEF WakeReader, ReaderInv, EventReaderServed, Types, StreamTypeOK
<1> QED BY <1>1, <1>2 DEF ReaderInv, EventReaderServed

LEMMA PopServes ==
  ASSUME ReaderInv, PopEvent, UNCHANGED backlog, evQueue = <<>> => backlog = 0
  PROVE  emptyReads' => backlog' = 0
BY DEF PopEvent, ReaderInv, EventReaderServed

LEMMA ReadEventServes ==
  ASSUME ReaderInv, OneReader, NEW r \in EventReaders, ReadEvent(r) \/ CancelReadEvent(r), Types'
  PROVE  ReaderInv'
<1>0. er \in [EventReaders -> {"idle", "waiting", "woken", "raised", "cancelled"}]
  BY DEF ReaderInv, Types, StreamTypeOK
<1>1. CASE ReadEventAtOnce(r)
  <2>1. er[r] = "idle" /\ er' = er /\ evQueue # <<>> /\ PopEvent /\ UNCHANGED backlog
    BY <1>1 DEF ReadEventAtOnce
  <2>2. \A q \in EventReaders : er'[q] = "idle"
    BY <2>1 DEF OneReader
  <2> QED BY <2>1, <2>2, PopServes DEF ReaderInv, EventReaderServed
<1>2. CASE ReadEventWoken(r)
  <2>1. /\ er[r] = "woken" /\ er' = [er EXCEPT ![r] = "idle"] /\ PopEvent
        /\ UNCHANGED backlog
    BY <1>2 DEF ReadEventWoken
  <2>2. \A q \in EventReaders : er'[q] = "idle"
    BY <1>0, <2>1 DEF OneReader
  <2>3. evQueue = <<>> => backlog = 0
    BY <2>1 DEF ReaderInv
  <2> QED BY <2>1, <2>2, <2>3, PopServes DEF ReaderInv, EventReaderServed
<1>3. CASE ReadEventWait(r)
  <2>1. /\ ~closing /\ evQueue = <<>> /\ evWaiter' = r /\ er' = [er EXCEPT ![r] = "waiting"]
        /\ UNCHANGED <<evQueue, closing, backlog, emptyReads>>
    BY <1>3 DEF ReadEventWait
  <2>2. \A q \in EventReaders : er'[q] = "waiting" /\ q = r
    BY <1>0, <2>1 DEF OneReader
  <2> QED BY <2>1, <2>2 DEF ReaderInv, EventReaderServed
<1>4. CASE ReadEventRaises(r) \/ CancelReadEvent(r)
  <2>1. /\ er'[r] \in {"idle", "cancelled"}
        /\ UNCHANGED <<evQueue, closing, backlog, emptyReads>>
    BY <1>0, <1>4 DEF ReadEventRaises, CancelReadEvent
  <2>2. \A q \in EventReaders : er'[q] \in {"idle", "cancelled"}
    BY <2>1 DEF OneReader
  <2> QED BY <2>1, <2>2 DEF ReaderInv, EventReaderServed
<1> QED BY <1>1, <1>2, <1>3, <1>4 DEF ReadEvent

LEMMA ReaderNext == ASSUME ReaderInv, OneReader, [Next]_vars PROVE ReaderInv'
<1>0. Types'
  BY TypeNext DEF ReaderInv
<1>1. CASE UNCHANGED streamVars
  BY <1>0, <1>1 DEF streamVars, ReaderInv, EventReaderServed
<1>2. ASSUME NEW i \in Mons, Deliver(i) PROVE ReaderInv'
  <2>1. Head(wire[i]) \in 1..MaxEvents
    BY <1>2, HeadTailProperties DEF Deliver, ReaderInv, Types, EventType
  <2> QED BY <1>0, <1>2, <2>1, FeedEventServes DEF Deliver
<1>3. CASE Flush \/ RunLost
  BY <1>0, <1>3, EndServes DEF Flush, RunLost, Lose
<1>4. ASSUME NEW r \in EventReaders, Reader(r) PROVE ReaderInv'
  BY <1>0, <1>4, ReadEventServes DEF Reader
<1>5. CASE \/ UNCHANGED vars \/ Disable \/ Emit \/ Close
           \/ \E i \in Mons : Enable(i) \/ CancelEnable(i)
           \/ \E i \in Mons : RunMade(i) \/ RunWake(i) \/ RunMonitorLost(i)
           \/ \E error \in BOOLEAN : ForceClose(error)
  BY <1>1, <1>5 DEF vars, Enable, CancelEnable, Disable, Emit, Close, ForceClose, RunMade,
                    RunWake, RunMonitorLost
<1> QED BY <1>2, <1>3, <1>4, <1>5 DEF Next, RunSoon

\* A read_event() that waits is the one that will be woken, with nothing to read,
\* and is never woken for nothing, when one task reads the events (feed_event,
\* feed_closing, set_exception, read_event).
THEOREM EventReaderServedHolds == ASSUME OneReader PROVE Spec => []EventReaderServed
<1>1. Init => ReaderInv
  <2> SUFFICES ASSUME Init PROVE ReaderInv
    OBVIOUS
  <2>1. emptyReads = FALSE /\ \A r \in EventReaders : er[r] = "idle"
    BY DEF Init, StreamInit
  <2> QED BY <2>1, TypeInit DEF ReaderInv, EventReaderServed
<1>2. ReaderInv /\ [Next]_vars => ReaderInv'
  BY ReaderNext
<1>3. ReaderInv => EventReaderServed
  BY DEF ReaderInv
<1> QED BY <1>1, <1>2, <1>3, PTL DEF Spec

-----------------------------------------------------------------------------
(* The order of events.                                                    *)

\* An event is on its way, or was fed, once.
Once ==
  /\ \A i \in Mons : \A k \in 1..Len(wire[i]) :
       wire[i][k] <= made /\ \A l \in 1..Len(fed) : fed[l] # wire[i][k]
  /\ \A i, j \in Mons : \A k \in 1..Len(wire[i]), l \in 1..Len(wire[j]) :
       wire[i][k] = wire[j][l] => i = j /\ k = l
  /\ \A k, l \in 1..Len(fed) : fed[k] = fed[l] => k = l
  /\ \A k \in 1..Len(fed) : fed[k] <= made

\* The queue is the end of what was fed, and what was read is from before it.
Behind == Len(fed) - Len(evQueue)
Queued ==
  /\ Behind \in Nat
  /\ \A k \in 1..Len(evQueue) : evQueue[k] = fed[Behind + k]
  /\ \A i \in 1..Len(got) : \E k \in 1..Behind : fed[k] = got[i]
  /\ \A i, j \in 1..Len(got) : i < j =>
       \E k, l \in 1..Behind : k < l /\ fed[k] = got[i] /\ fed[l] = got[j]

OrderInv == Types /\ Once /\ Queued

\* The order follows.
LEMMA OrderFollows == ASSUME OrderInv PROVE EventOrder
<1> DEFINE n == Len(evQueue)
           kept == got \o evQueue
           Place(e) == CHOOSE k \in 1..Len(fed) : fed[k] = e
<1>1. /\ evQueue \in Seq(1..MaxEvents) /\ fed \in Seq(1..MaxEvents)
      /\ got \in Seq(1..MaxEvents)
      /\ n \in Nat /\ Len(fed) \in Nat /\ Len(got) \in Nat /\ n <= Len(fed) /\ Behind \in Nat
      /\ Behind = Len(fed) - n
  <2>1. /\ evQueue \in Seq(1..MaxEvents) /\ fed \in Seq(1..MaxEvents)
        /\ got \in Seq(1..MaxEvents)
    BY DEF OrderInv, Types, StreamTypeOK
  <2>2. n \in Nat /\ Len(fed) \in Nat /\ Len(got) \in Nat
    BY <2>1
  <2>3. Behind \in Nat /\ Behind = Len(fed) - n
    BY DEF OrderInv, Queued, Behind
  <2> HIDE DEF n
  <2> QED BY <2>1, <2>2, <2>3
<1>2. evQueue = Last(fed, n)
  <2> HIDE DEF n
  <2>1. /\ Last(fed, n) \in Seq(1..MaxEvents) /\ Len(Last(fed, n)) = n
        /\ \A k \in 1..n : Last(fed, n)[k] = fed[Len(fed) - n + k]
    <3>1. /\ Last(fed, n) \in Seq(1..MaxEvents)
          /\ Len(Last(fed, n)) = IF Len(fed) <= n THEN Len(fed) ELSE n
          /\ \A k \in 1..Len(Last(fed, n)) :
               Last(fed, n)[k] = fed[Len(fed) - Len(Last(fed, n)) + k]
      BY <1>1, LastProperties
    <3>2. Len(Last(fed, n)) = n
      BY <1>1, <3>1
    <3> QED BY <3>1, <3>2
  <2>2. \A k \in 1..n : evQueue[k] = Last(fed, n)[k]
    BY <1>1, <2>1 DEF OrderInv, Queued, n
  <2> QED BY <1>1, <2>1, <2>2, SeqEqual DEF n
<1>3. \A k \in 1..Len(fed) : Place(fed[k]) = k
  BY DEF OrderInv, Once
<1>4. \A k \in 1..n : kept[Len(got) + k] = evQueue[k] /\ Place(evQueue[k]) = Behind + k
  <2>1. ASSUME NEW k \in 1..n
        PROVE  kept[Len(got) + k] = evQueue[k] /\ Place(evQueue[k]) = Behind + k
    <3>1. kept[Len(got) + k] = evQueue[k]
      BY <1>1
    <3> HIDE DEF kept, Place
    <3>2. Behind + k \in 1..Len(fed)
      BY <1>1
    <3>3. evQueue[k] = fed[Behind + k]
      BY DEF OrderInv, Queued
    <3> QED BY <1>3, <3>1, <3>2, <3>3
  <2> QED BY <2>1
<1>5. Len(kept) = Len(got) + n /\ \A i \in 1..Len(got) : kept[i] = got[i]
  BY <1>1
<1> HIDE DEF kept, Place, n
<1>6. ASSUME NEW i \in 1..Len(kept), NEW j \in 1..Len(kept), i < j
      PROVE  Place(kept[i]) < Place(kept[j])
  <2>1. CASE j \in 1..Len(got)
    <3>1. i \in 1..Len(got)
      BY <1>1, <1>6, <2>1
    <3>2. PICK k, l \in 1..Behind : k < l /\ fed[k] = got[i] /\ fed[l] = got[j]
      BY <1>6, <2>1, <3>1 DEF OrderInv, Queued
    <3>3. k \in 1..Len(fed) /\ l \in 1..Len(fed)
      BY <1>1
    <3>4. Place(kept[i]) = k /\ Place(kept[j]) = l
      BY <1>3, <1>5, <2>1, <3>1, <3>2, <3>3
    <3> QED BY <3>2, <3>4
  <2>2. CASE j \notin 1..Len(got)
    <3>1. j - Len(got) \in 1..n /\ j = Len(got) + (j - Len(got))
      BY <1>1, <1>5, <2>2
    <3>2. Place(kept[j]) = Behind + (j - Len(got))
      BY <1>4, <3>1
    <3>3. CASE i \in 1..Len(got)
      <4>1. PICK k \in 1..Behind : fed[k] = got[i]
        BY <3>3 DEF OrderInv, Queued
      <4>2. k \in 1..Len(fed)
        BY <1>1
      <4>3. Place(kept[i]) = k
        BY <1>3, <1>5, <3>3, <4>1, <4>2
      <4> QED BY <1>1, <3>1, <3>2, <4>3
    <3>4. CASE i \notin 1..Len(got)
      <4>1. i - Len(got) \in 1..n /\ i = Len(got) + (i - Len(got))
        BY <1>1, <1>5, <3>4
      <4>2. Place(kept[i]) = Behind + (i - Len(got))
        BY <1>4, <4>1
      <4> QED BY <1>1, <1>6, <3>1, <3>2, <4>1, <4>2
    <3> QED BY <3>3, <3>4
  <2> QED BY <2>1, <2>2
<1> QED BY <1>2, <1>6 DEF EventOrder, kept, Place, n

\* The stream's methods keep the queue.
LEMMA FeedEventQueues ==
  ASSUME Types, Queued, NEW e \in 1..MaxEvents, FeedEvent(e), ~closing
  PROVE  Queued'
<1> DEFINE q == Append(evQueue, e)
           n == Len(evQueue)
           n2 == Len(evQueue')
<1>1. /\ evQueue' = Last(q, backlog) /\ fed' = Append(fed, e) /\ UNCHANGED got
  BY DEF FeedEvent
<1>2. /\ evQueue \in Seq(1..MaxEvents) /\ fed \in Seq(1..MaxEvents) /\ n \in Nat
      /\ Len(fed) \in Nat /\ backlog \in Nat /\ Behind = Len(fed) - n /\ Behind \in Nat
  <2>1. evQueue \in Seq(1..MaxEvents) /\ fed \in Seq(1..MaxEvents)
    BY DEF Types, StreamTypeOK
  <2>2. n \in Nat /\ Len(fed) \in Nat /\ backlog \in Nat
    BY <2>1, EventsAssumption DEF Types, StreamTypeOK
  <2>3. Behind = Len(fed) - n /\ Behind \in Nat
    BY DEF Queued, Behind
  <2> HIDE DEF n
  <2> QED BY <2>1, <2>2, <2>3
<1>3. /\ q \in Seq(1..MaxEvents) /\ Len(q) = n + 1 /\ q[n + 1] = e
      /\ \A k \in 1..n : q[k] = evQueue[k]
  BY <1>2, AppendProperties
<1>4. /\ Len(fed') = Len(fed) + 1 /\ fed'[Len(fed) + 1] = e
      /\ \A k \in 1..Len(fed) : fed'[k] = fed[k]
  BY <1>1, <1>2, AppendProperties
<1> HIDE DEF q, n
<1>5. /\ n2 \in Nat /\ n2 <= n + 1
      /\ \A k \in 1..n2 : evQueue'[k] = q[n + 1 - n2 + k]
  <2>1. q \in Seq(1..MaxEvents) /\ backlog \in Nat /\ n \in Nat /\ Len(q) = n + 1
    BY <1>2, <1>3
  <2>2. /\ Len(Last(q, backlog)) = IF Len(q) <= backlog THEN Len(q) ELSE backlog
        /\ \A k \in 1..Len(Last(q, backlog)) :
             Last(q, backlog)[k] = q[Len(q) - Len(Last(q, backlog)) + k]
    BY <2>1, LastProperties
  <2>3. n2 = IF n + 1 <= backlog THEN n + 1 ELSE backlog
    BY <1>1, <2>1, <2>2
  <2>4. \A k \in 1..n2 : evQueue'[k] = q[Len(q) - n2 + k]
    BY <1>1, <2>2
  <2> HIDE DEF n2
  <2>5. n2 \in Nat /\ n2 <= n + 1
    BY <2>1, <2>3
  <2> QED BY <2>1, <2>4, <2>5
<1> HIDE DEF n2
<1>6. Behind' = Len(fed) + 1 - n2
  BY <1>4 DEF Behind, n2
<1>7. Behind' \in Nat /\ Behind <= Behind'
  BY <1>2, <1>5, <1>6
<1>8. ASSUME NEW k \in 1..Len(evQueue')
      PROVE  evQueue'[k] = fed'[Behind' + k]
  <2> DEFINE m == n + 1 - n2 + k
  <2>1. k \in 1..n2 /\ m \in 1..(n + 1) /\ Behind' + k = Behind + m /\ evQueue'[k] = q[m]
    BY <1>2, <1>5, <1>6 DEF n2
  <2> HIDE DEF m
  <2>2. CASE m = n + 1
    BY <1>2, <1>3, <1>4, <2>1, <2>2
  <2>3. CASE m # n + 1
    <3>1. m \in 1..n /\ Behind + m \in 1..Len(fed)
      BY <1>2, <2>1, <2>3
    <3>2. evQueue[m] = fed[Behind + m]
      BY <3>1 DEF Queued, n
    <3> QED BY <1>3, <1>4, <2>1, <3>1, <3>2
  <2> QED BY <2>2, <2>3
<1>9. \A k \in 1..Behind : k \in 1..Behind' /\ fed'[k] = fed[k]
  BY <1>2, <1>4, <1>7
<1>10. ASSUME NEW i \in 1..Len(got')
       PROVE  \E k \in 1..Behind' : fed'[k] = got'[i]
  <2>1. PICK k \in 1..Behind : fed[k] = got[i]
    BY <1>1 DEF Queued
  <2> QED BY <1>1, <1>9, <2>1
<1>11. ASSUME NEW i \in 1..Len(got'), NEW j \in 1..Len(got'), i < j
       PROVE  \E k, l \in 1..Behind' : k < l /\ fed'[k] = got'[i] /\ fed'[l] = got'[j]
  <2>1. PICK k, l \in 1..Behind : k < l /\ fed[k] = got[i] /\ fed[l] = got[j]
    BY <1>1, <1>11 DEF Queued
  <2> QED BY <1>1, <1>9, <2>1
<1> QED BY <1>7, <1>8, <1>10, <1>11 DEF Queued

LEMMA PopQueues ==
  ASSUME Types, Queued, PopEvent, UNCHANGED fed
  PROVE  Queued'
<1>1. CASE evQueue = <<>>
  BY <1>1 DEF PopEvent, Queued, Behind
<1>2. CASE evQueue # <<>>
  <2> DEFINE e == Head(evQueue)
             b == Behind + 1
  <2>1. evQueue' = Tail(evQueue) /\ got' = Append(got, e)
    BY <1>2 DEF PopEvent
  <2>2. /\ evQueue \in Seq(1..MaxEvents) /\ got \in Seq(1..MaxEvents) /\ Len(fed) \in Nat
        /\ Len(got) \in Nat /\ Len(evQueue) \in Nat /\ 1 \in 1..Len(evQueue)
        /\ e = evQueue[1] /\ e \in 1..MaxEvents
        /\ Behind \in Nat /\ Behind = Len(fed) - Len(evQueue)
    <3>1. /\ evQueue \in Seq(1..MaxEvents) /\ got \in Seq(1..MaxEvents)
          /\ fed \in Seq(1..MaxEvents)
      BY DEF Types, StreamTypeOK
    <3>2. /\ Len(fed) \in Nat /\ Len(got) \in Nat /\ Len(evQueue) \in Nat
          /\ 1 \in 1..Len(evQueue) /\ e = evQueue[1]
      BY <1>2, <3>1
    <3>3. e \in 1..MaxEvents
      BY <1>2, <3>1, HeadTailProperties
    <3>4. Behind \in Nat /\ Behind = Len(fed) - Len(evQueue)
      BY DEF Queued, Behind
    <3> HIDE DEF e
    <3> QED BY <3>1, <3>2, <3>3, <3>4
  <2>3. /\ Len(evQueue') = Len(evQueue) - 1
        /\ \A k \in 1..Len(evQueue') : evQueue'[k] = evQueue[k + 1]
    BY <1>2, <2>1, <2>2, HeadTailProperties
  <2>4. /\ Len(got') = Len(got) + 1 /\ got'[Len(got) + 1] = e
        /\ \A k \in 1..Len(got) : got'[k] = got[k]
    BY <2>1, <2>2, AppendProperties
  <2>5. e = fed[b]
    BY <2>2 DEF Queued
  <2> HIDE DEF e
  <2>6. Behind' = b /\ b \in Nat
    BY <2>2, <2>3 DEF Behind
  <2>7. \A k \in 1..Len(evQueue') : evQueue'[k] = fed'[Behind' + k]
    <3>1. ASSUME NEW k \in 1..Len(evQueue') PROVE evQueue'[k] = fed'[Behind' + k]
      <4>1. k + 1 \in 1..Len(evQueue) /\ Behind' + k = Behind + (k + 1)
        BY <2>2, <2>3, <2>6
      <4> QED BY <2>3, <4>1 DEF Queued
    <3> QED BY <3>1
  <2>8. \A k \in 1..Behind : k \in 1..Behind' /\ k < b
    BY <2>2, <2>6
  <2>9. b \in 1..Behind'
    BY <2>2, <2>6
  <2> HIDE DEF b
  <2>10. ASSUME NEW i \in 1..Len(got')
         PROVE  \E k \in 1..Behind' : fed'[k] = got'[i]
    <3>1. CASE i \in 1..Len(got)
      BY <2>4, <2>8, <3>1 DEF Queued
    <3>2. CASE i \notin 1..Len(got)
      <4>1. i = Len(got) + 1
        BY <2>2, <2>4, <3>2
      <4> QED BY <2>4, <2>5, <2>9, <4>1
    <3> QED BY <3>1, <3>2
  <2>11. ASSUME NEW i \in 1..Len(got'), NEW j \in 1..Len(got'), i < j
         PROVE  \E k, l \in 1..Behind' : k < l /\ fed'[k] = got'[i] /\ fed'[l] = got'[j]
    <3>0. i \in 1..Len(got)
      BY <2>2, <2>4, <2>11
    <3>1. CASE j \in 1..Len(got)
      <4>1. PICK k, l \in 1..Behind : k < l /\ fed[k] = got[i] /\ fed[l] = got[j]
        BY <2>11, <3>0, <3>1 DEF Queued
      <4> QED BY <2>4, <2>8, <3>0, <3>1, <4>1
    <3>2. CASE j \notin 1..Len(got)
      <4>1. j = Len(got) + 1
        BY <2>2, <2>4, <3>2
      <4>2. PICK k \in 1..Behind : fed[k] = got[i]
        BY <3>0 DEF Queued
      <4> QED BY <2>4, <2>5, <2>8, <2>9, <3>0, <4>1, <4>2
    <3> QED BY <3>1, <3>2
  <2> QED BY <2>6, <2>7, <2>10, <2>11 DEF Queued
<1> QED BY <1>1, <1>2

\* An event that the socket has is a new one.
LEMMA EmitOnce ==
  ASSUME OrderInv, Emit PROVE Once'
<1>1. /\ feeding \in Mons /\ made \in Nat /\ made' = made + 1 /\ UNCHANGED fed
      /\ wire' = [wire EXCEPT ![feeding] = Append(wire[feeding], made + 1)]
      /\ wire \in [Mons -> Seq(1..MaxEvents)] /\ made + 1 \in 1..MaxEvents
  BY EventsAssumption DEF Emit, OrderInv, Types, ConnType, EventType, streamVars
<1>2. /\ wire[feeding] \in Seq(1..MaxEvents) /\ Len(wire[feeding]) \in Nat
      /\ wire'[feeding] = Append(wire[feeding], made + 1)
      /\ \A i \in Mons \ {feeding} : wire'[i] = wire[i]
  BY <1>1
<1>3. /\ Len(wire'[feeding]) = Len(wire[feeding]) + 1
      /\ wire'[feeding][Len(wire[feeding]) + 1] = made + 1
      /\ \A k \in 1..Len(wire[feeding]) : wire'[feeding][k] = wire[feeding][k]
  BY <1>1, <1>2, AppendProperties
<1> DEFINE Old(i, k) == k \in 1..Len(wire[i]) /\ wire'[i][k] = wire[i][k]
           New(i, k) == i = feeding /\ k = Len(wire[feeding]) + 1 /\ wire'[i][k] = made + 1
<1>4. \A i \in Mons : \A k \in 1..Len(wire'[i]) : Old(i, k) \/ New(i, k)
  <2>1. ASSUME NEW i \in Mons, NEW k \in 1..Len(wire'[i]) PROVE Old(i, k) \/ New(i, k)
    <3>1. CASE i # feeding
      BY <1>2, <3>1
    <3>2. CASE i = feeding
      BY <1>2, <1>3, <3>2
    <3> QED BY <3>1, <3>2
  <2> QED BY <2>1
<1>5. \A i \in Mons : \A k \in 1..Len(wire[i]) : wire[i][k] \in Nat /\ wire[i][k] <= made
  <2>1. ASSUME NEW i \in Mons, NEW k \in 1..Len(wire[i]) PROVE wire[i][k] \in Nat
    <3>1. wire[i] \in Seq(1..MaxEvents)
      BY <1>1
    <3>2. wire[i][k] \in 1..MaxEvents
      BY <3>1, ElementOfSeq
    <3> QED BY <3>2
  <2> QED BY <2>1 DEF OrderInv, Once
<1>6. \A k \in 1..Len(fed) : fed[k] \in Nat /\ fed[k] <= made
  <2>1. fed \in Seq(1..MaxEvents)
    BY DEF OrderInv, Types, StreamTypeOK
  <2>2. \A k \in 1..Len(fed) : fed[k] \in 1..MaxEvents
    BY <2>1, ElementOfSeq
  <2> QED BY <2>2 DEF OrderInv, Once
<1>7. ASSUME NEW i \in Mons, NEW k \in 1..Len(wire'[i])
      PROVE  wire'[i][k] <= made' /\ \A l \in 1..Len(fed') : fed'[l] # wire'[i][k]
  <2>1. CASE Old(i, k)
    BY <1>1, <1>5, <2>1 DEF OrderInv, Once
  <2>2. CASE New(i, k)
    BY <1>1, <1>6, <2>2
  <2> QED BY <1>4, <2>1, <2>2
<1>8. ASSUME NEW i \in Mons, NEW j \in Mons, NEW k \in 1..Len(wire'[i]),
             NEW l \in 1..Len(wire'[j]), wire'[i][k] = wire'[j][l]
      PROVE  i = j /\ k = l
  <2>1. CASE Old(i, k) /\ Old(j, l)
    <3>1. wire[i][k] = wire[j][l] /\ k \in 1..Len(wire[i]) /\ l \in 1..Len(wire[j])
      BY <1>8, <2>1
    <3> QED BY <3>1 DEF OrderInv, Once
  <2>2. CASE New(i, k) /\ New(j, l)
    BY <2>2
  <2>3. CASE (Old(i, k) /\ New(j, l)) \/ (New(i, k) /\ Old(j, l))
    BY <1>1, <1>5, <1>8, <2>3
  <2> QED BY <1>4, <2>1, <2>2, <2>3
<1>9. \A k \in 1..Len(fed') : fed'[k] <= made'
  BY <1>1, <1>6
<1> QED BY <1>1, <1>7, <1>8, <1>9 DEF OrderInv, Once

\* One that is delivered, or lost with its connection, is on its way no more.
LEMMA DeliverOnce ==
  ASSUME OrderInv, NEW i \in Mons, Deliver(i)
  PROVE  Once'
<1> DEFINE e == Head(wire[i])
<1>1. /\ wire \in [Mons -> Seq(1..MaxEvents)] /\ wire[i] # <<>> /\ UNCHANGED made
      /\ wire' = [wire EXCEPT ![i] = Tail(wire[i])] /\ FeedEvent(e)
      /\ fed \in Seq(1..MaxEvents) /\ Len(fed) \in Nat
  BY DEF Deliver, OrderInv, Types, EventType, StreamTypeOK
<1>2. /\ wire[i] \in Seq(1..MaxEvents) /\ wire'[i] = Tail(wire[i])
      /\ \A j \in Mons \ {i} : wire'[j] = wire[j]
      /\ 1 \in 1..Len(wire[i]) /\ e = wire[i][1] /\ Len(wire[i]) \in Nat /\ e \in 1..MaxEvents
  <2>1. wire[i] \in Seq(1..MaxEvents) /\ wire[i] # <<>>
    BY <1>1
  <2>2. /\ 1 \in 1..Len(wire[i]) /\ e = wire[i][1] /\ Len(wire[i]) \in Nat
    BY <2>1
  <2>3. e \in 1..MaxEvents
    BY <2>1, HeadTailProperties
  <2> HIDE DEF e
  <2>4. wire'[i] = Tail(wire[i]) /\ \A j \in Mons \ {i} : wire'[j] = wire[j]
    BY <1>1
  <2> QED BY <2>1, <2>2, <2>3, <2>4
<1>3. /\ Len(wire'[i]) = Len(wire[i]) - 1
      /\ \A k \in 1..Len(wire'[i]) : wire'[i][k] = wire[i][k + 1]
  BY <1>1, <1>2, HeadTailProperties
<1> HIDE DEF e
<1> DEFINE At(j, k) == IF j = i THEN k + 1 ELSE k
<1>4. ASSUME NEW j \in Mons, NEW k \in 1..Len(wire'[j])
      PROVE  At(j, k) \in 1..Len(wire[j]) /\ wire'[j][k] = wire[j][At(j, k)] /\ wire'[j][k] # e
  <2>1. CASE j = i
    <3>1. k + 1 \in 1..Len(wire[i]) /\ wire'[i][k] = wire[i][k + 1] /\ k + 1 # 1
      <4>1. k \in 1..Len(wire'[i]) /\ k \in Nat
        BY <2>1
      <4>2. k >= 1 /\ k <= Len(wire[i]) - 1
        BY <1>2, <1>3, <4>1
      <4> QED BY <1>2, <1>3, <4>1, <4>2
    <3>2. wire[i][k + 1] # wire[i][1]
      BY <1>2, <3>1 DEF OrderInv, Once
    <3> QED BY <1>2, <2>1, <3>1, <3>2
  <2>2. CASE j # i
    <3>1. k \in 1..Len(wire[j]) /\ wire'[j][k] = wire[j][k]
      BY <1>2, <2>2
    <3> QED BY <1>2, <2>2, <3>1 DEF OrderInv, Once
  <2> QED BY <2>1, <2>2
<1> HIDE DEF At
<1>5. \/ UNCHANGED fed
      \/ /\ Len(fed') = Len(fed) + 1 /\ fed'[Len(fed) + 1] = e
         /\ \A l \in 1..Len(fed) : fed'[l] = fed[l]
  <2>1. CASE closing
    BY <1>1, <2>1 DEF FeedEvent, streamVars
  <2>2. CASE ~closing
    <3>1. fed' = Append(fed, e)
      BY <1>1, <2>2 DEF FeedEvent
    <3> QED BY <1>1, <1>2, <3>1, AppendProperties
  <2> QED BY <2>1, <2>2
<1>6. e <= made /\ \A l \in 1..Len(fed) : fed[l] # e
  BY <1>2 DEF OrderInv, Once
<1>7. \A l \in 1..Len(fed') : \/ l \in 1..Len(fed) /\ fed'[l] = fed[l]
                              \/ l = Len(fed) + 1 /\ fed'[l] = e
  BY <1>1, <1>5
<1>8. ASSUME NEW j \in Mons, NEW k \in 1..Len(wire'[j])
      PROVE  wire'[j][k] <= made' /\ \A l \in 1..Len(fed') : fed'[l] # wire'[j][k]
  <2>1. /\ At(j, k) \in 1..Len(wire[j]) /\ wire'[j][k] = wire[j][At(j, k)]
        /\ wire'[j][k] # e
    BY <1>4
  <2>2. wire'[j][k] <= made /\ \A l \in 1..Len(fed) : fed[l] # wire'[j][k]
    BY <2>1 DEF OrderInv, Once
  <2> QED BY <1>1, <1>7, <2>1, <2>2
<1>9. ASSUME NEW j \in Mons, NEW h \in Mons, NEW k \in 1..Len(wire'[j]),
             NEW l \in 1..Len(wire'[h]), wire'[j][k] = wire'[h][l]
      PROVE  j = h /\ k = l
  <2>1. j = h /\ At(j, k) = At(h, l)
    BY <1>4, <1>9 DEF OrderInv, Once
  <2>2. k \in Int /\ l \in Int
    OBVIOUS
  <2> QED BY <2>1, <2>2 DEF At
<1>10. \A k, l \in 1..Len(fed') : fed'[k] = fed'[l] => k = l
  BY <1>6, <1>7 DEF OrderInv, Once
<1>11. \A k \in 1..Len(fed') : fed'[k] <= made'
  BY <1>1, <1>6, <1>7 DEF OrderInv, Once
<1> QED BY <1>8, <1>9, <1>10, <1>11 DEF Once

LEMMA OrderNext == ASSUME OrderInv, [Next]_vars PROVE OrderInv'
<1>0. Types /\ Types'
  BY TypeNext DEF OrderInv
<1>1. ASSUME UNCHANGED <<evQueue, fed, got>> PROVE Queued'
  BY <1>1 DEF OrderInv, Queued, Behind
<1>2. ASSUME UNCHANGED <<wire, made, fed>> PROVE Once'
  BY <1>2 DEF OrderInv, Once
<1>3. CASE Emit
  BY <1>0, <1>1, <1>3, EmitOnce DEF Emit, streamVars, OrderInv
<1>4. ASSUME NEW i \in Mons, Deliver(i) PROVE OrderInv'
  <2>1. Head(wire[i]) \in 1..MaxEvents /\ FeedEvent(Head(wire[i]))
    BY <1>0, <1>4, HeadTailProperties DEF Deliver, Types, EventType
  <2>2. CASE closing
    BY <1>0, <1>1, <1>4, <2>1, <2>2, DeliverOnce DEF FeedEvent, streamVars, OrderInv
  <2>3. CASE ~closing
    BY <1>0, <1>4, <2>1, <2>3, DeliverOnce, FeedEventQueues DEF OrderInv
  <2> QED BY <2>2, <2>3
<1>5. ASSUME NEW i \in Mons, RunMonitorLost(i) PROVE OrderInv'
  <2>1. /\ wire' = [wire EXCEPT ![i] = <<>>] /\ UNCHANGED <<made, streamVars>>
        /\ wire \in [Mons -> Seq(1..MaxEvents)]
    BY <1>0, <1>5 DEF RunMonitorLost, Types, EventType
  <2>2. \A j \in Mons : \A k \in 1..Len(wire'[j]) : k \in 1..Len(wire[j]) /\ wire'[j] = wire[j]
    <3>1. wire'[i] = <<>> /\ Len(<<>>) = 0 /\ \A j \in Mons \ {i} : wire'[j] = wire[j]
      BY <2>1
    <3> QED BY <3>1
  <2>3. Once'
    BY <2>1, <2>2 DEF OrderInv, Once, streamVars
  <2> QED BY <1>0, <1>1, <2>1, <2>3 DEF OrderInv, streamVars
<1>6. CASE Flush \/ RunLost
  BY <1>0, <1>1, <1>2, <1>6
     DEF Flush, RunLost, Lose, FeedClosing, SetException, zmqVars, OrderInv
<1>7. ASSUME NEW r \in EventReaders, Reader(r) PROVE OrderInv'
  <2>1. UNCHANGED <<wire, made, fed>>
    BY <1>7 DEF Reader, zmqVars, ReadEvent, CancelReadEvent, ReadEventAtOnce, ReadEventWait,
                ReadEventWoken, ReadEventRaises
  <2>2. PopEvent \/ UNCHANGED <<evQueue, got>>
    BY <1>7 DEF Reader, ReadEvent, CancelReadEvent, ReadEventAtOnce, ReadEventWait,
                ReadEventWoken, ReadEventRaises
  <2> QED BY <1>0, <1>1, <1>2, <2>1, <2>2, PopQueues DEF OrderInv
<1>8. CASE \/ UNCHANGED vars \/ Disable \/ Close
           \/ \E i \in Mons : Enable(i) \/ CancelEnable(i) \/ RunMade(i) \/ RunWake(i)
           \/ \E error \in BOOLEAN : ForceClose(error)
  <2>1. UNCHANGED <<wire, made, streamVars>>
    BY <1>8 DEF vars, zmqVars, Enable, CancelEnable, Disable, DisableMonitor, Close, ForceClose,
                RunMade, RunWake
  <2> QED BY <1>0, <1>1, <1>2, <2>1 DEF streamVars, OrderInv
<1> QED BY <1>3, <1>4, <1>5, <1>6, <1>7, <1>8 DEF Next, RunSoon

\* The variables keep their types, and events are read in the order in which they
\* were fed, each at most once, however the backlog forgets some and readers are
\* cancelled (event_received, feed_event, read_event).
THEOREM MonitorBooksHold == Spec => []Books
<1>1. Init => OrderInv
  <2> SUFFICES ASSUME Init PROVE OrderInv
    OBVIOUS
  <2>1. /\ Len(fed) = 0 /\ Len(evQueue) = 0 /\ Len(got) = 0 /\ Behind = 0
        /\ \A i \in Mons : Len(wire[i]) = 0
    BY DEF Init, StreamInit, Behind
  <2> QED BY <2>1, TypeInit DEF OrderInv, Once, Queued
<1>2. OrderInv /\ [Next]_vars => OrderInv'
  BY OrderNext
<1>3. OrderInv => Books
  BY OrderFollows, TypeSplit DEF OrderInv, Books
<1> QED BY <1>1, <1>2, <1>3, PTL DEF Spec

=============================================================================
