------------------------- MODULE ZmqTransportProofs -------------------------
(***************************************************************************)
(* Theorems about ZmqTransport, for all values of its constants: any       *)
(* number and length of messages, any water marks, and any application,    *)
(* but where a theorem says otherwise.                                     *)
(***************************************************************************)
EXTENDS ZmqTransport, TLAPS

-----------------------------------------------------------------------------
(* What the operations of BaseTransport keep true of the outbound queue.   *)
(* The lemmas are those of LooplessTransportProofs: they are about what    *)
(* the two transports share, in a module for each.                         *)

\* The queue starts empty.
LEMMA QueueInit == BaseInit => QueueInv
<1> SUFFICES ASSUME BaseInit PROVE QueueInv
  OBVIOUS
<1>1. QueueType
  <2>1. PICK l \in Limits : low = l.low /\ high = l.high
    BY DEF BaseInit
  <2>2. l \in [low : Nat, high : Nat] /\ l.low <= l.high
    BY LimitsAssumption
  <2>3. low \in Nat /\ high \in Nat /\ low <= high
    BY <2>1, <2>2
  <2>4. buffer \in Seq(1..MaxWrites) /\ sent \in Seq(1..MaxWrites)
    BY DEF BaseInit
  <2>5. bufSize \in Nat /\ accepted \in 0..MaxWrites
    BY BoundAssumption DEF BaseInit
  <2>6. protoPaused \in BOOLEAN /\ connLost \in BOOLEAN
    BY DEF BaseInit
  <2> QED BY <2>3, <2>4, <2>5, <2>6 DEF QueueType
<1>2. OutboundFifo
  BY DEF BaseInit, OutboundFifo
<1>3. BufferSizeExact
  BY BytesAssumption, BoundAssumption DEF BaseInit, BufferSizeExact
<1>4. PausedHasBacklog
  BY DEF BaseInit, PausedHasBacklog
<1> QED BY <1>1, <1>2, <1>3, <1>4 DEF QueueInv

\* Nothing but these variables matters.
LEMMA QueueUnchanged ==
  ASSUME QueueInv, UNCHANGED <<queueVars, flowVars, connLost>>
  PROVE  QueueInv'
BY DEF QueueInv, QueueType, OutboundFifo, BufferSizeExact, PausedHasBacklog,
       queueVars, flowVars

\* The messages sent or buffered are no more than the accepted ones.
LEMMA QueueBound ==
  ASSUME QueueInv
  PROVE  /\ Len(sent) \in Nat /\ Len(buffer) \in Nat
         /\ Len(sent) + Len(buffer) <= accepted
         /\ Len(sent) + Len(buffer) \in 0..MaxWrites
         /\ Len(sent) \in 0..MaxWrites
BY BoundAssumption DEF QueueInv, QueueType, OutboundFifo

\* write() of a message the socket takes.
LEMMA SendAtOnceQueue ==
  ASSUME QueueInv, SendAtOnce, UNCHANGED connLost
  PROVE  QueueInv'
<1>1. /\ Len(sent) = accepted
      /\ accepted' = accepted + 1 /\ accepted' \in 1..MaxWrites
      /\ sent' = Append(sent, accepted')
      /\ Len(sent') = Len(sent) + 1
  BY QueueBound, BoundAssumption DEF QueueInv, QueueType, OutboundFifo, SendAtOnce
<1>2. QueueType'
  BY <1>1 DEF QueueInv, QueueType, SendAtOnce, flowVars
<1>3. OutboundFifo'
  BY <1>1, QueueBound DEF QueueInv, QueueType, OutboundFifo, SendAtOnce
<1>4. BufferSizeExact'
  BY <1>1, <1>2, BytesAssumption, BoundAssumption
     DEF QueueInv, QueueType, BufferSizeExact, SendAtOnce
<1>5. PausedHasBacklog'
  BY DEF QueueInv, PausedHasBacklog, SendAtOnce, flowVars
<1> QED BY <1>2, <1>3, <1>4, <1>5 DEF QueueInv

\* write() of a message that waits in the buffer.
LEMMA EnqueueQueue ==
  ASSUME QueueInv, Enqueue, UNCHANGED connLost
  PROVE  QueueInv'
<1>1. /\ accepted = Len(sent) + Len(buffer)
      /\ accepted' = accepted + 1 /\ accepted' \in 1..MaxWrites
      /\ buffer' = Append(buffer, accepted')
      /\ Len(buffer') = Len(buffer) + 1
      /\ buffer' # <<>>
  BY QueueBound, BoundAssumption DEF QueueInv, QueueType, OutboundFifo, Enqueue, MaybePauseProtocol
<1>2. /\ Size(accepted') = Bytes[accepted + 1] - Bytes[accepted]
      /\ Size(accepted') \in Nat
  BY <1>1, BytesAssumption, BoundAssumption DEF QueueInv, QueueType, Size
<1>3. QueueType'
  BY <1>1, <1>2 DEF QueueInv, QueueType, Enqueue, MaybePauseProtocol
<1>4. OutboundFifo'
  <2>1. \A i \in 1..Len(buffer') : buffer'[i] = Len(sent) + i
    <3> SUFFICES ASSUME NEW i \in 1..Len(buffer')
                 PROVE  buffer'[i] = Len(sent) + i
      OBVIOUS
    <3>1. CASE i = Len(buffer) + 1
      BY <3>1, <1>1, QueueBound DEF QueueInv, QueueType
    <3>2. CASE i \in 1..Len(buffer)
      BY <3>2, <1>1 DEF QueueInv, QueueType, OutboundFifo
    <3> QED BY <3>1, <3>2, <1>1, QueueBound
  <2>2. sent' = sent /\ ~connLost /\ ~connLost'
    BY DEF Enqueue, MaybePauseProtocol
  <2>3. accepted' = Len(sent) + Len(buffer')
    BY <1>1, QueueBound
  <2> QED BY <2>1, <2>2, <2>3 DEF QueueInv, OutboundFifo
<1>5. BufferSizeExact'
  <2>1. bufSize' = (Bytes[accepted] - Bytes[Len(sent)])
                     + (Bytes[accepted + 1] - Bytes[accepted])
    BY <1>1, <1>2 DEF QueueInv, BufferSizeExact, Enqueue, MaybePauseProtocol
  <2>2. Len(sent') + Len(buffer') = accepted + 1 /\ sent' = sent
    BY <1>1, QueueBound DEF Enqueue, MaybePauseProtocol
  <2>3. /\ Bytes[accepted] \in Nat /\ Bytes[accepted + 1] \in Nat
        /\ Bytes[Len(sent)] \in Nat
    BY <1>1, QueueBound, BytesAssumption, BoundAssumption DEF QueueInv, QueueType
  <2> QED BY <2>1, <2>2, <2>3 DEF BufferSizeExact
<1>6. PausedHasBacklog'
  BY <1>1 DEF PausedHasBacklog
<1> QED BY <1>3, <1>4, <1>5, <1>6 DEF QueueInv

\* The socket takes the head of the buffer.
LEMMA SendHeadQueue ==
  ASSUME QueueInv, SendHead, UNCHANGED connLost
  PROVE  QueueInv'
<1>1. /\ ~connLost
      /\ accepted = Len(sent) + Len(buffer)
      /\ Head(buffer) = Len(sent) + 1
      /\ Head(buffer) \in 1..MaxWrites
      /\ Len(buffer) >= 1
  <2>1. ~connLost /\ accepted = Len(sent) + Len(buffer)
    BY DEF QueueInv, OutboundFifo, SendHead, MaybeResumeProtocol
  <2>2. Len(buffer) >= 1
    BY DEF QueueInv, QueueType, SendHead, MaybeResumeProtocol
  <2>3. Head(buffer) = buffer[1] /\ buffer[1] = Len(sent) + 1
    BY <2>2, QueueBound DEF QueueInv, QueueType, OutboundFifo
  <2> QED BY <2>1, <2>2, <2>3, QueueBound, BoundAssumption
<1>2. /\ sent' = Append(sent, Len(sent) + 1)
      /\ Len(sent') = Len(sent) + 1
      /\ Len(buffer') = Len(buffer) - 1
      /\ \A i \in 1..Len(buffer') : buffer'[i] = buffer[i + 1]
      /\ buffer' \in Seq(1..MaxWrites)
      /\ sent' \in Seq(1..MaxWrites)
  BY <1>1 DEF QueueInv, QueueType, SendHead, MaybeResumeProtocol
<1>3. OutboundFifo'
  BY <1>1, <1>2, QueueBound DEF QueueInv, QueueType, OutboundFifo, SendHead, MaybeResumeProtocol
<1>4. /\ Len(sent') + Len(buffer') = accepted
      /\ bufSize' = Bytes[accepted] - Bytes[Len(sent')]
      /\ bufSize' \in Nat
  <2>1. /\ Len(sent') + Len(buffer') = accepted
        /\ Len(sent) \in 0..MaxWrites /\ Len(sent) + 1 \in 0..MaxWrites
        /\ accepted \in 0..MaxWrites /\ Len(sent) + 1 <= accepted
        /\ Len(sent') = Len(sent) + 1
    BY <1>1, <1>2, QueueBound, BoundAssumption DEF QueueInv, QueueType
  <2>2. /\ Bytes[accepted] \in Nat /\ Bytes[Len(sent)] \in Nat
        /\ Bytes[Len(sent) + 1] \in Nat
        /\ Bytes[Len(sent) + 1] <= Bytes[accepted]
    BY <2>1, BytesAssumption
  <2>3. Size(Head(buffer)) = Bytes[Len(sent) + 1] - Bytes[Len(sent)]
    BY <1>1, <2>1 DEF Size
  <2>4. bufSize' = (Bytes[accepted] - Bytes[Len(sent)])
                     - (Bytes[Len(sent) + 1] - Bytes[Len(sent)])
    BY <1>1, <2>3 DEF QueueInv, BufferSizeExact, SendHead, MaybeResumeProtocol
  <2> QED BY <2>1, <2>2, <2>4
<1>5. BufferSizeExact'
  BY <1>4 DEF BufferSizeExact, SendHead, MaybeResumeProtocol
<1>6. QueueType'
  BY <1>2, <1>4 DEF QueueInv, QueueType, SendHead, MaybeResumeProtocol
<1>7. PausedHasBacklog'
  <2> SUFFICES ASSUME buffer' = <<>> PROVE ~protoPaused'
    BY DEF PausedHasBacklog
  <2>1. Len(sent') = accepted
    BY <1>2, <1>4
  <2>2. bufSize' = 0
    BY <2>1, <1>4, BytesAssumption DEF QueueInv, QueueType
  <2>3. ~(bufSize' > low)
    BY <2>2 DEF QueueInv, QueueType
  <2> QED BY <2>3 DEF SendHead, MaybeResumeProtocol
<1> QED BY <1>3, <1>5, <1>6, <1>7 DEF QueueInv

\* _force_close() drops the buffer.
LEMMA ForceCloseQueue ==
  ASSUME QueueInv, NEW call, ForceClose(call)
  PROVE  QueueInv'
<1>1. QueueType'
  BY DEF QueueInv, QueueType, ForceClose, flowVars
<1>2. OutboundFifo'
  BY QueueBound DEF QueueInv, QueueType, OutboundFifo, ForceClose
<1>3. BufferSizeExact'
  BY QueueBound, BytesAssumption DEF BufferSizeExact, ForceClose
<1>4. PausedHasBacklog'
  BY DEF PausedHasBacklog, ForceClose
<1> QED BY <1>1, <1>2, <1>3, <1>4 DEF QueueInv

\* close() gives up nothing.
LEMMA StartCloseQueue ==
  ASSUME QueueInv, StartClose, UNCHANGED <<queueVars, flowVars>>
  PROVE  QueueInv'
<1>1. QueueType'
  BY DEF QueueInv, QueueType, StartClose, queueVars, flowVars
<1>2. OutboundFifo'
  BY QueueBound DEF QueueInv, QueueType, OutboundFifo, StartClose, queueVars
<1>3. BufferSizeExact'
  BY DEF QueueInv, BufferSizeExact, queueVars
<1>4. PausedHasBacklog'
  BY DEF QueueInv, QueueType, PausedHasBacklog, OutboundFifo, StartClose, queueVars,
         flowVars
<1> QED BY <1>1, <1>2, <1>3, <1>4 DEF QueueInv

\* set_write_buffer_limits() pauses the protocol only over a backlog.
LEMMA NewLimitsQueue ==
  ASSUME QueueInv, NEW l \in Limits, NewLimits(l), UNCHANGED <<queueVars, connLost>>
  PROVE  QueueInv'
<1>1. l.low \in Nat /\ l.high \in Nat /\ l.low <= l.high
  BY LimitsAssumption
<1>2. QueueType'
  BY <1>1 DEF QueueInv, QueueType, NewLimits, MaybePauseProtocol, queueVars
<1>3. OutboundFifo' /\ BufferSizeExact'
  BY DEF QueueInv, OutboundFifo, BufferSizeExact, queueVars
<1>4. PausedHasBacklog'
  <2> SUFFICES ASSUME buffer = <<>>, ~connLost PROVE ~(bufSize > l.high)
    BY DEF QueueInv, PausedHasBacklog, NewLimits, MaybePauseProtocol, queueVars
  <2>1. bufSize = 0
    BY QueueBound, BytesAssumption DEF QueueInv, BufferSizeExact
  <2> QED BY <2>1, <1>1
<1> QED BY <1>2, <1>3, <1>4 DEF QueueInv

-----------------------------------------------------------------------------
(* The inductive invariant.                                                *)

\* What TypeOK says beyond the outbound queue, and of that, what is counted.
CountType ==
  /\ inbox \in 0..MaxIn /\ delivered \in 0..MaxIn /\ inbox + delivered <= MaxIn
  /\ room \in 0..MaxRoom

RestType ==
  /\ CountType
  /\ paused \in BOOLEAN /\ closing \in BOOLEAN /\ failed \in BOOLEAN
  /\ lost \in {"no", "None", "exc"}
  /\ faults \subseteq {"post", "wrote", "write", "abort", "lost"}
  /\ ready \in Seq(LostCalls)
  /\ readerOn \in BOOLEAN /\ writerOn \in BOOLEAN
  /\ rdQueued \in BOOLEAN /\ wrQueued \in BOOLEAN
  /\ at \in {"loop", "msg", "resume", "wrote"}

\* Registered, which speaks of a thread that is back in the loop, and what keeps it
\* so: in the middle of _write_ready() the writer may be registered for nothing, but
\* never missing, and its call is not queued again; and a call of _read_ready()
\* is queued only of a reader that is registered.
Polling ==
  /\ Registered
  /\ at \in {"resume", "wrote"} => (buffer # <<>> => writerOn) /\ ~wrQueued
  /\ rdQueued => readerOn

\* A transport that lost its connection is closed, has nothing left to send, and
\* is not in the middle of a callback; a queued connection_lost() was counted.
Life ==
  /\ connLost => closing
  /\ Detached => closing /\ buffer = <<>> /\ at = "loop"
  /\ ready # <<>> => connLost

ZmqInv == QueueInv /\ RestType /\ Polling /\ Life

-----------------------------------------------------------------------------
(* The outbound queue.                                                     *)

\* Each action performs one of the shared operations on the queue, or leaves it
\* alone; abort() counts _conn_lost also after the end, when nothing is queued.
LEMMA QueueStep == ASSUME ZmqInv, [Next]_vars PROVE QueueInv'
<1>0. QueueInv
  BY DEF ZmqInv
<1>1. CASE UNCHANGED vars
  BY <1>1, <1>0, QueueUnchanged DEF vars, baseVars, lifeVars
<1>2. CASE Select \/ RunLost
  BY <1>2, <1>0, QueueUnchanged DEF Select, RunLost, baseVars, lifeVars
<1>3. CASE Callback
  <2>1. CASE ReadMessage \/ ReadInterrupted \/ SendAgain
    BY <2>1, <1>0, QueueUnchanged DEF ReadMessage, ReadInterrupted, SendAgain, baseVars, lifeVars
  <2>2. CASE ReadFails \/ SendFails
    BY <2>2, <1>0, ForceCloseQueue DEF ReadFails, SendFails
  <2>3. CASE SendOk
    BY <2>3, <1>0, SendHeadQueue DEF SendOk, lifeVars
  <2> QED BY <1>3, <2>1, <2>2, <2>3 DEF Callback
<1>4. CASE HandlerReturns \/ ResumeReturns \/ WroteAll \/ WroteSome
  BY <1>4, <1>0, QueueUnchanged
     DEF HandlerReturns, ResumeReturns, WroteAll, WroteSome, baseVars, lifeVars
<1>5. CASE App
  <2>1. CASE WriteSent
    BY <2>1, <1>0, SendAtOnceQueue DEF WriteSent, lifeVars
  <2>2. CASE WriteBehind \/ WriteAgain
    BY <2>2, <1>0, EnqueueQueue DEF WriteBehind, WriteAgain, lifeVars
  <2>3. CASE WriteFails \/ Abort
    BY <2>3, <1>0, ForceCloseQueue DEF WriteFails, Abort
  <2>4. CASE Close
    BY <2>4, <1>0, StartCloseQueue DEF Close
  <2>5. CASE SetLimits
    BY <2>5, <1>0, NewLimitsQueue DEF SetLimits, lifeVars
  <2>6. CASE AbortDetached
    <3>1. buffer = <<>> /\ connLost'
      BY <2>6 DEF AbortDetached, ZmqInv, Life
    <3> QED BY <1>0, <2>6, <3>1, QueueBound
      DEF AbortDetached, QueueInv, QueueType, OutboundFifo, BufferSizeExact, PausedHasBacklog,
          queueVars, flowVars
  <2>7. CASE WriteDetached \/ PauseReading \/ ResumeReading
    BY <2>7, <1>0, QueueUnchanged DEF WriteDetached, PauseReading, ResumeReading, lifeVars
  <2> QED BY <1>5, <2>1, <2>2, <2>3, <2>4, <2>5, <2>6, <2>7 DEF App
<1>6. CASE Arrive \/ PeerReads
  BY <1>6, <1>0, QueueUnchanged DEF Arrive, PeerReads, lifeVars
<1> QED BY <1>1, <1>2, <1>3, <1>4, <1>5, <1>6 DEF Next, Loop

-----------------------------------------------------------------------------
(* Types.                                                                  *)

LEMMA TypeSplit == TypeOK <=> QueueType /\ RestType
BY DEF TypeOK, BaseTypeOK, QueueType, RestType, CountType

\* Adding a call to the loop's queue, or taking one off.
LEMMA ReadyType ==
  ASSUME ready \in Seq(LostCalls)
  PROVE  /\ \A call \in LostCalls : Append(ready, call) \in Seq(LostCalls)
         /\ ready # <<>> => Tail(ready) \in Seq(LostCalls) /\ Head(ready) \in LostCalls
OBVIOUS

LEMMA CountStep == ASSUME CountType, [Next]_vars PROVE CountType'
<1>1. CASE UNCHANGED <<inbox, delivered, room>>
  BY <1>1 DEF CountType
<1>2. CASE UNCHANGED <<inbox, delivered>> /\ room > 0 /\ room' = room - 1
  BY <1>2, BoundAssumption DEF CountType
<1>3. CASE ReadMessage
  BY <1>3, BoundAssumption DEF ReadMessage, CountType
<1>4. CASE Arrive
  BY <1>4, BoundAssumption DEF Arrive, CountType
<1>5. CASE PeerReads
  BY <1>5, BoundAssumption DEF PeerReads, CountType, recvVars
<1>6. CASE SendOk \/ WriteSent
  BY <1>2, <1>6 DEF SendOk, SendHead, WriteSent, SendAtOnce, recvVars
<1>7. CASE UNCHANGED vars
  BY <1>1, <1>7 DEF vars, baseVars, recvVars
<1>8. CASE Loop
  BY <1>1, <1>3, <1>6, <1>8
     DEF Loop, Callback, Select, RunLost, ReadInterrupted, ReadFails, SendAgain, SendFails,
         baseVars, recvVars
<1>9. CASE HandlerReturns \/ ResumeReturns \/ WroteAll \/ WroteSome
  BY <1>1, <1>9 DEF HandlerReturns, ResumeReturns, WroteAll, WroteSome, baseVars, recvVars
<1>10. CASE App
  BY <1>1, <1>6, <1>10
     DEF App, WriteBehind, WriteAgain, Enqueue, MaybePauseProtocol, WriteFails, WriteDetached, Close, Abort,
         AbortDetached, PauseReading, ResumeReading, SetLimits, recvVars
<1> QED BY <1>4, <1>5, <1>7, <1>8, <1>9, <1>10 DEF Next

LEMMA ForceCloseTypes ==
  ASSUME ZmqInv, NEW call \in LostCalls, ForceClose(call), Unregister,
         UNCHANGED <<paused, lost, faults, recvVars, room, at>>
  PROVE  RestType'
<1>1. ready' \in Seq(LostCalls)
  BY ReadyType DEF ForceClose, ZmqInv, RestType
<1>2. failed' \in BOOLEAN /\ closing' \in BOOLEAN
  BY DEF ForceClose
<1>3. /\ readerOn' \in BOOLEAN /\ writerOn' \in BOOLEAN
      /\ rdQueued' \in BOOLEAN /\ wrQueued' \in BOOLEAN
  BY DEF ZmqInv, RestType, Unregister, RemoveReader, RemoveWriter, KeepReader, KeepWriter
<1> QED BY <1>1, <1>2, <1>3 DEF ZmqInv, RestType, CountType, recvVars

LEMMA TypeStep == ASSUME ZmqInv, [Next]_vars PROVE RestType'
<1>0. RestType /\ CountType'
  BY CountStep DEF ZmqInv, RestType
<1>1. CASE UNCHANGED vars
  BY <1>0, <1>1 DEF RestType, vars, baseVars, lifeVars, recvVars, pollVars
<1>2. CASE Select
  BY <1>0, <1>2 DEF Select, RestType, baseVars, lifeVars, recvVars
<1>3. CASE RunLost
  BY <1>0, <1>3, ReadyType
     DEF RunLost, CallConnectionLost, Fault, RestType, lifeVars, recvVars, pollVars
<1>4. CASE ReadMessage
  BY <1>0, <1>4 DEF ReadMessage, CallRead, RestType, lifeVars
<1>5. CASE ReadInterrupted \/ SendAgain
  <2>1. CASE ReadInterrupted
    BY <1>0, <2>1 DEF ReadInterrupted, CallRead, RestType, baseVars, lifeVars, recvVars
  <2>2. CASE SendAgain
    BY <1>0, <2>2 DEF SendAgain, RestType, baseVars, lifeVars, recvVars
  <2> QED BY <1>5, <2>1, <2>2
<1>6. CASE ReadFails \/ SendFails \/ WriteFails \/ Abort
  BY <1>6, ForceCloseTypes DEF ReadFails, SendFails, WriteFails, Abort, LostCalls
<1>7. CASE SendOk
  <2>1. at' \in {"resume", "wrote"}
    BY <1>7 DEF SendOk
  <2> QED BY <1>0, <1>7, <2>1
     DEF SendOk, SendHead, MaybeResumeProtocol, RestType, lifeVars, recvVars
<1>8. CASE HandlerReturns \/ ResumeReturns \/ WroteAll \/ WroteSome
  <2>1. CASE HandlerReturns
    BY <1>0, <2>1 DEF HandlerReturns, baseVars, RestType, lifeVars, recvVars, pollVars
  <2>2. CASE ResumeReturns
    BY <1>0, <2>2 DEF ResumeReturns, baseVars, RestType, lifeVars, recvVars, pollVars
  <2>3. CASE WroteAll
    BY <1>0, <2>3 DEF WroteAll, RemoveWriter, baseVars, RestType, lifeVars, recvVars, pollVars
  <2>4. CASE WroteSome
    BY <1>0, <2>4 DEF WroteSome, baseVars, RestType, lifeVars, recvVars, pollVars
  <2> QED BY <1>8, <2>1, <2>2, <2>3, <2>4
<1>9. CASE WriteSent
  BY <1>0, <1>9 DEF WriteSent, SendAtOnce, RestType, lifeVars, recvVars, pollVars
<1>10. CASE WriteBehind \/ WriteAgain
  <2>1. CASE WriteBehind
    BY <1>0, <2>1 DEF WriteBehind, Enqueue, MaybePauseProtocol, RestType, lifeVars, recvVars, pollVars
  <2>2. CASE WriteAgain
    BY <1>0, <2>2 DEF WriteAgain, Enqueue, MaybePauseProtocol, RestType, lifeVars, recvVars, pollVars
  <2> QED BY <1>10, <2>1, <2>2
<1>11. CASE Close
  <2>1. ready' \in Seq(LostCalls)
    BY <1>0, <1>11, ReadyType DEF Close, StartClose, RestType, LostCalls
  <2> QED BY <1>0, <1>11, <2>1
    DEF Close, StartClose, RemoveReader, KeepReader, KeepWriter, RestType, recvVars
<1>12. CASE WriteDetached \/ AbortDetached
  <2>1. CASE WriteDetached
    BY <1>0, <2>1 DEF WriteDetached, Fault, RestType, lifeVars, recvVars, pollVars
  <2>2. CASE AbortDetached
    BY <1>0, <2>2 DEF AbortDetached, Fault, RestType, lifeVars, recvVars, pollVars
  <2> QED BY <1>12, <2>1, <2>2
<1>13. CASE PauseReading \/ ResumeReading \/ SetLimits
  <2>1. CASE PauseReading
    BY <1>0, <2>1 DEF PauseReading, RemoveReader, RestType, lifeVars, recvVars, pollVars
  <2>2. CASE ResumeReading
    BY <1>0, <2>2 DEF ResumeReading, RestType, lifeVars, recvVars, pollVars
  <2>3. CASE SetLimits
    BY <1>0, <2>3 DEF SetLimits, RestType, lifeVars, recvVars, pollVars
  <2> QED BY <1>13, <2>1, <2>2, <2>3
<1>14. CASE Arrive \/ PeerReads
  <2>1. CASE Arrive
    BY <1>0, <2>1 DEF Arrive, RestType, lifeVars, recvVars, pollVars
  <2>2. CASE PeerReads
    BY <1>0, <2>2 DEF PeerReads, RestType, lifeVars, recvVars, pollVars
  <2> QED BY <1>14, <2>1, <2>2
<1>15. CASE Loop
  BY <1>2, <1>3, <1>4, <1>5, <1>6, <1>7, <1>15 DEF Loop, Callback
<1>16. CASE App
  BY <1>6, <1>9, <1>10, <1>11, <1>12, <1>13, <1>16 DEF App
<1> QED BY <1>1, <1>8, <1>14, <1>15, <1>16 DEF Next

-----------------------------------------------------------------------------
(* Registrations.                                                          *)

\* What a forced close unregisters is what was registered.
LEMMA ForceClosePolling ==
  ASSUME ZmqInv, NEW call, ForceClose(call), Unregister, UNCHANGED <<paused, at>>
  PROVE  Polling'
BY DEF ZmqInv, RestType, Polling, Registered, ReaderMatches, WriterMatches, ForceClose, Unregister,
       RemoveReader, RemoveWriter, KeepReader, KeepWriter

LEMMA PollingStep == ASSUME ZmqInv, [Next]_vars PROVE Polling'
<1>0. /\ Polling
      /\ readerOn \in BOOLEAN /\ writerOn \in BOOLEAN /\ rdQueued \in BOOLEAN /\ wrQueued \in BOOLEAN
      /\ closing \in BOOLEAN /\ paused \in BOOLEAN
  BY DEF ZmqInv, RestType
<1> USE DEF Polling, Registered, ReaderMatches, WriterMatches
<1>1. CASE UNCHANGED <<buffer, closing, paused, pollVars, at>>
  BY <1>0, <1>1 DEF pollVars
<1>2. CASE UNCHANGED vars
  BY <1>1, <1>2 DEF vars, baseVars, queueVars, lifeVars
<1>3. CASE Select
  BY <1>0, <1>3 DEF Select, baseVars, queueVars, lifeVars
<1>4. CASE RunLost \/ WriteSent \/ WriteDetached \/ AbortDetached \/ SetLimits \/ Arrive \/ PeerReads
  BY <1>1, <1>4
     DEF RunLost, WriteSent, SendAtOnce, WriteDetached, AbortDetached, SetLimits, Arrive,
         PeerReads, queueVars, lifeVars
<1>5. CASE ReadMessage \/ ReadInterrupted
  BY <1>0, <1>5 DEF ReadMessage, ReadInterrupted, CallRead, baseVars, queueVars, lifeVars
<1>6. CASE SendOk
  BY <1>0, <1>6 DEF SendOk, CallWrite, SendHead, lifeVars
<1>7. CASE SendAgain
  BY <1>0, <1>7 DEF SendAgain, baseVars, queueVars, lifeVars
<1>8. CASE ReadFails \/ SendFails \/ WriteFails \/ Abort
  BY <1>8, ForceClosePolling DEF ReadFails, SendFails, WriteFails, Abort
<1>9. CASE HandlerReturns \/ ResumeReturns \/ WroteSome
  BY <1>0, <1>9 DEF HandlerReturns, ResumeReturns, WroteSome, baseVars, queueVars, lifeVars, pollVars
<1>10. CASE WroteAll
  BY <1>0, <1>10 DEF WroteAll, RemoveWriter, queueVars, lifeVars
<1>11. CASE WriteBehind \/ WriteAgain
  <2>1. buffer' # <<>>
    BY <1>11 DEF WriteBehind, WriteAgain, Enqueue, ZmqInv, QueueInv, QueueType
  <2> QED BY <1>0, <1>11, <2>1 DEF WriteBehind, WriteAgain, lifeVars, pollVars
<1>12. CASE Close
  BY <1>0, <1>12 DEF Close, StartClose, RemoveReader, KeepReader, KeepWriter, queueVars
<1>13. CASE PauseReading \/ ResumeReading
  BY <1>0, <1>13 DEF PauseReading, ResumeReading, RemoveReader, queueVars, lifeVars
<1>14. CASE Loop
  BY <1>3, <1>4, <1>5, <1>6, <1>7, <1>8, <1>14 DEF Loop, Callback
<1>15. CASE App
  BY <1>4, <1>8, <1>11, <1>12, <1>13, <1>15 DEF App
<1> QED BY <1>2, <1>4, <1>9, <1>10, <1>14, <1>15 DEF Next

-----------------------------------------------------------------------------
(* The end of the connection.                                              *)

\* What is about to be read or sent has its transport.
LEMMA CallsAreLive ==
  ASSUME ZmqInv
  PROVE  /\ rdQueued \/ wrQueued => ~Detached
         /\ rdQueued => ~closing
         /\ buffer # <<>> => ~connLost /\ ~Detached
         /\ at # "loop" => ~Detached
BY DEF ZmqInv, Polling, Registered, ReaderMatches, Life, QueueInv, OutboundFifo

LEMMA ForceCloseLife ==
  ASSUME ZmqInv, NEW call, ForceClose(call), ~Detached, UNCHANGED lost
  PROVE  Life'
BY DEF Life, ForceClose, Detached

LEMMA LifeStep == ASSUME ZmqInv, [Next]_vars PROVE Life'
<1>0. Life /\ RestType /\ (connLost => buffer = <<>>)
  BY DEF ZmqInv, QueueInv, OutboundFifo
<1>1. CASE UNCHANGED <<connLost, closing, lost, buffer, at, ready>>
  BY <1>0, <1>1 DEF Life, Detached
<1>2. CASE UNCHANGED vars \/ Select
  BY <1>1, <1>2 DEF vars, Select, baseVars, queueVars, lifeVars
<1>3. CASE RunLost
  BY <1>0, <1>3 DEF RunLost, Life, Detached, queueVars, lifeVars
<1>4. CASE ReadMessage
  BY <1>0, <1>4, CallsAreLive DEF ReadMessage, CallRead, Life, Detached, queueVars, lifeVars
<1>5. CASE ReadInterrupted \/ SendAgain \/ WriteDetached \/ PauseReading \/ ResumeReading
             \/ SetLimits \/ Arrive \/ PeerReads \/ WriteSent
  BY <1>1, <1>5
     DEF ReadInterrupted, SendAgain, WriteDetached, PauseReading, ResumeReading, SetLimits,
         Arrive, PeerReads, WriteSent, SendAtOnce, baseVars, queueVars, lifeVars
<1>6. CASE ReadFails \/ SendFails \/ WriteFails \/ Abort
  BY <1>6, CallsAreLive, ForceCloseLife DEF ReadFails, SendFails, WriteFails, Abort
<1>7. CASE SendOk
  BY <1>0, <1>7, CallsAreLive DEF SendOk, SendHead, Life, Detached, lifeVars
<1>8. CASE HandlerReturns \/ ResumeReturns \/ WroteSome
  BY <1>0, <1>8, CallsAreLive
     DEF HandlerReturns, ResumeReturns, WroteSome, Life, Detached, baseVars, queueVars, lifeVars
<1>9. CASE WroteAll
  BY <1>0, <1>9 DEF WroteAll, Life, Detached, queueVars, lifeVars
<1>10. CASE WriteBehind \/ WriteAgain
  BY <1>0, <1>10 DEF WriteBehind, WriteAgain, Enqueue, Life, Detached, lifeVars
<1>11. CASE Close
  BY <1>0, <1>11 DEF Close, StartClose, Life, Detached, queueVars
<1>12. CASE AbortDetached
  BY <1>0, <1>12 DEF AbortDetached, Life, Detached, queueVars
<1> QED BY <1>2, <1>3, <1>4, <1>5, <1>6, <1>7, <1>8, <1>9, <1>10, <1>11, <1>12
  DEF Next, Loop, Callback, App

-----------------------------------------------------------------------------
(* Invariants.                                                             *)

LEMMA InvInit == Init => ZmqInv
<1> SUFFICES ASSUME Init PROVE ZmqInv
  OBVIOUS
<1>1. QueueInv
  BY QueueInit DEF Init
<1>2. RestType
  <2>1. CountType
    BY BoundAssumption DEF Init, BaseInit, CountType
  <2>2. ready \in Seq(LostCalls)
    BY DEF Init, BaseInit
  <2> QED BY <2>1, <2>2 DEF Init, BaseInit, RestType
<1>3. Polling
  BY DEF Init, BaseInit, Polling, Registered, ReaderMatches, WriterMatches
<1>4. Life
  BY DEF Init, BaseInit, Life, Detached
<1> QED BY <1>1, <1>2, <1>3, <1>4 DEF ZmqInv

LEMMA InvAlways == Spec => []ZmqInv
<1>1. ZmqInv /\ [Next]_vars => ZmqInv'
  BY QueueStep, TypeStep, PollingStep, LifeStep DEF ZmqInv
<1> QED BY InvInit, <1>1, PTL DEF Spec

\* Whatever callbacks do in the middle of a flush, messages go out once, in order
\* and without gaps, _buffer_size is the length of what waits, and a protocol is
\* paused only over a backlog.
THEOREM BooksHold == Spec => []Books
<1>1. ZmqInv => Books
  BY TypeSplit DEF ZmqInv, QueueInv, Books
<1> QED BY <1>1, InvAlways, PTL

\* The reader is registered exactly while messages are wanted, the writer exactly
\* while there is a backlog, and neither is called for nothing.
THEOREM RegisteredHolds == Spec => []Registered
<1>1. ZmqInv => Registered
  BY DEF ZmqInv, Polling
<1> QED BY <1>1, InvAlways, PTL

\* Nothing is handed over after close(): a closing transport has no reader, and a
\* call of it that was queued is gone with it.
THEOREM NoDataAfterCloseHolds == Spec => NoDataAfterClose
<1>1. ZmqInv /\ [Next]_vars => [closing /\ ~failed => delivered' = delivered]_baseVars
  <2> SUFFICES ASSUME ZmqInv, [Next]_vars, closing PROVE delivered' = delivered
    OBVIOUS
  <2>1. ~ReadMessage
    BY CallsAreLive DEF ReadMessage, CallRead
  <2>2. CASE UNCHANGED vars
    BY <2>2 DEF vars, baseVars, recvVars
  <2>3. CASE Loop
    BY <2>1, <2>3
       DEF Loop, Callback, Select, RunLost, ReadInterrupted, ReadFails, SendOk, SendAgain, SendFails,
           baseVars, recvVars
  <2>4. CASE HandlerReturns \/ ResumeReturns \/ WroteAll \/ WroteSome
    BY <2>4 DEF HandlerReturns, ResumeReturns, WroteAll, WroteSome, baseVars, recvVars
  <2>5. CASE App
    BY <2>5
       DEF App, WriteSent, WriteBehind, WriteAgain, WriteFails, WriteDetached, Close, Abort,
           AbortDetached, PauseReading, ResumeReading, SetLimits, recvVars
  <2>6. CASE Arrive \/ PeerReads
    BY <2>6 DEF Arrive, PeerReads, recvVars
  <2> QED BY <2>2, <2>3, <2>4, <2>5, <2>6 DEF Next
<1> QED BY <1>1, InvAlways, PTL DEF Spec, NoDataAfterClose

-----------------------------------------------------------------------------
(* The contract.                                                           *)

\* What the invariant says about the counters of the contract.
LEMMA Counters ==
  ASSUME ZmqInv
  PROVE  /\ accepted \in Nat /\ Len(sent) \in Nat /\ Len(sent) <= accepted
         /\ ~connLost /\ buffer = <<>> => Len(sent) = accepted
         /\ buffer # <<>> => Len(sent) < accepted /\ Head(buffer) = Len(sent) + 1
<1>1. QueueInv
  BY DEF ZmqInv
<1>2. /\ Len(sent) \in Nat /\ Len(buffer) \in Nat
      /\ buffer = <<>> => Len(buffer) = 0
      /\ buffer # <<>> => Len(buffer) > 0 /\ Head(buffer) = buffer[1]
  BY <1>1 DEF QueueInv, QueueType
<1>3. accepted \in Nat
  BY <1>1, BoundAssumption DEF QueueInv, QueueType
<1>4. ASSUME buffer # <<>> PROVE buffer[1] = Len(sent) + 1
  <2>1. 1 \in 1..Len(buffer)
    BY <1>2, <1>4
  <2> QED BY <1>1, <2>1 DEF QueueInv, OutboundFifo
<1> QED BY <1>1, <1>2, <1>3, <1>4 DEF QueueInv, OutboundFifo

\* A forced close is an abort() of the contract if it drops messages, a close() if
\* there are none to drop, and nothing after a close() whose backlog is out.
LEMMA ForceCloseRefines ==
  ASSUME ZmqInv, NEW call, ForceClose(call), ~Detached, UNCHANGED <<delivered, lost>>
  PROVE  [Contract!Next]_(Contract!contractVars)
<1>1. CASE Len(sent) < accepted
  <2>1. Contract!Abort
    BY <1>1 DEF ForceClose, Contract!Abort, Phase, Detached
  <2> QED BY <2>1 DEF Contract!Next
<1>2. CASE ~(Len(sent) < accepted) /\ ~closing
  <2>1. Contract!Close
    BY <1>2 DEF ForceClose, Contract!Close, Phase, Detached
  <2> QED BY <2>1 DEF Contract!Next
<1>3. CASE ~(Len(sent) < accepted) /\ closing
  BY <1>3 DEF ForceClose, Contract!contractVars, Phase, Detached
<1> QED BY <1>1, <1>2, <1>3

\* connection_lost() of a transport whose backlog is out or was dropped.
LEMMA LostRefines ==
  ASSUME ZmqInv, ~Detached, Detached', closing, connLost \/ buffer = <<>>,
         UNCHANGED <<accepted, sent, delivered>>
  PROVE  [Contract!Next]_(Contract!contractVars)
<1>1. /\ Phase \in {"aborted", "draining"}
      /\ Phase = "draining" => Len(sent) = accepted
      /\ Phase' = "lost"
  BY Counters DEF Phase
<1>2. Contract!Lose
  BY <1>1 DEF Contract!Lose
<1> QED BY <1>2 DEF Contract!Next

LEMMA ContractStep ==
  ASSUME ZmqInv, [Next]_vars
  PROVE  [Contract!Next]_(Contract!contractVars)
<1>1. CASE UNCHANGED <<accepted, sent, delivered, closing, connLost, lost>>
  BY <1>1 DEF Contract!contractVars, Phase, Detached
<1>2. CASE UNCHANGED vars
  BY <1>1, <1>2 DEF vars, baseVars, queueVars, lifeVars, recvVars
<1>3. CASE RunLost
  <2>1. connLost /\ closing
    BY <1>3 DEF RunLost, ZmqInv, Life
  <2>2. CASE Detached
    BY <1>1, <1>3, <2>2 DEF RunLost, CallConnectionLost, queueVars, lifeVars, recvVars
  <2>3. CASE ~Detached
    BY <1>3, <2>1, <2>3, LostRefines
       DEF RunLost, CallConnectionLost, Detached, queueVars, recvVars
  <2> QED BY <2>2, <2>3
<1>4. CASE Callback
  <2>1. CASE ReadMessage
    <3>1. Contract!Deliver
      BY <2>1, CallsAreLive
         DEF ReadMessage, CallRead, queueVars, lifeVars, Contract!Deliver, Phase, Detached
    <3> QED BY <3>1 DEF Contract!Next
  <2>2. CASE ReadFails \/ SendFails
    BY <2>2, CallsAreLive, ForceCloseRefines DEF ReadFails, SendFails, recvVars
  <2>3. CASE SendOk
    <3>1. /\ ~connLost /\ ~Detached /\ Len(sent) < accepted
          /\ sent' = Append(sent, Len(sent) + 1)
          /\ UNCHANGED <<accepted, delivered, closing, connLost, lost>>
      BY <2>3, Counters, CallsAreLive DEF SendOk, SendHead, lifeVars, recvVars
    <3>2. Contract!Emit
      BY <3>1 DEF Contract!Emit, Phase, Detached
    <3> QED BY <3>2 DEF Contract!Next
  <2>4. CASE ReadInterrupted \/ SendAgain
    BY <1>1, <2>4 DEF ReadInterrupted, SendAgain, baseVars, queueVars, lifeVars, recvVars
  <2> QED BY <1>4, <2>1, <2>2, <2>3, <2>4 DEF Callback
<1>5. CASE WroteAll
  <2>1. CASE closing
    <3>1. ~Detached /\ Detached'
      BY <1>5, <2>1, CallsAreLive DEF WroteAll, Detached
    <3> QED BY <1>5, <2>1, <3>1, LostRefines DEF WroteAll, queueVars, recvVars
  <2>2. CASE ~closing
    BY <1>1, <1>5, <2>2 DEF WroteAll, queueVars, lifeVars, recvVars
  <2> QED BY <2>1, <2>2
<1>6. CASE App
  <2>1. CASE WriteSent
    <3>1. Contract!SubmitNow
      BY <2>1, Counters
         DEF WriteSent, SendAtOnce, Contract!SubmitNow, Phase, Detached, lifeVars, recvVars
    <3> QED BY <3>1 DEF Contract!Next
  <2>2. CASE WriteBehind \/ WriteAgain
    <3>1. Contract!Submit
      BY <2>2
         DEF WriteBehind, WriteAgain, Enqueue, MaybePauseProtocol, Contract!Submit, Phase, Detached,
             lifeVars, recvVars
    <3> QED BY <3>1 DEF Contract!Next
  <2>3. CASE WriteFails \/ Abort
    BY <2>3, ForceCloseRefines DEF WriteFails, Abort, recvVars
  <2>4. CASE Close
    <3>1. /\ ~closing /\ ~connLost /\ ~Detached
          /\ closing' /\ ~Detached'
          /\ connLost' => buffer = <<>>
          /\ UNCHANGED <<accepted, sent, delivered>>
      BY <2>4 DEF Close, StartClose, ZmqInv, Life, Detached, queueVars, recvVars
    <3>2. connLost' => ~(Len(sent') < accepted')
      BY <3>1, Counters
    <3>3. Contract!Close
      BY <3>1, <3>2 DEF Contract!Close, Phase
    <3> QED BY <3>3 DEF Contract!Next
  <2>5. CASE AbortDetached
    BY <2>5 DEF AbortDetached, Contract!contractVars, Phase, Detached, queueVars, recvVars
  <2>6. CASE WriteDetached \/ PauseReading \/ ResumeReading \/ SetLimits
    BY <1>1, <2>6
       DEF WriteDetached, PauseReading, ResumeReading, SetLimits, queueVars, lifeVars, recvVars
  <2> QED BY <1>6, <2>1, <2>2, <2>3, <2>4, <2>5, <2>6 DEF App
<1>7. CASE Select \/ HandlerReturns \/ ResumeReturns \/ WroteSome \/ Arrive \/ PeerReads
  BY <1>1, <1>7
     DEF Select, HandlerReturns, ResumeReturns, WroteSome, Arrive, PeerReads, baseVars, queueVars,
         lifeVars, recvVars
<1> QED BY <1>2, <1>3, <1>4, <1>5, <1>6, <1>7 DEF Next, Loop

\* _ZmqTransportImpl implements TransportContract, with any application:
\* messages go out in the order of the write() calls, connection_lost() comes when
\* the backlog is out or was dropped, and nothing is sent, accepted or received
\* afterwards.
THEOREM ContractHolds == Spec => ContractSpec
<1>1. Init => Contract!Init
  BY DEF Init, BaseInit, Contract!Init, Phase, Detached
<1>2. ZmqInv /\ [Next]_vars => [Contract!Next]_(Contract!contractVars)
  BY ContractStep
<1> QED BY <1>1, <1>2, InvAlways, PTL DEF Spec, ContractSpec, Contract!Spec

\* connection_lost() is final: the transport is out of the selector for good, and
\* nothing is accepted, sent or handed over any more.
THEOREM NothingAfterLostHolds == Spec => NothingAfterLost
<1>1. ZmqInv /\ [Next]_vars
        => [Detached => UNCHANGED <<accepted, sent, delivered, lost, readerOn, writerOn>>]_vars
  <2> SUFFICES ASSUME ZmqInv, [Next]_vars, Detached
               PROVE  UNCHANGED <<accepted, sent, delivered, lost, readerOn, writerOn>>
    OBVIOUS
  <2>1. /\ ~rdQueued /\ ~wrQueued /\ at = "loop" /\ closing
        /\ buffer = <<>> /\ ~readerOn
    BY CallsAreLive DEF ZmqInv, Life, Polling, Registered, ReaderMatches
  <2>2. CASE UNCHANGED vars
    BY <2>2 DEF vars, baseVars, queueVars, recvVars, pollVars
  <2>3. CASE Loop
    BY <2>1, <2>3
       DEF Loop, Callback, Select, RunLost, CallConnectionLost, ReadMessage, ReadInterrupted,
           CallRead, ReadFails, SendOk, SendAgain, SendFails, CallWrite, baseVars, queueVars,
           recvVars, pollVars
  <2>4. CASE HandlerReturns \/ ResumeReturns \/ WroteAll \/ WroteSome
    BY <2>1, <2>4 DEF HandlerReturns, ResumeReturns, WroteAll, WroteSome
  <2>5. CASE WriteSent \/ WriteBehind \/ WriteAgain \/ WriteFails \/ Close \/ Abort
    BY <2>1, <2>5
       DEF WriteSent, SendAtOnce, WriteBehind, WriteAgain, Enqueue, WriteFails, Close, StartClose,
           Abort
  <2>6. CASE WriteDetached \/ AbortDetached \/ PauseReading \/ SetLimits
    BY <2>1, <2>6
       DEF WriteDetached, AbortDetached, PauseReading, SetLimits, queueVars, recvVars, pollVars
  <2>7. CASE ResumeReading
    BY <2>1, <2>7 DEF ResumeReading, queueVars, recvVars, ZmqInv, RestType
  <2>8. CASE Arrive \/ PeerReads
    BY <2>8 DEF Arrive, PeerReads, queueVars, recvVars, pollVars
  <2> QED BY <2>2, <2>3, <2>4, <2>5, <2>6, <2>7, <2>8 DEF Next, App
<1> QED BY <1>1, InvAlways, PTL DEF Spec, NothingAfterLost

-----------------------------------------------------------------------------
(* How it ends, when resume_writing() does not close the transport: what it *)
(* closes is closed again by the _write_ready() that called it.             *)

ResumeKeepsOpen == Nested \cap ({"resume"} \X {"fail", "close", "abort"}) = {}

\* connection_lost() comes once: it is queued once, with the right argument, and
\* only of a transport that _write_ready() is not going to detach itself.
Ends ==
  /\ failed => connLost
  /\ at \in {"resume", "wrote"} => ~connLost
  /\ ready # <<>> => ~Detached /\ Tail(ready) = <<>> /\ (Head(ready) = "lost_exc" <=> failed)
  /\ EndsInOrder

LEMMA NoCloseInResume ==
  ASSUME ResumeKeepsOpen, NEW op \in {"fail", "close", "abort"}, MayCall(op), RestType
  PROVE  at \notin {"resume", "wrote"}
BY NestedAssumption DEF ResumeKeepsOpen, MayCall

\* The first call in the queue.
LEMMA FirstCall ==
  ASSUME NEW call PROVE Head(Append(<<>>, call)) = call /\ Tail(Append(<<>>, call)) = <<>>
OBVIOUS

LEMMA ForceCloseEnds ==
  ASSUME ZmqInv, Ends, NEW call \in LostCalls, ForceClose(call), ~Detached,
         at \notin {"resume", "wrote"}, UNCHANGED <<lost, faults, at>>
  PROVE  Ends'
<1>1. ready = <<>> /\ ~failed
  BY DEF ZmqInv, Life, Ends, ForceClose
<1>2. ready' = Append(<<>>, call) /\ failed' = (call = "lost_exc") /\ connLost' /\ ~Detached'
  BY <1>1 DEF ForceClose, Detached
<1> QED BY <1>2, FirstCall DEF Ends, EndsInOrder, LostArgTruthful, OnlyLateCallsFault

LEMMA EndsStep == ASSUME ResumeKeepsOpen, ZmqInv, Ends, [Next]_vars PROVE Ends'
<1>0. /\ Life /\ RestType /\ Ends
  BY DEF ZmqInv
<1> USE DEF EndsInOrder, LostArgTruthful, OnlyLateCallsFault
<1>1. CASE UNCHANGED <<failed, connLost, at, ready, lost, faults>>
  BY <1>0, <1>1 DEF Ends, Detached
<1>2. CASE UNCHANGED vars \/ Select
  BY <1>1, <1>2 DEF vars, Select, baseVars, lifeVars
<1>3. CASE RunLost
  <2>1. ~Detached /\ Tail(ready) = <<>> /\ (Head(ready) = "lost_exc" <=> failed)
    BY <1>0, <1>3 DEF RunLost, Ends
  <2>2. /\ ready' = <<>> /\ lost' = IF failed THEN "exc" ELSE "None"
        /\ UNCHANGED <<failed, connLost, at, faults>>
    BY <1>3, <2>1 DEF RunLost, CallConnectionLost, lifeVars
  <2> QED BY <1>0, <2>2 DEF Ends, Detached
<1>4. CASE ReadMessage
  BY <1>0, <1>4 DEF ReadMessage, Ends, Detached, lifeVars
<1>5. CASE ReadInterrupted \/ SendAgain \/ PauseReading \/ ResumeReading \/ SetLimits
             \/ WriteSent \/ WriteBehind \/ WriteAgain \/ Arrive \/ PeerReads
  BY <1>1, <1>5
     DEF ReadInterrupted, SendAgain, PauseReading, ResumeReading, SetLimits, WriteSent,
         WriteBehind, WriteAgain, Arrive, PeerReads, baseVars, lifeVars
<1>6. CASE ReadFails \/ SendFails
  BY <1>6, CallsAreLive, ForceCloseEnds DEF ReadFails, SendFails, CallWrite, LostCalls
<1>7. CASE WriteFails \/ Abort
  BY <1>0, <1>7, ForceCloseEnds, NoCloseInResume DEF WriteFails, Abort, LostCalls
<1>8. CASE SendOk
  BY <1>0, <1>8, CallsAreLive DEF SendOk, SendHead, Ends, Detached, lifeVars
<1>9. CASE HandlerReturns \/ ResumeReturns \/ WroteSome
  <2>1. /\ UNCHANGED <<failed, connLost, ready, lost, faults>>
        /\ at' = "loop" \/ at = "resume"
    BY <1>9 DEF HandlerReturns, ResumeReturns, WroteSome, baseVars, lifeVars
  <2> QED BY <1>0, <2>1 DEF Ends, Detached
<1>10. CASE WroteAll
  <2>1. ~connLost /\ ~failed /\ ready = <<>>
    BY <1>0, <1>10 DEF WroteAll, Ends, Life
  <2> QED BY <1>0, <1>10, <2>1 DEF WroteAll, Ends, Detached, lifeVars
<1>11. CASE Close
  <2>1. /\ at \notin {"resume", "wrote"}
        /\ ~connLost /\ ~Detached /\ ~failed /\ ready = <<>>
    BY <1>0, <1>11, NoCloseInResume DEF Close, StartClose, Ends, Life
  <2>2. /\ ready' = Append(<<>>, "lost_none") \/ ready' = <<>>
        /\ UNCHANGED <<failed, at, lost, faults>>
    BY <1>11, <2>1 DEF Close, StartClose
  <2> QED BY <1>0, <2>1, <2>2, FirstCall DEF Ends, Detached
<1>12. CASE WriteDetached
  BY <1>0, <1>12 DEF WriteDetached, Fault, Ends, Detached, lifeVars
<1>13. CASE AbortDetached
  <2>1. at = "loop" /\ ready = <<>>
    BY <1>0, <1>13 DEF AbortDetached, Life
  <2> QED BY <1>0, <1>13, <2>1 DEF AbortDetached, Fault, Ends, Detached
<1> QED BY <1>2, <1>3, <1>4, <1>5, <1>6, <1>7, <1>8, <1>9, <1>10, <1>11, <1>12, <1>13
  DEF Next, Loop, Callback, App

\* However the connection ends -- queued, after a flush, forced, or one on top of the
\* other -- it ends with the right argument, and nothing but a late write() or abort()
\* runs into cleared attributes; if resume_writing() does not close the transport.
THEOREM EndsInOrderHolds == ASSUME ResumeKeepsOpen PROVE Spec => []EndsInOrder
<1>1. Init => Ends
  BY DEF Init, BaseInit, Ends, EndsInOrder, LostArgTruthful, OnlyLateCallsFault, Detached
<1>2. ZmqInv /\ ZmqInv' /\ Ends /\ [Next]_vars => Ends'
  BY EndsStep
<1>3. Ends => EndsInOrder
  BY DEF Ends
<1> QED BY <1>1, <1>2, <1>3, InvAlways, PTL DEF Spec

=============================================================================
