---------------------- MODULE LooplessTransportProofs ----------------------
(***************************************************************************)
(* Theorems about LooplessTransport, for all values of its constants.      *)
(***************************************************************************)
EXTENDS LooplessTransport, TLAPS

-----------------------------------------------------------------------------
(* What the operations of BaseTransport keep true of the outbound queue,   *)
(* for every number and length of messages, water marks and room: a lemma  *)
(* for each, to be cited for the actions that perform it.                  *)

\* The queue starts empty.
LEMMA QueueInit == BaseInit => QueueInv
<1> SUFFICES ASSUME BaseInit PROVE QueueInv
  OBVIOUS
<1>1. QueueType
  <2>1. PICK l \in Limits : low = l.low /\ high = l.high
    BY DEF BaseInit
  <2>2. l \in [low : Nat, high : Nat] /\ l.low <= l.high
    BY LimitsAssumption
  <2>3. low \in Nat /\ high \in Nat /\ low <= high
    BY <2>1, <2>2
  <2>4. buffer \in Seq(1..MaxWrites) /\ sent \in Seq(1..MaxWrites)
    BY DEF BaseInit
  <2>5. bufSize \in Nat /\ accepted \in 0..MaxWrites
    BY BoundAssumption DEF BaseInit
  <2>6. protoPaused \in BOOLEAN /\ connLost \in BOOLEAN
    BY DEF BaseInit
  <2> QED BY <2>3, <2>4, <2>5, <2>6 DEF QueueType
<1>2. OutboundFifo
  BY DEF BaseInit, OutboundFifo
<1>3. BufferSizeExact
  BY BytesAssumption, BoundAssumption DEF BaseInit, BufferSizeExact
<1>4. PausedHasBacklog
  BY DEF BaseInit, PausedHasBacklog
<1> QED BY <1>1, <1>2, <1>3, <1>4 DEF QueueInv

\* Nothing but these variables matters.
LEMMA QueueUnchanged ==
  ASSUME QueueInv, UNCHANGED <<queueVars, flowVars, connLost>>
  PROVE  QueueInv'
BY DEF QueueInv, QueueType, OutboundFifo, BufferSizeExact, PausedHasBacklog,
       queueVars, flowVars

\* The messages sent or buffered are no more than the accepted ones.
LEMMA QueueBound ==
  ASSUME QueueInv
  PROVE  /\ Len(sent) \in Nat /\ Len(buffer) \in Nat
         /\ Len(sent) + Len(buffer) <= accepted
         /\ Len(sent) + Len(buffer) \in 0..MaxWrites
         /\ Len(sent) \in 0..MaxWrites
BY BoundAssumption DEF QueueInv, QueueType, OutboundFifo

\* write() of a message the socket takes.
LEMMA SendAtOnceQueue ==
  ASSUME QueueInv, SendAtOnce, UNCHANGED connLost
  PROVE  QueueInv'
<1>1. /\ Len(sent) = accepted
      /\ accepted' = accepted + 1 /\ accepted' \in 1..MaxWrites
      /\ sent' = Append(sent, accepted')
      /\ Len(sent') = Len(sent) + 1
  BY QueueBound, BoundAssumption DEF QueueInv, QueueType, OutboundFifo, SendAtOnce
<1>2. QueueType'
  BY <1>1 DEF QueueInv, QueueType, SendAtOnce, flowVars
<1>3. OutboundFifo'
  BY <1>1, QueueBound DEF QueueInv, QueueType, OutboundFifo, SendAtOnce
<1>4. BufferSizeExact'
  BY <1>1, <1>2, BytesAssumption, BoundAssumption
     DEF QueueInv, QueueType, BufferSizeExact, SendAtOnce
<1>5. PausedHasBacklog'
  BY DEF QueueInv, PausedHasBacklog, SendAtOnce, flowVars
<1> QED BY <1>2, <1>3, <1>4, <1>5 DEF QueueInv

\* write() of a message that waits in the buffer.
LEMMA EnqueueQueue ==
  ASSUME QueueInv, Enqueue, UNCHANGED connLost
  PROVE  QueueInv'
<1>1. /\ accepted = Len(sent) + Len(buffer)
      /\ accepted' = accepted + 1 /\ accepted' \in 1..MaxWrites
      /\ buffer' = Append(buffer, accepted')
      /\ Len(buffer') = Len(buffer) + 1
      /\ buffer' # <<>>
  BY QueueBound, BoundAssumption DEF QueueInv, QueueType, OutboundFifo, Enqueue, MaybePauseProtocol
<1>2. /\ Size(accepted') = Bytes[accepted + 1] - Bytes[accepted]
      /\ Size(accepted') \in Nat
  BY <1>1, BytesAssumption, BoundAssumption DEF QueueInv, QueueType, Size
<1>3. QueueType'
  BY <1>1, <1>2 DEF QueueInv, QueueType, Enqueue, MaybePauseProtocol
<1>4. OutboundFifo'
  <2>1. \A i \in 1..Len(buffer') : buffer'[i] = Len(sent) + i
    <3> SUFFICES ASSUME NEW i \in 1..Len(buffer')
                 PROVE  buffer'[i] = Len(sent) + i
      OBVIOUS
    <3>1. CASE i = Len(buffer) + 1
      BY <3>1, <1>1, QueueBound DEF QueueInv, QueueType
    <3>2. CASE i \in 1..Len(buffer)
      BY <3>2, <1>1 DEF QueueInv, QueueType, OutboundFifo
    <3> QED BY <3>1, <3>2, <1>1, QueueBound
  <2>2. sent' = sent /\ ~connLost /\ ~connLost'
    BY DEF Enqueue, MaybePauseProtocol
  <2>3. accepted' = Len(sent) + Len(buffer')
    BY <1>1, QueueBound
  <2> QED BY <2>1, <2>2, <2>3 DEF QueueInv, OutboundFifo
<1>5. BufferSizeExact'
  <2>1. bufSize' = (Bytes[accepted] - Bytes[Len(sent)])
                     + (Bytes[accepted + 1] - Bytes[accepted])
    BY <1>1, <1>2 DEF QueueInv, BufferSizeExact, Enqueue, MaybePauseProtocol
  <2>2. Len(sent') + Len(buffer') = accepted + 1 /\ sent' = sent
    BY <1>1, QueueBound DEF Enqueue, MaybePauseProtocol
  <2>3. /\ Bytes[accepted] \in Nat /\ Bytes[accepted + 1] \in Nat
        /\ Bytes[Len(sent)] \in Nat
    BY <1>1, QueueBound, BytesAssumption, BoundAssumption DEF QueueInv, QueueType
  <2> QED BY <2>1, <2>2, <2>3 DEF BufferSizeExact
<1>6. PausedHasBacklog'
  BY <1>1 DEF PausedHasBacklog
<1> QED BY <1>3, <1>4, <1>5, <1>6 DEF QueueInv

\* The socket takes the head of the buffer.
LEMMA SendHeadQueue ==
  ASSUME QueueInv, SendHead, UNCHANGED connLost
  PROVE  QueueInv'
<1>1. /\ ~connLost
      /\ accepted = Len(sent) + Len(buffer)
      /\ Head(buffer) = Len(sent) + 1
      /\ Head(buffer) \in 1..MaxWrites
      /\ Len(buffer) >= 1
  <2>1. ~connLost /\ accepted = Len(sent) + Len(buffer)
    BY DEF QueueInv, OutboundFifo, SendHead, MaybeResumeProtocol
  <2>2. Len(buffer) >= 1
    BY DEF QueueInv, QueueType, SendHead, MaybeResumeProtocol
  <2>3. Head(buffer) = buffer[1] /\ buffer[1] = Len(sent) + 1
    BY <2>2, QueueBound DEF QueueInv, QueueType, OutboundFifo
  <2> QED BY <2>1, <2>2, <2>3, QueueBound, BoundAssumption
<1>2. /\ sent' = Append(sent, Len(sent) + 1)
      /\ Len(sent') = Len(sent) + 1
      /\ Len(buffer') = Len(buffer) - 1
      /\ \A i \in 1..Len(buffer') : buffer'[i] = buffer[i + 1]
      /\ buffer' \in Seq(1..MaxWrites)
      /\ sent' \in Seq(1..MaxWrites)
  BY <1>1 DEF QueueInv, QueueType, SendHead, MaybeResumeProtocol
<1>3. OutboundFifo'
  BY <1>1, <1>2, QueueBound DEF QueueInv, QueueType, OutboundFifo, SendHead, MaybeResumeProtocol
<1>4. /\ Len(sent') + Len(buffer') = accepted
      /\ bufSize' = Bytes[accepted] - Bytes[Len(sent')]
      /\ bufSize' \in Nat
  <2>1. /\ Len(sent') + Len(buffer') = accepted
        /\ Len(sent) \in 0..MaxWrites /\ Len(sent) + 1 \in 0..MaxWrites
        /\ accepted \in 0..MaxWrites /\ Len(sent) + 1 <= accepted
        /\ Len(sent') = Len(sent) + 1
    BY <1>1, <1>2, QueueBound, BoundAssumption DEF QueueInv, QueueType
  <2>2. /\ Bytes[accepted] \in Nat /\ Bytes[Len(sent)] \in Nat
        /\ Bytes[Len(sent) + 1] \in Nat
        /\ Bytes[Len(sent) + 1] <= Bytes[accepted]
    BY <2>1, BytesAssumption
  <2>3. Size(Head(buffer)) = Bytes[Len(sent) + 1] - Bytes[Len(sent)]
    BY <1>1, <2>1 DEF Size
  <2>4. bufSize' = (Bytes[accepted] - Bytes[Len(sent)])
                     - (Bytes[Len(sent) + 1] - Bytes[Len(sent)])
    BY <1>1, <2>3 DEF QueueInv, BufferSizeExact, SendHead, MaybeResumeProtocol
  <2> QED BY <2>1, <2>2, <2>4
<1>5. BufferSizeExact'
  BY <1>4 DEF BufferSizeExact, SendHead, MaybeResumeProtocol
<1>6. QueueType'
  BY <1>2, <1>4 DEF QueueInv, QueueType, SendHead, MaybeResumeProtocol
<1>7. PausedHasBacklog'
  <2> SUFFICES ASSUME buffer' = <<>> PROVE ~protoPaused'
    BY DEF PausedHasBacklog
  <2>1. Len(sent') = accepted
    BY <1>2, <1>4
  <2>2. bufSize' = 0
    BY <2>1, <1>4, BytesAssumption DEF QueueInv, QueueType
  <2>3. ~(bufSize' > low)
    BY <2>2 DEF QueueInv, QueueType
  <2> QED BY <2>3 DEF SendHead, MaybeResumeProtocol
<1> QED BY <1>3, <1>5, <1>6, <1>7 DEF QueueInv

\* _force_close() drops the buffer.
LEMMA ForceCloseQueue ==
  ASSUME QueueInv, NEW call, ForceClose(call)
  PROVE  QueueInv'
<1>1. QueueType'
  BY DEF QueueInv, QueueType, ForceClose, flowVars
<1>2. OutboundFifo'
  BY QueueBound DEF QueueInv, QueueType, OutboundFifo, ForceClose
<1>3. BufferSizeExact'
  BY QueueBound, BytesAssumption DEF BufferSizeExact, ForceClose
<1>4. PausedHasBacklog'
  BY DEF PausedHasBacklog, ForceClose
<1> QED BY <1>1, <1>2, <1>3, <1>4 DEF QueueInv

\* close() gives up nothing.
LEMMA StartCloseQueue ==
  ASSUME QueueInv, StartClose, UNCHANGED <<queueVars, flowVars>>
  PROVE  QueueInv'
<1>1. QueueType'
  BY DEF QueueInv, QueueType, StartClose, queueVars, flowVars
<1>2. OutboundFifo'
  BY QueueBound DEF QueueInv, QueueType, OutboundFifo, StartClose, queueVars
<1>3. BufferSizeExact'
  BY DEF QueueInv, BufferSizeExact, queueVars
<1>4. PausedHasBacklog'
  BY DEF QueueInv, QueueType, PausedHasBacklog, OutboundFifo, StartClose, queueVars,
         flowVars
<1> QED BY <1>1, <1>2, <1>3, <1>4 DEF QueueInv

\* set_write_buffer_limits() pauses the protocol only over a backlog.
LEMMA NewLimitsQueue ==
  ASSUME QueueInv, NEW l \in Limits, NewLimits(l), UNCHANGED <<queueVars, connLost>>
  PROVE  QueueInv'
<1>1. l.low \in Nat /\ l.high \in Nat /\ l.low <= l.high
  BY LimitsAssumption
<1>2. QueueType'
  BY <1>1 DEF QueueInv, QueueType, NewLimits, MaybePauseProtocol, queueVars
<1>3. OutboundFifo' /\ BufferSizeExact'
  BY DEF QueueInv, OutboundFifo, BufferSizeExact, queueVars
<1>4. PausedHasBacklog'
  <2> SUFFICES ASSUME buffer = <<>>, ~connLost PROVE ~(bufSize > l.high)
    BY DEF QueueInv, PausedHasBacklog, NewLimits, MaybePauseProtocol, queueVars
  <2>1. bufSize = 0
    BY QueueBound, BytesAssumption DEF QueueInv, BufferSizeExact
  <2> QED BY <2>1, <1>1
<1> QED BY <1>2, <1>3, <1>4 DEF QueueInv

-----------------------------------------------------------------------------
(* The outbound queue.                                                     *)

\* Every step keeps the outbound queue's invariant: each action performs one
\* of the shared operations on it or leaves it alone.
LEMMA QueueStep == QueueInv /\ [Next]_vars => QueueInv'
<1> SUFFICES ASSUME QueueInv, [Next]_vars PROVE QueueInv'
  OBVIOUS
<1>1. CASE UNCHANGED vars
  BY <1>1, QueueUnchanged DEF vars, baseVars, lifeVars
<1>2. CASE Step
  <2>1. CASE ReadMessage \/ ReadInterrupted \/ HandlerReturns \/ HandlerRaises
    BY <2>1, QueueUnchanged
       DEF ReadMessage, ReadInterrupted, HandlerReturns, HandlerRaises, baseVars, lifeVars
  <2>2. CASE ReadFails
    BY <2>2, QueueUnchanged, ForceCloseQueue DEF ReadFails, lifeVars
  <2>3. CASE SkipWrite \/ SendAgain \/ ResumeReturns \/ KeepWriting \/ NothingMore
    BY <2>3, QueueUnchanged
       DEF SkipWrite, SendAgain, ResumeReturns, KeepWriting, NothingMore, baseVars, lifeVars
  <2>4. CASE SendOk
    BY <2>4, SendHeadQueue DEF SendOk, lifeVars
  <2>5. CASE SendFails
    BY <2>5, ForceCloseQueue DEF SendFails
  <2>6. CASE FinishClose \/ FinishCloseAgain \/ Recheck \/ RecheckDetached
    BY <2>6, QueueUnchanged
       DEF FinishClose, FinishCloseAgain, Recheck, RecheckDetached, lifeVars
  <2> QED BY <1>2, <2>1, <2>2, <2>3, <2>4, <2>5, <2>6 DEF Step
<1>3. CASE Loop
  BY <1>3, QueueUnchanged DEF Loop, Select, RunReader, RunCancelled, RunLost, lifeVars
<1>4. CASE App
  <2>1. CASE WriteSent
    BY <2>1, SendAtOnceQueue DEF WriteSent, lifeVars
  <2>2. CASE WriteBehind \/ WriteAgain
    BY <2>2, EnqueueQueue DEF WriteBehind, WriteAgain, lifeVars
  <2>3. CASE WriteFails \/ Abort
    BY <2>3, ForceCloseQueue DEF WriteFails, Abort
  <2>4. CASE Close
    BY <2>4, StartCloseQueue DEF Close
  <2>5. CASE SetLimits
    BY <2>5, NewLimitsQueue DEF SetLimits, lifeVars
  <2>6. CASE WriteDetached \/ AbortDetached \/ PauseReading \/ ResumeReading \/ Peek
    BY <2>6, QueueUnchanged
       DEF WriteDetached, AbortDetached, PauseReading, ResumeReading, Peek, baseVars, lifeVars
  <2> QED BY <1>4, <2>1, <2>2, <2>3, <2>4, <2>5, <2>6 DEF App
<1>5. CASE Peers
  BY <1>5, QueueUnchanged DEF Peers, Arrive, PeerReads, lifeVars
<1> QED BY <1>1, <1>2, <1>3, <1>4, <1>5 DEF Next

LEMMA QueueAlways == Spec => []QueueInv
<1>1. Init => QueueInv
  BY QueueInit DEF Init
<1> QED BY <1>1, QueueStep, PTL DEF Spec

\* For any number and size of messages, any water marks, any nesting of
\* callbacks and any of the quirks: messages go out once, in order and
\* without gaps, whatever mix of direct sends, flushes, closes and failures.
THEOREM OutboundFifoHolds == Spec => []OutboundFifo
BY QueueAlways, PTL DEF QueueInv

\* _buffer_size never drifts from the contents of _buffer.
THEOREM BufferSizeHolds == Spec => []BufferSizeExact
BY QueueAlways, PTL DEF QueueInv

\* A protocol of a live transport is paused only over a backlog.
THEOREM PausedHasBacklogHolds == Spec => []PausedHasBacklog
BY QueueAlways, PTL DEF QueueInv

-----------------------------------------------------------------------------
(* Types.                                                                  *)

\* What TypeOK says beyond the outbound queue.
RestType ==
  /\ paused \in BOOLEAN
  /\ closing \in BOOLEAN
  /\ lost \in {"no", "None", "exc"}
  /\ failed \in BOOLEAN
  /\ faults \subseteq {"post", "wrote", "write", "abort", "lost"}
  /\ inbox \in 0..MaxIn
  /\ room \in 0..MaxRoom
  /\ delivered \in 0..MaxIn
  /\ inbox + delivered <= MaxIn
  /\ soonCall \in BOOLEAN
  /\ readerOn \in BOOLEAN
  /\ stack \in Seq(Frame)
  /\ ready \in Seq(Calls)
  /\ signal \in BOOLEAN
  /\ asleep \in BOOLEAN

LEMMA TypeSplit == TypeOK <=> QueueType /\ RestType
BY DEF TypeOK, BaseTypeOK, QueueType, RestType

\* Replacing the top frame, or pushing one, leaves a stack.
LEMMA StackTop ==
  ASSUME stack \in Seq(Frame), stack # <<>>
  PROVE  Head(stack) \in Frame /\ Tail(stack) \in Seq(Frame)
OBVIOUS

LEMMA StackReplace ==
  ASSUME stack \in Seq(Frame), stack # <<>>, NEW f \in Frame
  PROVE  <<f>> \o Tail(stack) \in Seq(Frame)
OBVIOUS

\* Assigning the fields of a frame leaves a frame.
LEMMA FrameUpdate ==
  ASSUME NEW f \in Frame, NEW b \in BOOLEAN,
         NEW p \in {"read", "msg", "write", "resume", "wrote", "post"}
  PROVE  /\ [f EXCEPT !.pc = p] \in Frame
         /\ [f EXCEPT !.pc = p, !.again = b] \in Frame
         /\ f.again \in BOOLEAN /\ f.out \in BOOLEAN
BY DEF Frame

LEMMA StackPush ==
  ASSUME stack \in Seq(Frame), NEW f \in Frame
  PROVE  <<f>> \o stack \in Seq(Frame)
OBVIOUS

LEMMA GotoType ==
  ASSUME stack \in Seq(Frame), stack # <<>>,
         NEW p \in {"read", "msg", "write", "resume", "wrote", "post"}, Goto(p)
  PROVE  stack' \in Seq(Frame)
<1>1. [Head(stack) EXCEPT !.pc = p] \in Frame
  BY StackTop, FrameUpdate
<1> QED BY <1>1, StackReplace DEF Goto

LEMMA AfterReadType ==
  ASSUME stack \in Seq(Frame), stack # <<>>, AfterRead
  PROVE  stack' \in Seq(Frame)
<1>1. [Head(stack) EXCEPT !.pc = "write", !.again = TRUE] \in Frame
  BY StackTop, FrameUpdate
<1> QED BY <1>1, StackReplace DEF AfterRead

LEMMA AfterWriteType ==
  ASSUME stack \in Seq(Frame), stack # <<>>, AfterWrite
  PROVE  stack' \in Seq(Frame)
<1> DEFINE b == Head(stack).again \/ buffer' # <<>>
<1>1. b \in BOOLEAN
  OBVIOUS
<1>2. [Head(stack) EXCEPT !.pc = "post", !.again = b] \in Frame
  BY <1>1, StackTop, FrameUpdate
<1> QED BY <1>2, StackReplace DEF AfterWrite

LEMMA EnterType ==
  ASSUME RestType, EnterReadReady
  PROVE  /\ stack' \in Seq(Frame) /\ soonCall' \in BOOLEAN
         /\ signal' \in BOOLEAN /\ asleep' \in BOOLEAN
<1>1. CASE Detached
  BY <1>1 DEF EnterReadReady, RestType, fdVars
<1>2. CASE ~Detached
  <2> DEFINE f == [pc    |-> IF ~paused' /\ inbox > 0 THEN "read" ELSE "write",
                   again |-> FALSE,
                   out   |-> room > 0]
  <2>1. f \in Frame
    BY DEF Frame
  <2>2. stack' = <<f>> \o stack
    BY <1>2 DEF EnterReadReady
  <2>3. stack' \in Seq(Frame)
    BY <2>1, <2>2, StackPush DEF RestType
  <2> QED BY <1>2, <2>3 DEF EnterReadReady, ReadEvents
<1> QED BY <1>1, <1>2

\* call_soon() of either kind.
LEMMA QueueSoonType ==
  ASSUME RestType, QueueSoon \/ QueueSoonUnlessQueued
  PROVE  soonCall' \in BOOLEAN /\ ready' \in Seq(Calls)
<1>1. CASE QueueSoon
  <2>1. "soon" \in Calls /\ ready \in Seq(Calls)
    BY DEF Calls, RestType
  <2> QED BY <1>1, <2>1 DEF QueueSoon
<1>2. CASE UNCHANGED <<soonCall, ready>>
  BY <1>2 DEF RestType
<1> QED BY <1>1, <1>2 DEF QueueSoonUnlessQueued

LEMMA ForceCloseType ==
  ASSUME RestType, NEW call \in LostCalls, ForceClose(call)
  PROVE  closing' \in BOOLEAN /\ failed' \in BOOLEAN /\ ready' \in Seq(Calls)
<1>1. closing' \in BOOLEAN
  BY DEF ForceClose
<1>2. failed' \in BOOLEAN
  BY DEF ForceClose
<1>3. ready' \in Seq(Calls)
  BY DEF RestType, ForceClose, Calls
<1> QED BY <1>1, <1>2, <1>3

LEMMA SignalType ==
  ASSUME RestType, MayEatSignal
  PROVE  signal' \in BOOLEAN /\ asleep' \in BOOLEAN
BY DEF RestType, MayEatSignal

\* The types of the rest are kept by the steps of _read_ready() ...
LEMMA StepType ==
  ASSUME RestType, Step
  PROVE  RestType'
<1> USE BoundAssumption
<1>1. stack # <<>>
  BY DEF Step, ReadMessage, ReadInterrupted, ReadFails, HandlerReturns, HandlerRaises,
         SkipWrite, SendOk, SendAgain, SendFails, ResumeReturns, FinishClose,
         FinishCloseAgain, KeepWriting, NothingMore, Recheck, RecheckDetached, At
<1>2. stack \in Seq(Frame) /\ Tail(stack) \in Seq(Frame)
  BY <1>1 DEF RestType
<1>3. CASE ReadMessage
  <2>1. stack' \in Seq(Frame)
    BY <1>1, <1>2, <1>3, GotoType DEF ReadMessage
  <2>2. inbox' \in 0..MaxIn /\ delivered' \in 0..MaxIn /\ inbox' + delivered' <= MaxIn
    BY <1>3 DEF ReadMessage, RestType
  <2>3. signal' \in BOOLEAN /\ asleep' \in BOOLEAN
    BY <1>3, SignalType DEF ReadMessage
  <2> QED BY <2>1, <2>2, <2>3, <1>3 DEF ReadMessage, RestType, lifeVars
<1>4. CASE ReadInterrupted \/ HandlerReturns
  <2>1. stack' \in Seq(Frame)
    BY <1>1, <1>2, <1>4, AfterReadType DEF ReadInterrupted, HandlerReturns
  <2> QED BY <2>1, <1>4
             DEF ReadInterrupted, HandlerReturns, RestType, baseVars, lifeVars, recvVars, fdVars
<1>5. CASE ReadFails
  <2>1. stack' \in Seq(Frame)
    BY <1>1, <1>2, <1>5, AfterReadType DEF ReadFails
  <2>2. /\ closing' \in BOOLEAN /\ failed' \in BOOLEAN
        /\ ready' \in Seq(Calls) /\ readerOn' \in BOOLEAN
    BY <1>5, ForceCloseType DEF ReadFails, RestType, LostCalls, lifeVars
  <2> QED BY <2>1, <2>2, <1>5 DEF ReadFails, RestType, recvVars, fdVars
<1>6. CASE HandlerRaises \/ NothingMore
  <2>1. CASE HandlerRaises
    BY <1>2, <2>1 DEF HandlerRaises, Return, RestType, baseVars, lifeVars, recvVars, fdVars
  <2>2. CASE NothingMore
    BY <1>2, <2>2 DEF NothingMore, Return, RestType, baseVars, lifeVars, recvVars, fdVars
  <2> QED BY <1>6, <2>1, <2>2
<1>7. CASE SkipWrite \/ ResumeReturns
  <2>1. stack' \in Seq(Frame)
    BY <1>1, <1>2, <1>7, GotoType DEF SkipWrite, ResumeReturns
  <2> QED BY <2>1, <1>7
             DEF SkipWrite, ResumeReturns, RestType, baseVars, lifeVars, recvVars, fdVars
<1>8. CASE SendOk
  <2>1. stack' \in Seq(Frame)
    BY <1>1, <1>2, <1>8, GotoType DEF SendOk
  <2>2. room' \in 0..MaxRoom
    BY <1>8 DEF SendOk, SendHead, MaybeResumeProtocol, RestType
  <2>3. signal' \in BOOLEAN /\ asleep' \in BOOLEAN
    BY <1>8, SignalType DEF SendOk
  <2> QED BY <2>1, <2>2, <2>3, <1>8 DEF SendOk, RestType, lifeVars, recvVars
<1>9. CASE SendAgain \/ KeepWriting
  <2>1. stack' \in Seq(Frame)
    BY <1>1, <1>2, <1>9, AfterWriteType DEF SendAgain, KeepWriting
  <2>2. soonCall' \in BOOLEAN /\ ready' \in Seq(Calls)
    BY <1>9, QueueSoonType DEF SendAgain, KeepWriting
  <2> QED BY <2>1, <2>2, <1>9
             DEF SendAgain, KeepWriting, MayEatSignal, RestType, lifeVars, recvVars, fdVars
<1>10. CASE SendFails
  <2>1. stack' \in Seq(Frame)
    BY <1>1, <1>2, <1>10, AfterWriteType DEF SendFails
  <2>2. closing' \in BOOLEAN /\ failed' \in BOOLEAN /\ ready' \in Seq(Calls)
    BY <1>10, ForceCloseType DEF SendFails, LostCalls
  <2> QED BY <2>1, <2>2, <1>10 DEF SendFails, RestType, recvVars, fdVars
<1>11. CASE FinishClose
  <2>1. stack' \in Seq(Frame)
    BY <1>1, <1>2, <1>11, AfterWriteType DEF FinishClose
  <2> QED BY <2>1, <1>11 DEF FinishClose, RestType, lifeVars, recvVars, fdVars
<1>12. CASE FinishCloseAgain \/ RecheckDetached
  <2>1. CASE FinishCloseAgain
    BY <1>2, <2>1 DEF FinishCloseAgain, Fault, Return, RestType, lifeVars, recvVars, fdVars
  <2>2. CASE RecheckDetached
    BY <1>2, <2>2 DEF RecheckDetached, Fault, Return, RestType, lifeVars, recvVars, fdVars
  <2> QED BY <1>12, <2>1, <2>2
<1>13. CASE Recheck
  <2>1. soonCall' \in BOOLEAN /\ ready' \in Seq(Calls)
    BY <1>13, QueueSoonType DEF Recheck, RestType
  <2> QED BY <2>1, <1>2, <1>13
             DEF Recheck, ReadEvents, Return, RestType, lifeVars, recvVars
<1> QED BY <1>3, <1>4, <1>5, <1>6, <1>7, <1>8, <1>9, <1>10, <1>11, <1>12, <1>13 DEF Step

\* ... and by all others.
LEMMA OtherType ==
  ASSUME RestType, Loop \/ App \/ Peers
  PROVE  RestType'
<1> USE BoundAssumption
<1>1. CASE Select
  BY <1>1 DEF Select, RestType, Calls, lifeVars, recvVars, loopVars, fdVars
<1>2. CASE RunReader
  <2>1. ready' \in Seq(Calls)
    BY <1>2 DEF RunReader, RestType
  <2> QED BY <2>1, <1>2, EnterType DEF RunReader, RestType, lifeVars, recvVars
<1>3. CASE RunCancelled
  BY <1>3 DEF RunCancelled, RestType, lifeVars, recvVars, loopVars, fdVars
<1>4. CASE RunLost
  <2>1. /\ lost' \in {"no", "None", "exc"}
        /\ faults' \subseteq {"post", "wrote", "write", "abort", "lost"}
    BY <1>4 DEF RunLost, CallConnectionLost, Fault, RestType
  <2>2. ready' \in Seq(Calls)
    BY <1>4 DEF RunLost, RestType
  <2> QED BY <2>1, <2>2, <1>4 DEF RunLost, RestType, lifeVars, recvVars, fdVars
<1>5. CASE WriteSent \/ WriteAgain
  <2>1. soonCall' \in BOOLEAN /\ ready' \in Seq(Calls)
    BY <1>5, QueueSoonType DEF WriteSent, WriteAgain
  <2>2. room' \in 0..MaxRoom
    BY <1>5 DEF WriteSent, WriteAgain, SendAtOnce, Enqueue, MaybePauseProtocol, RestType
  <2>3. signal' \in BOOLEAN /\ asleep' \in BOOLEAN
    BY <1>5, SignalType DEF WriteSent, WriteAgain
  <2> QED BY <2>1, <2>2, <2>3, <1>5
             DEF WriteSent, WriteAgain, RestType, lifeVars, recvVars
<1>6. CASE WriteBehind
  BY <1>6 DEF WriteBehind, Enqueue, MaybePauseProtocol, RestType, lifeVars, recvVars, loopVars, fdVars
<1>7. CASE WriteFails \/ Abort
  <2>1. closing' \in BOOLEAN /\ failed' \in BOOLEAN /\ ready' \in Seq(Calls)
    BY <1>7, ForceCloseType DEF WriteFails, Abort, LostCalls
  <2> QED BY <2>1, <1>7 DEF WriteFails, Abort, RestType, recvVars, fdVars
<1>8. CASE WriteDetached \/ AbortDetached
  BY <1>8
     DEF WriteDetached, AbortDetached, Fault, RestType, lifeVars, recvVars, loopVars, fdVars
<1>9. CASE Close
  BY <1>9 DEF Close, StartClose, RestType, Calls, LostCalls, recvVars, fdVars
<1>10. CASE PauseReading \/ SetLimits
  BY <1>10 DEF PauseReading, SetLimits, RestType, lifeVars, recvVars, loopVars, fdVars
<1>11. CASE ResumeReading
  <2>1. /\ stack' \in Seq(Frame) /\ soonCall' \in BOOLEAN
        /\ signal' \in BOOLEAN /\ asleep' \in BOOLEAN
    BY <1>11, EnterType DEF ResumeReading, RestType, fdVars
  <2> QED BY <2>1, <1>11 DEF ResumeReading, RestType, lifeVars, recvVars
<1>12. CASE Peek
  BY <1>12 DEF Peek, ReadEvents, RestType, baseVars, lifeVars, recvVars, loopVars
<1>13. CASE Arrive
  <2>1. inbox' \in 0..MaxIn /\ inbox' + delivered' <= MaxIn
    BY <1>13 DEF Arrive, RestType
  <2>2. signal' \in BOOLEAN /\ asleep' \in BOOLEAN
    BY <1>13 DEF Arrive
  <2> QED BY <2>1, <2>2, <1>13 DEF Arrive, RestType, lifeVars, loopVars
<1>14. CASE PeerReads
  BY <1>14 DEF PeerReads, RestType, lifeVars, recvVars, loopVars
<1> QED BY <1>1, <1>2, <1>3, <1>4, <1>5, <1>6, <1>7, <1>8, <1>9, <1>10, <1>11, <1>12,
           <1>13, <1>14 DEF Loop, App, Peers

\* Every variable keeps its type.
THEOREM TypeCorrect == Spec => []TypeOK
<1>1. Init => RestType
  <2> SUFFICES ASSUME Init PROVE RestType
    OBVIOUS
  <2>1. inbox \in 0..MaxIn /\ signal \in BOOLEAN /\ asleep \in BOOLEAN
    <3>1. CASE inbox = 0 /\ asleep = TRUE /\ signal \in BOOLEAN
      BY <3>1, BoundAssumption
    <3>2. CASE inbox \in 1..MaxIn /\ asleep = FALSE /\ signal = FALSE
      <4>1. inbox \in 0..MaxIn
        BY <3>2, BoundAssumption
      <4>2. signal \in BOOLEAN /\ asleep \in BOOLEAN
        BY <3>2
      <4> QED BY <4>1, <4>2
    <3> QED BY <3>1, <3>2 DEF Init
  <2>2. /\ room \in 0..MaxRoom /\ delivered \in 0..MaxIn
        /\ inbox + delivered <= MaxIn
    BY <2>1, BoundAssumption DEF Init, BaseInit
  <2>3. stack \in Seq(Frame) /\ ready \in Seq(Calls)
    BY DEF Init, BaseInit
  <2> QED BY <2>1, <2>2, <2>3 DEF Init, BaseInit, RestType
<1>2. RestType /\ [Next]_vars => RestType'
  <2> SUFFICES ASSUME RestType, [Next]_vars PROVE RestType'
    OBVIOUS
  <2>1. CASE UNCHANGED vars
    BY <2>1 DEF RestType, vars, baseVars, lifeVars, recvVars, loopVars, fdVars
  <2> QED BY <2>1, StepType, OtherType DEF Next
<1>3. Spec => []RestType
  BY <1>1, <1>2, PTL DEF Spec
<1>4. QueueInv => QueueType
  BY DEF QueueInv
<1> QED BY <1>3, <1>4, QueueAlways, TypeSplit, PTL

\* The outbound books are kept: types, order, size, and a backlog behind every
\* paused protocol.
THEOREM BooksHold == Spec => []Books
<1>1. TypeOK /\ QueueInv => Books
  BY DEF QueueInv, Books
<1> QED BY <1>1, TypeCorrect, QueueAlways, PTL

-----------------------------------------------------------------------------
(* The wake-ups.                                                           *)

\* Queueing a callback loses none and adds it.
LEMMA AppendQueued ==
  ASSUME ready \in Seq(Calls), NEW call \in Calls, ready' = Append(ready, call)
  PROVE  /\ Queued(call)'
         /\ \A c \in Calls : Queued(c) => Queued(c)'
<1>1. /\ Len(ready) \in Nat /\ Len(ready') = Len(ready) + 1
      /\ ready'[Len(ready) + 1] = call
      /\ \A i \in 1..Len(ready) : ready'[i] = ready[i]
  OBVIOUS
<1> QED BY <1>1 DEF Queued

\* Running a callback loses only that one.
LEMMA TailQueued ==
  ASSUME ready \in Seq(Calls), ready # <<>>, ready' = Tail(ready),
         NEW call \in Calls, Head(ready) # call, Queued(call)
  PROVE  Queued(call)'
<1>1. PICK i \in 1..Len(ready) : ready[i] = call
  BY DEF Queued
<1>2. Len(ready) \in Nat /\ Len(ready') = Len(ready) - 1
  OBVIOUS
<1>3. i # 1
  BY <1>1
<1>4. i - 1 \in 1..Len(ready') /\ ready'[i - 1] = ready[i]
  BY <1>2, <1>3
<1> QED BY <1>1, <1>4 DEF Queued

LEMMA ForceCloseQueued ==
  ASSUME ready \in Seq(Calls), NEW call \in LostCalls, ForceClose(call), Queued("soon")
  PROVE  Queued("soon")'
BY AppendQueued DEF ForceClose, Calls

\* call_soon(), directly or guarded by _soon_call, leaves one queued.
LEMMA QueueSoonQueued ==
  ASSUME ready \in Seq(Calls), SoonCallQueued, QueueSoon \/ QueueSoonUnlessQueued
  PROVE  Queued("soon")'
<1>1. CASE QueueSoon
  BY <1>1, AppendQueued DEF QueueSoon, Calls
<1>2. CASE soonCall /\ UNCHANGED <<soonCall, ready>>
  BY <1>2 DEF SoonCallQueued, Queued
<1> QED BY <1>1, <1>2 DEF QueueSoonUnlessQueued

LEMMA SoonStep ==
  ASSUME RestType, SoonCallQueued, [Next]_vars
  PROVE  SoonCallQueued'
<1>0. ready \in Seq(Calls) /\ "soon" \in Calls
  BY DEF RestType, Calls
<1>1. CASE UNCHANGED <<soonCall, ready>>
  BY <1>1 DEF SoonCallQueued, Queued
<1>2. CASE soonCall' = FALSE
  BY <1>2 DEF SoonCallQueued
<1>3. CASE QueueSoon \/ QueueSoonUnlessQueued
  BY <1>0, <1>3, QueueSoonQueued DEF SoonCallQueued
<1>4. ASSUME NEW call \in LostCalls, ForceClose(call), UNCHANGED soonCall
      PROVE  SoonCallQueued'
  BY <1>0, <1>4, ForceCloseQueued DEF SoonCallQueued
<1>5. CASE UNCHANGED vars
  BY <1>1, <1>5 DEF vars, baseVars, loopVars
<1>6. CASE Step
  <2>1. CASE ReadMessage \/ ReadInterrupted \/ HandlerReturns \/ HandlerRaises
               \/ SkipWrite \/ SendOk \/ ResumeReturns \/ FinishCloseAgain
               \/ NothingMore \/ RecheckDetached
    BY <1>1, <2>1
       DEF ReadMessage, ReadInterrupted, HandlerReturns, HandlerRaises, SkipWrite, SendOk,
           ResumeReturns, FinishCloseAgain, NothingMore, RecheckDetached, baseVars
  <2>2. CASE ReadFails \/ SendFails
    BY <1>1, <1>4, <2>2 DEF ReadFails, SendFails, LostCalls
  <2>3. CASE SendAgain \/ KeepWriting \/ Recheck
    BY <1>1, <1>3, <2>3 DEF SendAgain, KeepWriting, Recheck
  <2>4. CASE FinishClose
    BY <1>2, <2>4 DEF FinishClose
  <2> QED BY <1>6, <2>1, <2>2, <2>3, <2>4 DEF Step
<1>7. CASE Loop
  <2>1. CASE Select
    BY <1>0, <2>1, AppendQueued DEF Select, SoonCallQueued, Calls, loopVars
  <2>2. CASE RunReader \/ RunLost
    BY <1>2, <2>2 DEF RunReader, EnterReadReady, RunLost
  <2>3. CASE RunCancelled
    BY <1>0, <2>3, TailQueued DEF RunCancelled, SoonCallQueued, loopVars
  <2> QED BY <1>7, <2>1, <2>2, <2>3 DEF Loop
<1>8. CASE App
  <2>1. CASE WriteSent \/ WriteAgain
    BY <1>3, <2>1 DEF WriteSent, WriteAgain
  <2>2. CASE WriteFails \/ Abort
    BY <1>4, <2>2 DEF WriteFails, Abort, LostCalls
  <2>3. CASE Close
    BY <1>0, <2>3, AppendQueued
       DEF Close, StartClose, SoonCallQueued, Queued, Calls, LostCalls
  <2>4. CASE ResumeReading
    BY <1>1, <1>2, <2>4 DEF ResumeReading, EnterReadReady
  <2>5. CASE WriteBehind \/ WriteDetached \/ AbortDetached \/ PauseReading
               \/ SetLimits \/ Peek
    BY <1>1, <2>5
       DEF WriteBehind, WriteDetached, AbortDetached, PauseReading, SetLimits, Peek,
           baseVars, loopVars
  <2> QED BY <1>8, <2>1, <2>2, <2>3, <2>4, <2>5 DEF App
<1>9. CASE Peers
  BY <1>1, <1>9 DEF Peers, Arrive, PeerReads, loopVars
<1> QED BY <1>5, <1>6, <1>7, <1>8, <1>9 DEF Next

\* A set _soon_call is always still to run.
THEOREM SoonCallQueuedHolds == Spec => []SoonCallQueued
<1>1. Init => SoonCallQueued
  BY DEF Init, SoonCallQueued
<1>2. Spec => []RestType
  BY TypeCorrect, TypeSplit, PTL
<1>3. RestType /\ SoonCallQueued /\ [Next]_vars => SoonCallQueued'
  BY SoonStep
<1> QED BY <1>1, <1>2, <1>3, PTL DEF Spec

-----------------------------------------------------------------------------
(* No lost wake-up, when msg_received() does not raise, nobody but the     *)
(* transport looks at EVENTS and the socket was new.                       *)

\* The reader stays registered as long as the transport lives, so a queued
\* call of the descriptor's reader is not cancelled.
ReaderLive == Live => readerOn

\* A socket that would not signal the next message has none waiting.
AsleepEmpty == asleep => inbox = 0

WakeInv == WakeupInductive /\ ReaderLive /\ AsleepEmpty

\* A call whose frame has a duty on top of the stack suspends the claim.
LEMMA DutyOnTop ==
  ASSUME NEW f \in Frame, NEW rest \in Seq(Frame), stack' = <<f>> \o rest, Duty(f)
  PROVE  ~NoDuty'
<1>1. Len(stack') >= 1 /\ stack'[1] = f
  OBVIOUS
<1>2. 1 \in 1..Len(stack')
  BY <1>1
<1> QED BY <1>1, <1>2 DEF NoDuty

\* Pushing a frame keeps the duties of those below.
LEMMA NoDutyPush ==
  ASSUME stack \in Seq(Frame), NEW f \in Frame, stack' = <<f>> \o stack, NoDuty'
  PROVE  NoDuty
<1>1. \A i \in 1..Len(stack) : i + 1 \in 1..Len(stack') /\ stack'[i + 1] = stack[i]
  OBVIOUS
<1> QED BY <1>1 DEF NoDuty

\* A top frame replaced by one without duty, and without duty itself.
LEMMA NoDutyReplace ==
  ASSUME stack \in Seq(Frame), stack # <<>>, ~Duty(Head(stack)),
         NEW f \in Frame, stack' = <<f>> \o Tail(stack), NoDuty'
  PROVE  NoDuty
<1>1. \A i \in 2..Len(stack) : i \in 1..Len(stack') /\ stack'[i] = stack[i]
  OBVIOUS
<1>2. stack[1] = Head(stack) /\ Len(stack) \in Nat
  OBVIOUS
<1>3. \A i \in 1..Len(stack) : i = 1 \/ i \in 2..Len(stack)
  BY <1>2
<1> QED BY <1>1, <1>2, <1>3 DEF NoDuty

LEMMA NoDutyPop ==
  ASSUME stack \in Seq(Frame), stack # <<>>, ~Duty(Head(stack)),
         stack' = Tail(stack), NoDuty'
  PROVE  NoDuty
<1>1. \A i \in 2..Len(stack) : i - 1 \in 1..Len(stack') /\ stack'[i - 1] = stack[i]
  OBVIOUS
<1>2. stack[1] = Head(stack) /\ Len(stack) \in Nat
  OBVIOUS
<1>3. \A i \in 1..Len(stack) : i = 1 \/ i \in 2..Len(stack)
  BY <1>2
<1> QED BY <1>1, <1>2, <1>3 DEF NoDuty

\* A call of _read_ready() looks after everything itself, whatever the
\* descriptor said before.
LEMMA EnterWakes ==
  ASSUME RestType, EnterReadReady, UNCHANGED <<inbox, room, buffer, closing>>, Live
  PROVE  WakeupInductive' /\ AsleepEmpty'
<1> DEFINE f == [pc    |-> IF ~paused' /\ inbox > 0 THEN "read" ELSE "write",
                 again |-> FALSE,
                 out   |-> room > 0]
<1>1. /\ stack' = <<f>> \o stack
      /\ signal' = FALSE /\ asleep' = (inbox = 0)
  BY DEF EnterReadReady, ReadEvents, Live
<1>2. f \in Frame /\ stack \in Seq(Frame) /\ inbox \in Nat
  BY BoundAssumption DEF Frame, RestType
<1>3. AsleepEmpty'
  BY <1>1 DEF AsleepEmpty
<1>4. CASE ~paused' /\ inbox > 0
  <2>1. Duty(f)
    BY <1>4 DEF Duty
  <2> QED BY <2>1, <1>1, <1>2, <1>3, DutyOnTop DEF WakeupInductive
<1>5. CASE ~(~paused' /\ inbox > 0)
  <2>1. paused' \/ asleep'
    <3>1. CASE inbox = 0
      BY <3>1, <1>1, Zenon
    <3>2. CASE inbox > 0
      BY <3>2, <1>5
    <3> QED BY <3>1, <3>2, <1>2
  <2>2. At("write")' /\ Head(stack') = f
    <3>1. stack' # <<>> /\ Head(stack') = f
      BY <1>1, <1>2
    <3> QED BY <3>1, <1>5 DEF At
  <2>3. room' > 0 => Head(stack').out
    <3>1. Head(stack').out = (room > 0)
      BY <2>2
    <3>2. room' = room
      OBVIOUS
    <3> QED BY <3>1, <3>2, Zenon
  <2>4. ~paused' /\ ~closing' /\ ~asleep' => Wake'
    BY <2>1
  <2> QED BY <2>2, <2>3, <2>4, <1>3 DEF WakeupInductive
<1> QED BY <1>4, <1>5

\* The steps that queue a call of _read_ready() settle the claim; ...
LEMMA QueuedWakes ==
  ASSUME Queued("soon")'
  PROVE  WakeupInductive'
BY DEF WakeupInductive, Wake

\* ... those after which the transport is gone need not; ...
LEMMA GoneWakes ==
  ASSUME ~Live'
  PROVE  WakeupInductive'
BY DEF WakeupInductive

\* ... and neither do those that leave a duty on top.
LEMMA DutyWakes ==
  ASSUME ~NoDuty'
  PROVE  WakeupInductive'
BY DEF WakeupInductive

\* Steps of an active _read_ready().
LEMMA WakeStep ==
  ASSUME Quirks = {}, RestType, SoonCallQueued, WakeInv, Step
  PROVE  WakeupInductive'
<1>0. ready \in Seq(Calls) /\ stack \in Seq(Frame) /\ inbox \in Nat /\ room \in Nat
  BY BoundAssumption DEF RestType
<1>1. ASSUME At("read") \/ At("msg"), AfterRead PROVE ~NoDuty'
  <2> DEFINE f == [Head(stack) EXCEPT !.pc = "write", !.again = TRUE]
  <2>1. stack # <<>> /\ Head(stack) \in Frame /\ Tail(stack) \in Seq(Frame)
    BY <1>0, <1>1, StackTop DEF At
  <2>2. f \in Frame
    BY <2>1, FrameUpdate
  <2>3. Duty(f)
    BY <2>1 DEF Duty, Frame
  <2> QED BY <2>1, <2>2, <2>3, <1>1, DutyOnTop DEF AfterRead
<1>2. ASSUME stack # <<>>, NEW p \in {"msg", "resume", "wrote"}, Goto(p) PROVE ~NoDuty'
  <2> DEFINE f == [Head(stack) EXCEPT !.pc = p]
  <2>1. Head(stack) \in Frame /\ Tail(stack) \in Seq(Frame)
    BY <1>0, <1>2, StackTop
  <2>2. f \in Frame
    BY <2>1, FrameUpdate
  <2>3. Duty(f)
    BY <2>1 DEF Duty, Frame
  <2> QED BY <2>1, <2>2, <2>3, <1>2, DutyOnTop DEF Goto
<1>3. CASE ReadMessage
  BY <1>3, <1>2, DutyWakes DEF ReadMessage, At
<1>4. CASE ReadInterrupted \/ HandlerReturns \/ ReadFails
  BY <1>4, <1>1, DutyWakes DEF ReadInterrupted, HandlerReturns, ReadFails
<1>5. CASE HandlerRaises
  BY <1>5 DEF HandlerRaises
<1>6. CASE SkipWrite
  <2> DEFINE h == Head(stack)
             f == [h EXCEPT !.pc = "post"]
  <2>1. stack # <<>> /\ h \in Frame /\ Tail(stack) \in Seq(Frame) /\ h.pc = "write"
    BY <1>0, <1>6, StackTop DEF SkipWrite, At
  <2>2. f \in Frame /\ stack' = <<f>> \o Tail(stack)
    BY <2>1, <1>6, FrameUpdate DEF SkipWrite, Goto
  <2>3. CASE h.again
    <3>1. Duty(f)
      BY <2>1, <2>3 DEF Duty, Frame
    <3> QED BY <3>1, <2>1, <2>2, DutyOnTop, DutyWakes
  <2>4. CASE ~h.again
    <3> SUFFICES ASSUME Live', NoDuty'
                 PROVE  /\ ~paused' /\ ~closing' /\ ~asleep' => Wake'
                        /\ buffer' # <<>> /\ room' > 0 => Wake'
      BY DEF WakeupInductive
    <3>1. ~Duty(h)
      BY <2>1, <2>4 DEF Duty
    <3>2. NoDuty
      BY <3>1, <2>1, <2>2, <1>0, NoDutyReplace
    <3>3. Live /\ (Wake <=> Wake')
      BY <1>6 DEF SkipWrite, Live, Detached, Wake, Queued, baseVars, lifeVars, fdVars
    <3>4. buffer = <<>> \/ ~h.out
      BY <1>6 DEF SkipWrite
    <3> QED BY <3>2, <3>3, <3>4, <1>6
            DEF WakeInv, WakeupInductive, SkipWrite, baseVars, queueVars, lifeVars, fdVars
  <2> QED BY <2>3, <2>4
<1>7. CASE SendOk
  BY <1>7, <1>2, DutyWakes DEF SendOk, At
<1>8. CASE SendAgain \/ KeepWriting
  BY <1>8, <1>0, QueueSoonQueued, QueuedWakes DEF SendAgain, KeepWriting
<1>9. CASE SendFails
  BY <1>9, GoneWakes DEF SendFails, ForceClose, Live
<1>10. CASE ResumeReturns
  BY <1>10, <1>2, DutyWakes DEF ResumeReturns, At
<1>11. CASE FinishClose
  BY <1>11, GoneWakes DEF FinishClose, Live, Detached
<1>12. CASE FinishCloseAgain \/ RecheckDetached
  BY <1>12, GoneWakes DEF FinishCloseAgain, RecheckDetached, Live, Detached
<1>13. CASE NothingMore
  <2>1. stack # <<>> /\ ~Duty(Head(stack)) /\ ~At("write")
    BY <1>13 DEF NothingMore, At, Duty
  <2> SUFFICES ASSUME Live', NoDuty'
               PROVE  /\ ~paused' /\ ~closing' /\ ~asleep' => Wake'
                      /\ buffer' # <<>> /\ room' > 0 => Wake'
    BY DEF WakeupInductive
  <2>2. NoDuty
    BY <2>1, <1>0, <1>13, NoDutyPop DEF NothingMore, Return
  <2>3. Live /\ (Wake <=> Wake')
    BY <1>13 DEF NothingMore, Live, Detached, Wake, Queued, baseVars, lifeVars, fdVars
  <2> QED BY <2>1, <2>2, <2>3, <1>13
          DEF WakeInv, WakeupInductive, NothingMore, baseVars, queueVars, lifeVars, fdVars
<1>14. CASE Recheck
  <2>1. CASE inbox > 0 \/ (buffer # <<>> /\ room > 0)
    BY <2>1, <1>14, <1>0, QueueSoonQueued, QueuedWakes DEF Recheck
  <2>2. CASE ~(inbox > 0 \/ (buffer # <<>> /\ room > 0))
    <3>1. asleep'
      <4>1. inbox = 0
        BY <2>2, <1>0
      <4> QED BY <4>1, <1>14, Zenon DEF Recheck, ReadEvents
    <3>2. ~(buffer' # <<>> /\ room' > 0)
      BY <2>2, <1>14 DEF Recheck, queueVars
    <3> QED BY <3>1, <3>2 DEF WakeupInductive
  <2> QED BY <2>1, <2>2
<1> QED BY <1>3, <1>4, <1>5, <1>6, <1>7, <1>8, <1>9, <1>10, <1>11, <1>12, <1>13, <1>14
        DEF Step

\* All other steps.
LEMMA WakeOther ==
  ASSUME Quirks = {}, RestType, SoonCallQueued, WakeInv, Loop \/ App \/ Peers
  PROVE  WakeupInductive'
<1>0. ready \in Seq(Calls) /\ stack \in Seq(Frame) /\ inbox \in Nat /\ room \in Nat
  BY BoundAssumption DEF RestType
<1>1. CASE Select
  <2>1. Queued("fd")'
    BY <1>0, <1>1, AppendQueued DEF Select, Calls
  <2> QED BY <2>1 DEF WakeupInductive, Wake
<1>2. CASE RunReader
  <2>1. CASE Detached
    BY <2>1, <1>2, GoneWakes DEF RunReader, Live, Detached
  <2>2. CASE connLost
    BY <2>2, <1>2, GoneWakes DEF RunReader, Live, lifeVars
  <2>3. CASE Live
    BY <2>3, <1>2, EnterWakes DEF RunReader, recvVars, queueVars, lifeVars
  <2> QED BY <2>1, <2>2, <2>3 DEF Live
<1>3. CASE RunCancelled
  BY <1>3, GoneWakes DEF RunCancelled, WakeInv, ReaderLive, Live, Detached, lifeVars
<1>4. CASE RunLost
  BY <1>4, GoneWakes DEF RunLost, CallConnectionLost, Live, Detached
<1>5. CASE WriteSent \/ WriteAgain
  BY <1>5, <1>0, QueueSoonQueued, QueuedWakes DEF WriteSent, WriteAgain
<1>6. CASE WriteFails \/ Abort
  BY <1>6, GoneWakes DEF WriteFails, Abort, ForceClose, Live
<1>7. CASE WriteDetached \/ AbortDetached
  BY <1>7, GoneWakes DEF WriteDetached, AbortDetached, Live, Detached
<1>8. CASE Peek
  BY <1>8 DEF Peek
<1>9. CASE ResumeReading
  <2>1. CASE closing
    <3>1. /\ UNCHANGED <<buffer, room, stack, signal, asleep, ready, closing, connLost, lost>>
          /\ (Wake <=> Wake')
      BY <2>1, <1>9
         DEF ResumeReading, queueVars, lifeVars, fdVars, Wake, Queued
    <3> QED BY <2>1, <3>1
            DEF WakeInv, WakeupInductive, Live, Detached, NoDuty, At
  <2>2. CASE ~closing
    <3>1. CASE Live
      BY <2>2, <3>1, <1>9, EnterWakes DEF ResumeReading, recvVars, queueVars, lifeVars
    <3>2. CASE ~Live
      BY <3>2, <1>9, GoneWakes DEF ResumeReading, Live, Detached, lifeVars
    <3> QED BY <3>1, <3>2
  <2> QED BY <2>1, <2>2
<1>10. CASE WriteBehind \/ Close \/ PauseReading \/ SetLimits
  <2> SUFFICES ASSUME Live' PROVE WakeupInductive'
    BY GoneWakes
  <2>1. /\ UNCHANGED <<room, stack, signal, asleep, ready>>
        /\ (paused => paused') /\ (closing => closing')
        /\ (buffer' # <<>> => buffer # <<>>)
        /\ Live
    <3>1. CASE WriteBehind
      BY <3>1 DEF WriteBehind, Enqueue, MaybePauseProtocol, lifeVars, loopVars, fdVars, Live, Detached
    <3>2. CASE Close
      <4>1. ~connLost /\ buffer # <<>>
        BY <3>2 DEF Close, StartClose, Live
      <4> QED BY <4>1, <3>2
              DEF Close, StartClose, queueVars, loopVars, fdVars, Live, Detached
    <3>3. CASE PauseReading \/ SetLimits
      BY <3>3
         DEF PauseReading, SetLimits, queueVars, lifeVars, loopVars, fdVars, Live, Detached
    <3> QED BY <1>10, <3>1, <3>2, <3>3
  <2>2. Wake <=> Wake'
    BY <2>1 DEF Wake, Queued
  <2> QED BY <2>1, <2>2 DEF WakeInv, WakeupInductive, NoDuty, At
<1>11. CASE Arrive
  <2>1. /\ UNCHANGED <<buffer, room, stack, ready, paused, closing, connLost, lost>>
        /\ (signal => signal') /\ (asleep => signal')
    BY <1>11 DEF Arrive, queueVars, lifeVars, loopVars
  <2>2. Wake => Wake'
    BY <2>1 DEF Wake, Queued
  <2>3. asleep => Wake'
    BY <2>1 DEF Wake
  <2> QED BY <2>1, <2>2, <2>3 DEF WakeInv, WakeupInductive, NoDuty, At, Live, Detached
<1>12. CASE PeerReads
  <2>1. /\ UNCHANGED <<buffer, stack, ready, paused, closing, connLost, lost, asleep>>
        /\ (signal => signal') /\ (room = 0 => signal')
    BY <1>12 DEF PeerReads, queueVars, lifeVars, loopVars
  <2>2. Wake => Wake'
    BY <2>1 DEF Wake, Queued
  <2>3. room = 0 => Wake'
    BY <2>1 DEF Wake
  <2>4. room # 0 => room > 0
    BY <1>0
  <2> QED BY <2>1, <2>2, <2>3, <2>4
          DEF WakeInv, WakeupInductive, NoDuty, At, Live, Detached
<1> QED BY <1>1, <1>2, <1>3, <1>4, <1>5, <1>6, <1>7, <1>8, <1>9, <1>10, <1>11, <1>12
        DEF Loop, App, Peers

LEMMA ReaderStep ==
  ASSUME RestType, ReaderLive, [Next]_vars
  PROVE  ReaderLive'
<1>1. CASE UNCHANGED <<connLost, lost, readerOn>>
  BY <1>1 DEF ReaderLive, Live, Detached
<1>2. CASE ~Live'
  BY <1>2 DEF ReaderLive
<1>3. CASE UNCHANGED vars
  BY <1>1, <1>3 DEF vars, baseVars, lifeVars, loopVars
<1>4. CASE Step
  <2>1. CASE ReadFails
    BY <1>1, <1>2, <2>1 DEF ReadFails, ForceClose, Live, lifeVars
  <2>2. CASE SendFails \/ FinishClose
    BY <1>2, <2>2 DEF SendFails, ForceClose, FinishClose, Live, Detached
  <2>3. CASE ~(ReadFails \/ SendFails \/ FinishClose)
    BY <1>1, <1>4, <2>3
       DEF Step, ReadMessage, ReadInterrupted, HandlerReturns, HandlerRaises, SkipWrite,
           SendOk, SendAgain, ResumeReturns, FinishCloseAgain, KeepWriting, NothingMore,
           Recheck, RecheckDetached, baseVars, lifeVars
  <2> QED BY <2>1, <2>2, <2>3
<1>5. CASE Loop
  <2>1. CASE RunLost
    BY <1>2, <2>1 DEF RunLost, CallConnectionLost, Live, Detached
  <2>2. CASE ~RunLost
    BY <1>1, <1>5, <2>2 DEF Loop, Select, RunReader, RunCancelled, lifeVars, loopVars
  <2> QED BY <2>1, <2>2
<1>6. CASE App
  <2>1. CASE WriteFails \/ Abort
    BY <1>2, <2>1 DEF WriteFails, Abort, ForceClose, Live
  <2>2. CASE Close
    BY <2>2 DEF Close, StartClose, ReaderLive, Live, Detached
  <2>3. CASE ~(WriteFails \/ Abort \/ Close)
    BY <1>1, <1>6, <2>3
       DEF App, WriteSent, WriteBehind, WriteAgain, WriteDetached, AbortDetached,
           PauseReading, ResumeReading, SetLimits, Peek, baseVars, lifeVars, loopVars
  <2> QED BY <2>1, <2>2, <2>3
<1>7. CASE Peers
  BY <1>1, <1>7 DEF Peers, Arrive, PeerReads, lifeVars, loopVars
<1> QED BY <1>3, <1>4, <1>5, <1>6, <1>7 DEF Next

LEMMA AsleepStep ==
  ASSUME RestType, AsleepEmpty, [Next]_vars
  PROVE  AsleepEmpty'
<1>1. CASE UNCHANGED <<inbox, asleep>>
  BY <1>1 DEF AsleepEmpty
<1>2. CASE ReadEvents /\ UNCHANGED inbox
  BY <1>2, Zenon DEF AsleepEmpty, ReadEvents
<1>3. CASE UNCHANGED vars
  BY <1>1, <1>3 DEF vars, baseVars, recvVars, fdVars
<1>4. CASE Step
  <2>1. CASE ReadMessage
    BY <2>1 DEF ReadMessage, MayEatSignal, AsleepEmpty, RestType
  <2>2. CASE Recheck
    BY <1>2, <2>2 DEF Recheck, recvVars
  <2>3. CASE ~(ReadMessage \/ Recheck)
    BY <1>1, <1>4, <2>3
       DEF Step, ReadInterrupted, ReadFails, HandlerReturns, HandlerRaises, SkipWrite,
           SendOk, SendAgain, SendFails, ResumeReturns, FinishClose, FinishCloseAgain,
           KeepWriting, NothingMore, RecheckDetached, MayEatSignal, baseVars, recvVars,
           fdVars
  <2> QED BY <2>1, <2>2, <2>3
<1>5. CASE Loop
  BY <1>1, <1>2, <1>5
     DEF Loop, Select, RunReader, RunCancelled, RunLost, EnterReadReady, recvVars, fdVars
<1>6. CASE App
  BY <1>1, <1>2, <1>6
     DEF App, WriteSent, WriteBehind, WriteAgain, WriteFails, WriteDetached, Close, Abort,
         AbortDetached, PauseReading, ResumeReading, SetLimits, Peek, EnterReadReady,
         MayEatSignal, baseVars, recvVars, fdVars
<1>7. CASE Peers
  BY <1>1, <1>7 DEF Peers, Arrive, PeerReads, recvVars, AsleepEmpty
<1> QED BY <1>3, <1>4, <1>5, <1>6, <1>7 DEF Next

LEMMA WakeInit ==
  ASSUME Quirks = {}, Init
  PROVE  WakeInv
<1>1. inbox = 0 /\ asleep = TRUE /\ buffer = <<>> /\ readerOn = TRUE
  BY DEF Init, BaseInit
<1> QED BY <1>1 DEF WakeInv, WakeupInductive, ReaderLive, AsleepEmpty

\* Every step keeps the wake-ups.
LEMMA WakeNext ==
  ASSUME Quirks = {}, RestType, SoonCallQueued, WakeInv, [Next]_vars
  PROVE  WakeInv'
<1>1. ReaderLive' /\ AsleepEmpty'
  BY ReaderStep, AsleepStep DEF WakeInv
<1>2. CASE UNCHANGED vars
  BY <1>2
     DEF WakeInv, WakeupInductive, ReaderLive, AsleepEmpty, Live, Detached, NoDuty, Wake,
         Queued, At, vars, baseVars, queueVars, lifeVars, recvVars, loopVars, fdVars
<1>3. CASE Next
  BY <1>1, <1>3, WakeStep, WakeOther DEF Next, WakeInv
<1> QED BY <1>2, <1>3

\* The claim about the middle of the calls is an invariant ...
THEOREM WakeupInductiveHolds ==
  ASSUME Quirks = {}
  PROVE  Spec => []WakeupInductive
<1>1. Init => WakeInv
  BY WakeInit
<1>2. RestType /\ SoonCallQueued /\ WakeInv /\ [Next]_vars => WakeInv'
  BY WakeNext
<1>3. Spec => []RestType
  BY TypeCorrect, TypeSplit, PTL
<1>4. Spec => []WakeInv
  BY <1>1, <1>2, <1>3, SoonCallQueuedHolds, PTL DEF Spec
<1>5. WakeInv => WakeupInductive
  BY DEF WakeInv
<1> QED BY <1>4, <1>5, PTL

\* ... so no wake-up is ever lost: with any number of messages, any nesting
\* of callbacks, EINTR at any time and whatever libzmq eats of the signals,
\* the thread never goes back to polling with work to do and nothing queued.
THEOREM NoLostWakeupHolds ==
  ASSUME Quirks = {}
  PROVE  Spec => []NoLostWakeup
<1>1. RestType /\ WakeInv => NoLostWakeup
  <2> SUFFICES ASSUME RestType, WakeInv, Live, stack = <<>>, WorkToDo PROVE Wake
    BY DEF NoLostWakeup
  <2>1. NoDuty /\ ~At("write")
    BY DEF NoDuty, At
  <2>2. inbox > 0 => ~asleep
    BY DEF WakeInv, AsleepEmpty
  <2> QED BY <2>1, <2>2 DEF WakeInv, WakeupInductive, WorkToDo
<1>2. Init => WakeInv
  BY WakeInit
<1>3. RestType /\ SoonCallQueued /\ WakeInv /\ [Next]_vars => WakeInv'
  BY WakeNext
<1>4. Spec => []RestType
  BY TypeCorrect, TypeSplit, PTL
<1>5. Spec => []WakeInv
  BY <1>2, <1>3, <1>4, SoonCallQueuedHolds, PTL DEF Spec
<1> QED BY <1>1, <1>4, <1>5, PTL

-----------------------------------------------------------------------------
(* The transport implements its contract.                                  *)

\* A queued connection_lost() means that _conn_lost was counted; a detached
\* transport is closed, has an empty buffer and no call about to receive.
LifeInv ==
  /\ connLost => closing
  /\ Detached => closing /\ buffer = <<>>
  /\ \A i \in 1..Len(ready) : ready[i] \in LostCalls => connLost
  /\ \A i \in 2..Len(stack) : stack[i].pc \in {"msg", "resume"}
  /\ Detached => ~At("read")

LifeParts == LifeInv /\ QueueInv /\ RestType

LEMMA LifeInit == Init => LifeInv
BY DEF Init, BaseInit, LifeInv, Detached

\* The part of LifeInv about the attributes and the queued callbacks.
Counted ==
  /\ connLost => closing
  /\ Detached => closing /\ buffer = <<>>
  /\ \A i \in 1..Len(ready) : ready[i] \in LostCalls => connLost

\* The part about the active calls.
Quiet ==
  /\ \A i \in 2..Len(stack) : stack[i].pc \in {"msg", "resume"}
  /\ Detached => ~At("read")

LEMMA AppendCounted ==
  ASSUME ready \in Seq(Calls), NEW call \in Calls, ready' = Append(ready, call),
         \A i \in 1..Len(ready) : ready[i] \in LostCalls => connLost,
         connLost => connLost', call \in LostCalls => connLost'
  PROVE  \A i \in 1..Len(ready') : ready'[i] \in LostCalls => connLost'
<1>1. /\ Len(ready) \in Nat /\ Len(ready') = Len(ready) + 1
      /\ ready'[Len(ready) + 1] = call
      /\ \A i \in 1..Len(ready) : ready'[i] = ready[i]
  OBVIOUS
<1>2. \A i \in 1..Len(ready') : i \in 1..Len(ready) \/ i = Len(ready) + 1
  BY <1>1
<1> QED BY <1>1, <1>2

LEMMA TailCounted ==
  ASSUME ready \in Seq(Calls), ready # <<>>, ready' = Tail(ready), UNCHANGED connLost,
         \A i \in 1..Len(ready) : ready[i] \in LostCalls => connLost
  PROVE  /\ \A i \in 1..Len(ready') : ready'[i] \in LostCalls => connLost'
         /\ Head(ready) \in LostCalls => connLost
<1>1. \A i \in 1..Len(ready') : i + 1 \in 1..Len(ready) /\ ready'[i] = ready[i + 1]
  OBVIOUS
<1>2. 1 \in 1..Len(ready) /\ Head(ready) = ready[1]
  OBVIOUS
<1> QED BY <1>1, <1>2

LEMMA CountedStep ==
  ASSUME LifeParts, [Next]_vars
  PROVE  Counted'
<1>0. /\ ready \in Seq(Calls) /\ "soon" \in Calls /\ "fd" \in Calls
      /\ "soon" \notin LostCalls /\ "fd" \notin LostCalls
  BY DEF LifeParts, RestType, Calls, LostCalls
<1>1. Counted
  BY DEF LifeParts, LifeInv, Counted
<1>2. connLost => buffer = <<>>
  BY DEF LifeParts, QueueInv, OutboundFifo
<1>3. CASE UNCHANGED <<connLost, closing, lost, buffer, ready>>
  BY <1>1, <1>3 DEF Counted, Detached
<1>4. ASSUME UNCHANGED <<connLost, closing, lost>>, Detached => UNCHANGED buffer,
             QueueSoon \/ QueueSoonUnlessQueued
      PROVE  Counted'
  <2>1. CASE QueueSoon
    BY <2>1, <1>0, <1>1, <1>4, AppendCounted DEF QueueSoon, Counted, Detached
  <2>2. CASE UNCHANGED <<soonCall, ready>>
    BY <2>2, <1>1, <1>4 DEF Counted, Detached
  <2> QED BY <2>1, <2>2, <1>4 DEF QueueSoonUnlessQueued
<1>5. ASSUME NEW call \in LostCalls, ForceClose(call), UNCHANGED lost
      PROVE  Counted'
  BY <1>0, <1>1, <1>5, AppendCounted DEF ForceClose, Counted, Detached, Calls
<1>6. CASE UNCHANGED vars
  BY <1>3, <1>6 DEF vars, baseVars, queueVars, lifeVars
<1>7. CASE Step
  <2>1. CASE ReadFails
    BY <1>3, <1>5, <2>1 DEF ReadFails, LostCalls, queueVars, lifeVars
  <2>2. CASE SendFails
    BY <1>5, <2>2 DEF SendFails, LostCalls
  <2>3. CASE SendAgain \/ KeepWriting
    BY <1>4, <2>3 DEF SendAgain, KeepWriting, queueVars, lifeVars
  <2>4. CASE Recheck
    BY <1>3, <1>4, <2>4 DEF Recheck, queueVars, lifeVars
  <2>5. CASE SendOk
    BY <1>1, <2>5 DEF SendOk, SendHead, MaybeResumeProtocol, Counted, Detached, lifeVars
  <2>6. CASE FinishClose
    BY <1>1, <2>6 DEF FinishClose, Flushed, Counted, Detached, queueVars, lifeVars
  <2>7. CASE ReadMessage \/ ReadInterrupted \/ HandlerReturns \/ HandlerRaises
               \/ SkipWrite \/ ResumeReturns \/ FinishCloseAgain \/ NothingMore
               \/ RecheckDetached
    BY <1>3, <2>7
       DEF ReadMessage, ReadInterrupted, HandlerReturns, HandlerRaises, SkipWrite,
           ResumeReturns, FinishCloseAgain, NothingMore, RecheckDetached, baseVars,
           queueVars, lifeVars
  <2> QED BY <1>7, <2>1, <2>2, <2>3, <2>4, <2>5, <2>6, <2>7 DEF Step
<1>8. CASE Loop
  <2>1. CASE Select
    BY <1>0, <1>1, <2>1, AppendCounted DEF Select, Counted, Detached, queueVars, lifeVars
  <2>2. CASE RunReader \/ RunCancelled
    BY <1>0, <1>1, <2>2, TailCounted
       DEF RunReader, RunCancelled, Counted, Detached, queueVars, lifeVars
  <2>3. CASE RunLost
    BY <1>0, <1>1, <1>2, <2>3, TailCounted DEF RunLost, Counted, Detached, queueVars, lifeVars
  <2> QED BY <1>8, <2>1, <2>2, <2>3 DEF Loop
<1>9. CASE App
  <2>1. CASE WriteSent \/ WriteAgain
    BY <1>4, <2>1 DEF WriteSent, WriteAgain, SendAtOnce, Enqueue, MaybePauseProtocol, lifeVars
  <2>2. CASE WriteBehind
    BY <1>1, <2>2 DEF WriteBehind, Enqueue, MaybePauseProtocol, Counted, Detached, lifeVars
  <2>3. CASE WriteFails \/ Abort
    BY <1>5, <2>3 DEF WriteFails, Abort, LostCalls
  <2>4. CASE Close
    <3>1. CASE buffer = <<>>
      BY <3>1, <1>0, <1>1, <2>4, AppendCounted
         DEF Close, StartClose, Counted, Detached, Calls, LostCalls, queueVars
    <3>2. CASE buffer # <<>>
      BY <3>2, <1>1, <1>2, <2>4 DEF Close, StartClose, Counted, Detached, queueVars
    <3> QED BY <3>1, <3>2
  <2>5. CASE WriteDetached \/ AbortDetached \/ PauseReading \/ ResumeReading
               \/ SetLimits \/ Peek
    BY <1>3, <2>5
       DEF WriteDetached, AbortDetached, PauseReading, ResumeReading, SetLimits, Peek,
           baseVars, queueVars, lifeVars
  <2> QED BY <1>9, <2>1, <2>2, <2>3, <2>4, <2>5 DEF App
<1>10. CASE Peers
  BY <1>3, <1>10 DEF Peers, Arrive, PeerReads, queueVars, lifeVars
<1> QED BY <1>6, <1>7, <1>8, <1>9, <1>10 DEF Next

\* Only the top frame can be outside application code.
LEMMA ReplaceQuiet ==
  ASSUME stack \in Seq(Frame), stack # <<>>, Quiet,
         NEW f \in Frame, stack' = <<f>> \o Tail(stack), f.pc # "read"
  PROVE  Quiet'
<1>1. /\ \A i \in 2..Len(stack') : i \in 2..Len(stack) /\ stack'[i] = stack[i]
      /\ Head(stack') = f
  OBVIOUS
<1> QED BY <1>1 DEF Quiet, At

LEMMA PopQuiet ==
  ASSUME stack \in Seq(Frame), stack # <<>>, Quiet, stack' = Tail(stack)
  PROVE  Quiet'
<1>1. \A i \in 1..Len(stack') : i + 1 \in 2..Len(stack) /\ stack'[i] = stack[i + 1]
  OBVIOUS
<1>2. stack' # <<>> => Head(stack') = stack'[1] /\ 1 \in 1..Len(stack')
  BY <1>1
<1>3. \A i \in 1..Len(stack') : stack'[i].pc \in {"msg", "resume"}
  BY <1>1 DEF Quiet
<1>4. \A i \in 2..Len(stack') : i \in 1..Len(stack')
  OBVIOUS
<1> QED BY <1>2, <1>3, <1>4 DEF Quiet, At

LEMMA EnterQuiet ==
  ASSUME RestType, Quiet, EnterReadReady, UNCHANGED lost,
         stack # <<>> => Head(stack).pc \in {"msg", "resume"}
  PROVE  Quiet'
<1>1. CASE Detached
  BY <1>1 DEF EnterReadReady, Quiet, At, Detached
<1>2. CASE ~Detached
  <2> DEFINE f == [pc    |-> IF ~paused' /\ inbox > 0 THEN "read" ELSE "write",
                   again |-> FALSE,
                   out   |-> room > 0]
  <2>0. stack' = <<f>> \o stack
    BY <1>2 DEF EnterReadReady
  <2>1. stack' = <<f>> \o stack /\ stack \in Seq(Frame)
    BY <2>0 DEF RestType
  <2>2. \A i \in 2..Len(stack') : i - 1 \in 1..Len(stack) /\ stack'[i] = stack[i - 1]
    BY <2>1
  <2>3. \A i \in 1..Len(stack) : stack[i].pc \in {"msg", "resume"}
    <3>1. \A i \in 1..Len(stack) : i = 1 \/ i \in 2..Len(stack)
      BY <2>1
    <3>2. stack # <<>> => stack[1].pc \in {"msg", "resume"}
      BY <2>1
    <3>3. \A i \in 1..Len(stack) : stack # <<>>
      BY <2>1
    <3> QED BY <3>1, <3>2, <3>3 DEF Quiet
  <2> QED BY <1>2, <2>2, <2>3 DEF Quiet, Detached
<1> QED BY <1>1, <1>2

LEMMA QuietStep ==
  ASSUME LifeParts, [Next]_vars
  PROVE  Quiet'
<1>0. stack \in Seq(Frame) /\ RestType
  BY DEF LifeParts, RestType
<1>1. Quiet
  BY DEF LifeParts, LifeInv, Quiet
<1>2. CASE UNCHANGED <<stack, lost>>
  BY <1>1, <1>2 DEF Quiet, At, Detached
<1>3. ASSUME stack # <<>>, NEW p \in {"msg", "write", "resume", "wrote", "post"}, Goto(p)
      PROVE  Quiet'
  <2> DEFINE f == [Head(stack) EXCEPT !.pc = p]
  <2>1. f \in Frame /\ f.pc = p
    BY <1>0, <1>3, StackTop DEF Frame
  <2> QED BY <2>1, <1>0, <1>1, <1>3, ReplaceQuiet DEF Goto
<1>4. ASSUME stack # <<>>, AfterRead
      PROVE  Quiet'
  <2> DEFINE f == [Head(stack) EXCEPT !.pc = "write", !.again = TRUE]
  <2>1. f \in Frame /\ f.pc = "write"
    BY <1>0, <1>4, StackTop DEF Frame
  <2> QED BY <2>1, <1>0, <1>1, <1>4, ReplaceQuiet DEF AfterRead
<1>5. ASSUME stack # <<>>, AfterWrite
      PROVE  Quiet'
  <2> DEFINE b == Head(stack).again \/ buffer' # <<>>
             f == [Head(stack) EXCEPT !.pc = "post", !.again = b]
  <2>1. b \in BOOLEAN
    OBVIOUS
  <2>2. f \in Frame /\ f.pc = "post"
    BY <2>1, <1>0, <1>5, StackTop DEF Frame
  <2> QED BY <2>2, <1>0, <1>1, <1>5, ReplaceQuiet DEF AfterWrite
<1>6. CASE UNCHANGED vars
  BY <1>2, <1>6 DEF vars, baseVars, loopVars
<1>7. CASE Step
  <2>1. CASE ReadMessage \/ SkipWrite \/ SendOk \/ ResumeReturns
    BY <1>3, <2>1 DEF ReadMessage, SkipWrite, SendOk, ResumeReturns, At
  <2>2. CASE ReadInterrupted \/ ReadFails \/ HandlerReturns
    BY <1>4, <2>2 DEF ReadInterrupted, ReadFails, HandlerReturns, At
  <2>3. CASE SendAgain \/ SendFails \/ FinishClose \/ KeepWriting
    BY <1>5, <2>3 DEF SendAgain, SendFails, FinishClose, KeepWriting, At
  <2>4. CASE HandlerRaises \/ FinishCloseAgain \/ NothingMore \/ Recheck \/ RecheckDetached
    BY <1>0, <1>1, <2>4, PopQuiet
       DEF HandlerRaises, FinishCloseAgain, NothingMore, Recheck, RecheckDetached, Return, At
  <2> QED BY <1>7, <2>1, <2>2, <2>3, <2>4 DEF Step
<1>8. CASE Loop
  <2>1. CASE Select \/ RunCancelled
    BY <1>2, <2>1 DEF Select, RunCancelled, loopVars
  <2>2. CASE RunReader
    BY <1>0, <1>1, <2>2, EnterQuiet DEF RunReader
  <2>3. CASE RunLost
    BY <1>0, <2>3 DEF RunLost, Quiet, At
  <2> QED BY <1>8, <2>1, <2>2, <2>3 DEF Loop
<1>9. CASE App
  <2>1. CASE ResumeReading
    <3>1. CASE closing
      BY <1>2, <2>1, <3>1 DEF ResumeReading
    <3>2. CASE ~closing
      <4>1. stack # <<>> => Head(stack).pc \in {"msg", "resume"}
        BY <2>1, LooplessAssumption DEF ResumeReading, MayCall
      <4> QED BY <4>1, <1>0, <1>1, <2>1, <3>2, EnterQuiet DEF ResumeReading
    <3> QED BY <3>1, <3>2
  <2>2. CASE ~ResumeReading
    BY <1>2, <1>9, <2>2
       DEF App, WriteSent, WriteBehind, WriteAgain, WriteFails, WriteDetached, Close, Abort,
           AbortDetached, PauseReading, SetLimits, Peek, baseVars, loopVars
  <2> QED BY <2>1, <2>2
<1>10. CASE Peers
  BY <1>2, <1>10 DEF Peers, Arrive, PeerReads, loopVars
<1> QED BY <1>6, <1>7, <1>8, <1>9, <1>10 DEF Next

LEMMA LifeAlways == Spec => []LifeParts
<1>1. Init => LifeInv
  BY LifeInit
<1>2. LifeParts /\ [Next]_vars => LifeInv'
  BY CountedStep, QuietStep DEF Counted, Quiet, LifeInv
<1>3. Spec => []RestType
  BY TypeCorrect, TypeSplit, PTL
<1> QED BY <1>1, <1>2, <1>3, QueueAlways, PTL DEF Spec, LifeParts

\* What the queue invariant says about the three counters of the contract.
LEMMA Counters ==
  ASSUME LifeParts
  PROVE  /\ accepted \in Nat /\ Len(sent) \in Nat /\ Len(sent) <= accepted
         /\ ~connLost /\ buffer = <<>> => Len(sent) = accepted
         /\ buffer # <<>> => ~connLost /\ ~Detached /\ Len(sent) < accepted
         /\ buffer # <<>> => Head(buffer) = Len(sent) + 1
         /\ connLost => closing
         /\ Detached => closing
<1>1. /\ QueueInv
      /\ connLost => closing
      /\ Detached => closing /\ buffer = <<>>
  BY DEF LifeParts, LifeInv
<1>2. /\ Len(sent) \in Nat /\ Len(buffer) \in Nat
      /\ buffer = <<>> => Len(buffer) = 0
      /\ buffer # <<>> => Len(buffer) > 0 /\ Head(buffer) = buffer[1]
  BY <1>1 DEF QueueInv, QueueType
<1>3. accepted \in Nat
  BY <1>1, BoundAssumption DEF QueueInv, QueueType
<1>4. buffer # <<>> => Head(buffer) = Len(sent) + 1
  <2> SUFFICES ASSUME buffer # <<>> PROVE buffer[1] = Len(sent) + 1
    BY <1>2
  <2>1. 1 \in 1..Len(buffer)
    BY <1>2
  <2> QED BY <1>1, <2>1 DEF QueueInv, OutboundFifo
<1> QED BY <1>1, <1>2, <1>3, <1>4 DEF QueueInv, OutboundFifo

LEMMA ForceCloseRefines ==
  ASSUME LifeParts, NEW call, ForceClose(call), ~Detached, UNCHANGED <<delivered, lost>>
  PROVE  [Contract!Next]_(Contract!contractVars)
<1>1. CASE Len(sent) < accepted
  <2>1. Contract!Abort
    BY <1>1 DEF ForceClose, Contract!Abort, Phase, Detached
  <2> QED BY <2>1 DEF Contract!Next
<1>2. CASE ~(Len(sent) < accepted) /\ ~closing
  <2>1. Contract!Close
    BY <1>2 DEF ForceClose, Contract!Close, Phase, Detached
  <2> QED BY <2>1 DEF Contract!Next
<1>3. CASE ~(Len(sent) < accepted) /\ closing
  BY <1>3 DEF ForceClose, Contract!contractVars, Phase, Detached
<1> QED BY <1>1, <1>2, <1>3

\* connection_lost() of a transport whose backlog is out or was dropped.
LEMMA LostRefines ==
  ASSUME LifeParts, ~Detached, Detached', closing,
         connLost \/ buffer = <<>>,
         UNCHANGED <<accepted, sent, delivered>>
  PROVE  [Contract!Next]_(Contract!contractVars)
<1>1. /\ Phase \in {"aborted", "draining"}
      /\ Phase = "draining" => Len(sent) = accepted
      /\ Phase' = "lost"
  BY Counters DEF Phase
<1>2. Contract!Lose
  BY <1>1 DEF Contract!Lose
<1> QED BY <1>2 DEF Contract!Next

LEMMA ContractStep ==
  ASSUME LifeParts, [Next]_vars
  PROVE  [Contract!Next]_(Contract!contractVars)
<1>1. CASE UNCHANGED <<accepted, sent, delivered, closing, connLost, lost>>
  BY <1>1 DEF Contract!contractVars, Phase, Detached
<1>2. CASE UNCHANGED vars
  BY <1>1, <1>2 DEF vars, baseVars, queueVars, lifeVars, recvVars
<1>3. CASE Step
  <2>1. CASE ReadMessage
    <3>1. ~Detached
      BY <2>1 DEF ReadMessage, LifeParts, LifeInv
    <3>2. Contract!Deliver
      BY <2>1, <3>1 DEF ReadMessage, queueVars, lifeVars, Contract!Deliver, Phase, Detached
    <3> QED BY <3>2 DEF Contract!Next
  <2>2. CASE ReadFails
    <3>1. ~Detached
      BY <2>2 DEF ReadFails, LifeParts, LifeInv
    <3>2. CASE connLost
      BY <1>1, <2>2, <3>2 DEF ReadFails, queueVars, lifeVars, recvVars
    <3>3. CASE ~connLost
      BY <2>2, <3>1, <3>3, ForceCloseRefines DEF ReadFails, recvVars
    <3> QED BY <3>2, <3>3
  <2>3. CASE SendOk
    <3>1. /\ ~connLost /\ ~Detached /\ Len(sent) < accepted
          /\ sent' = Append(sent, Len(sent) + 1)
          /\ UNCHANGED <<accepted, delivered, closing, connLost, lost>>
      BY <2>3, Counters DEF SendOk, SendHead, MaybeResumeProtocol, lifeVars, recvVars
    <3>2. Contract!Emit
      BY <3>1 DEF Contract!Emit, Phase, Detached
    <3> QED BY <3>2 DEF Contract!Next
  <2>4. CASE SendFails
    BY <2>4, Counters, ForceCloseRefines DEF SendFails, recvVars
  <2>5. CASE FinishClose
    BY <2>5, LostRefines DEF FinishClose, Flushed, Detached, queueVars, recvVars
  <2>6. CASE ReadInterrupted \/ HandlerReturns \/ HandlerRaises \/ SkipWrite
               \/ SendAgain \/ ResumeReturns \/ FinishCloseAgain \/ KeepWriting
               \/ NothingMore \/ Recheck \/ RecheckDetached
    BY <1>1, <2>6
       DEF ReadInterrupted, HandlerReturns, HandlerRaises, SkipWrite, SendAgain,
           ResumeReturns, FinishCloseAgain, KeepWriting, NothingMore, Recheck,
           RecheckDetached, baseVars, queueVars, lifeVars, recvVars
  <2> QED BY <1>3, <2>1, <2>2, <2>3, <2>4, <2>5, <2>6 DEF Step
<1>4. CASE Loop
  <2>1. CASE Select \/ RunReader \/ RunCancelled
    BY <1>1, <2>1 DEF Select, RunReader, RunCancelled, queueVars, lifeVars, recvVars
  <2>2. CASE RunLost
    <3>1. connLost /\ closing
      BY <2>2, TailCounted, Counters DEF RunLost, LifeParts, LifeInv, RestType, lifeVars
    <3>2. CASE Detached
      BY <1>1, <2>2, <3>2 DEF RunLost, CallConnectionLost, queueVars, lifeVars, recvVars
    <3>3. CASE ~Detached
      BY <2>2, <3>1, <3>3, LostRefines
         DEF RunLost, CallConnectionLost, Detached, queueVars, recvVars
    <3> QED BY <3>2, <3>3
  <2> QED BY <1>4, <2>1, <2>2 DEF Loop
<1>5. CASE App
  <2>1. CASE WriteSent
    <3>1. Contract!SubmitNow
      BY <2>1, Counters
         DEF WriteSent, SendAtOnce, Contract!SubmitNow, Phase, Detached, lifeVars, recvVars
    <3> QED BY <3>1 DEF Contract!Next
  <2>2. CASE WriteBehind \/ WriteAgain
    <3>1. Contract!Submit
      BY <2>2
         DEF WriteBehind, WriteAgain, Enqueue, MaybePauseProtocol, Contract!Submit, Phase, Detached,
             lifeVars, recvVars
    <3> QED BY <3>1 DEF Contract!Next
  <2>3. CASE WriteFails \/ Abort
    BY <2>3, ForceCloseRefines DEF WriteFails, Abort, recvVars
  <2>4. CASE Close
    <3>1. /\ ~closing /\ ~connLost /\ ~Detached
          /\ closing' /\ ~Detached'
          /\ connLost' => buffer = <<>>
          /\ UNCHANGED <<accepted, sent, delivered>>
      BY <2>4, Counters DEF Close, StartClose, Detached, queueVars, recvVars
    <3>2. Phase = "open"
      BY <3>1 DEF Phase
    <3>3. connLost' => ~(Len(sent') < accepted')
      BY <3>1, Counters
    <3>4. Phase' = "draining"
      BY <3>1, <3>3 DEF Phase
    <3>5. Contract!Close
      BY <3>1, <3>2, <3>4 DEF Contract!Close
    <3> QED BY <3>5 DEF Contract!Next
  <2>5. CASE WriteDetached \/ AbortDetached \/ PauseReading \/ ResumeReading
               \/ SetLimits \/ Peek
    BY <1>1, <2>5
       DEF WriteDetached, AbortDetached, PauseReading, ResumeReading, SetLimits, Peek,
           baseVars, queueVars, lifeVars, recvVars
  <2> QED BY <1>5, <2>1, <2>2, <2>3, <2>4, <2>5 DEF App
<1>6. CASE Peers
  <2>1. CASE Arrive \/ PeerReads
    BY <1>1, <2>1 DEF Arrive, PeerReads, queueVars, lifeVars, recvVars
  <2> QED BY <1>6, <2>1 DEF Peers
<1> QED BY <1>2, <1>3, <1>4, <1>5, <1>6 DEF Next

\* _ZmqLooplessTransportImpl implements TransportContract: messages go out in
\* the order of the write() calls, connection_lost() comes when the backlog is
\* out or was dropped, and nothing is sent, accepted or received afterwards --
\* also with exceptions, EVENTS looked at by others and reused sockets.
THEOREM ContractHolds == Spec => ContractSpec
<1>1. Init => Contract!Init
  BY DEF Init, BaseInit, Contract!Init, Phase, Detached
<1>2. LifeParts /\ [Next]_vars => [Contract!Next]_(Contract!contractVars)
  BY ContractStep
<1> QED BY <1>1, <1>2, LifeAlways, PTL DEF Spec, ContractSpec, Contract!Spec

-----------------------------------------------------------------------------
(* How it ends, when resume_writing() does not end the connection: what it *)
(* closes, or what a _read_ready() closes that its resume_reading() calls, *)
(* is closed again by the _do_write() that called it.                      *)

ResumeKeepsOpen == Nested \cap ({"resume"} \X {"fail", "close", "abort", "resume"}) = {}

\* A queued _call_connection_lost() is the only one, has the right argument, and
\* finds a protocol to call.
Pending ==
  \A i \in 1..Len(ready) : ready[i] \in LostCalls =>
    /\ ~Detached /\ (ready[i] = "lost_exc" <=> failed)
    /\ \A j \in 1..Len(ready) : ready[j] \in LostCalls => j = i

\* What runs while the transport is detached runs after a flush.
Flushing ==
  /\ EndsInOrder
  /\ failed => connLost
  /\ faults # {} => Detached
  /\ Detached /\ stack # <<>> => ~connLost

\* Calls of _read_ready() are nested in msg_received() only; one that has sent
\* something does so for a transport that is not forced to close.
InOrder ==
  /\ \A i \in 2..Len(stack) : stack[i].pc = "msg"
  /\ At("wrote") \/ At("resume") => ~connLost

Ends == Pending /\ Flushing /\ InOrder

\* resume_writing() ends nothing.
LEMMA NoEndInResume ==
  ASSUME ResumeKeepsOpen, NEW op \in {"fail", "close", "abort", "resume"}, MayCall(op)
  PROVE  ~At("resume") /\ ~At("wrote") /\ (stack # <<>> => Head(stack).pc = "msg")
BY LooplessAssumption DEF ResumeKeepsOpen, MayCall, At

LEMMA AppendPending ==
  ASSUME ready \in Seq(Calls), NEW call \in Calls, ready' = Append(ready, call), Pending,
         \/ call \notin LostCalls /\ UNCHANGED <<lost, failed>>
         \/ /\ \A i \in 1..Len(ready) : ready[i] \notin LostCalls
            /\ ~Detached' /\ (call = "lost_exc" <=> failed')
  PROVE  Pending'
<1>1. /\ Len(ready) \in Nat /\ Len(ready') = Len(ready) + 1
      /\ ready'[Len(ready) + 1] = call
      /\ \A i \in 1..Len(ready) : ready'[i] = ready[i]
  OBVIOUS
<1>2. \A i \in 1..Len(ready') : i \in 1..Len(ready) \/ i = Len(ready) + 1
  BY <1>1
<1>3. CASE call \notin LostCalls /\ UNCHANGED <<lost, failed>>
  BY <1>1, <1>2, <1>3 DEF Pending, Detached
<1>4. CASE /\ \A i \in 1..Len(ready) : ready[i] \notin LostCalls
           /\ ~Detached' /\ (call = "lost_exc" <=> failed')
  BY <1>1, <1>2, <1>4 DEF Pending
<1> QED BY <1>3, <1>4

LEMMA TailPending ==
  ASSUME ready \in Seq(Calls), ready # <<>>, ready' = Tail(ready), Pending,
         UNCHANGED failed, UNCHANGED lost \/ Head(ready) \in LostCalls
  PROVE  /\ Pending'
         /\ Head(ready) \in LostCalls => ~Detached /\ (Head(ready) = "lost_exc" <=> failed)
<1>1. /\ Len(ready) \in Nat
      /\ \A i \in 1..Len(ready') : i + 1 \in 1..Len(ready) /\ ready'[i] = ready[i + 1]
                                 /\ i \in Nat /\ i + 1 # 1
  OBVIOUS
<1>2. 1 \in 1..Len(ready) /\ Head(ready) = ready[1]
  OBVIOUS
<1>3. CASE Head(ready) \in LostCalls
  <2>1. \A i \in 1..Len(ready') : ready'[i] \notin LostCalls
    BY <1>1, <1>2, <1>3 DEF Pending
  <2> QED BY <1>2, <1>3, <2>1 DEF Pending
<1>4. CASE Head(ready) \notin LostCalls
  <2>1. ASSUME NEW i \in 1..Len(ready'), NEW j \in 1..Len(ready'),
               ready'[i] \in LostCalls, ready'[j] \in LostCalls
        PROVE  ~Detached' /\ (ready'[i] = "lost_exc" <=> failed') /\ j = i
    <3>1. ~Detached /\ (ready[i + 1] = "lost_exc" <=> failed) /\ j + 1 = i + 1
      BY <1>1, <2>1 DEF Pending
    <3> QED BY <1>1, <1>4, <2>1, <3>1 DEF Detached
  <2> QED BY <1>4, <2>1 DEF Pending
<1> QED BY <1>3, <1>4

\* call_soon(self._read_ready) adds no end.
LEMMA SoonPending ==
  ASSUME ready \in Seq(Calls), Pending, QueueSoon \/ QueueSoonUnlessQueued,
         UNCHANGED <<lost, failed>>
  PROVE  Pending'
<1>1. CASE QueueSoon
  <2>1. "soon" \in Calls /\ "soon" \notin LostCalls
    BY DEF Calls, LostCalls
  <2> QED BY <1>1, <2>1, AppendPending DEF QueueSoon
<1>2. CASE UNCHANGED <<soonCall, ready>>
  BY <1>2 DEF Pending, Detached
<1> QED BY <1>1, <1>2 DEF QueueSoonUnlessQueued

\* Closing a transport that is not closed yet queues its one end.
LEMMA NothingPending ==
  ASSUME LifeInv, ~connLost
  PROVE  \A i \in 1..Len(ready) : ready[i] \notin LostCalls
BY DEF LifeInv

LEMMA ForceClosePending ==
  ASSUME LifeParts, Ends, ~Detached, UNCHANGED lost,
         NEW call \in LostCalls, ForceClose(call)
  PROVE  Pending'
<1>1. ready \in Seq(Calls) /\ call \in Calls
  BY DEF LifeParts, RestType, Calls
<1>2. ~failed /\ failed' = (call = "lost_exc") /\ ~Detached' /\ ready' = Append(ready, call)
  BY DEF ForceClose, Ends, Flushing, Detached
<1>3. \A i \in 1..Len(ready) : ready[i] \notin LostCalls
  BY NothingPending DEF ForceClose, LifeParts
<1> QED BY <1>1, <1>2, <1>3, AppendPending DEF Ends

\* A detached transport is left alone by whatever could force it to close.
LEMMA ReadsAreLive ==
  ASSUME LifeParts
  PROVE  /\ At("read") => ~Detached
         /\ buffer # <<>> => ~Detached /\ ~connLost
         /\ ~closing => ~Detached /\ ~connLost
BY DEF LifeParts, LifeInv, QueueInv, OutboundFifo

LEMMA PendingStep == ASSUME ResumeKeepsOpen, LifeParts, Ends, [Next]_vars PROVE Pending'
<1>0. ready \in Seq(Calls) /\ Pending
  BY DEF LifeParts, RestType, Ends
<1>1. CASE UNCHANGED <<ready, lost, failed>>
  BY <1>0, <1>1 DEF Pending, Detached
<1>2. CASE UNCHANGED vars
  BY <1>1, <1>2 DEF vars, baseVars, lifeVars
<1>3. CASE Step
  <2>1. CASE ReadFails \/ SendFails
    BY <1>1, <2>1, ReadsAreLive, ForceClosePending DEF ReadFails, SendFails, LostCalls, lifeVars
  <2>2. CASE SendAgain \/ KeepWriting \/ Recheck
    BY <1>0, <1>1, <2>2, SoonPending DEF SendAgain, KeepWriting, Recheck, lifeVars
  <2>3. CASE FinishClose
    <3>1. \A i \in 1..Len(ready) : ready[i] \notin LostCalls
      BY <2>3, NothingPending DEF FinishClose, Ends, InOrder, LifeParts
    <3> QED BY <2>3, <3>1 DEF FinishClose, Pending
  <2>4. CASE ~(ReadFails \/ SendFails \/ SendAgain \/ KeepWriting \/ Recheck \/ FinishClose)
    BY <1>1, <1>3, <2>4
       DEF Step, ReadMessage, ReadInterrupted, HandlerReturns, HandlerRaises, SkipWrite,
           SendOk, ResumeReturns, FinishCloseAgain, NothingMore, RecheckDetached, baseVars,
           lifeVars
  <2> QED BY <2>1, <2>2, <2>3, <2>4
<1>4. CASE Loop
  <2>1. CASE Select
    <3>1. "fd" \in Calls /\ "fd" \notin LostCalls
      BY DEF Calls, LostCalls
    <3> QED BY <1>0, <2>1, <3>1, AppendPending DEF Select, lifeVars
  <2>2. CASE RunReader \/ RunCancelled \/ RunLost
    BY <1>0, <2>2, TailPending DEF RunReader, RunCancelled, RunLost, lifeVars
  <2> QED BY <1>4, <2>1, <2>2 DEF Loop
<1>5. CASE App
  <2>1. CASE WriteSent \/ WriteAgain
    BY <1>0, <2>1, SoonPending DEF WriteSent, WriteAgain, lifeVars
  <2>2. CASE WriteFails \/ Abort
    BY <2>2, ForceClosePending DEF WriteFails, Abort, LostCalls
  <2>3. CASE Close
    <3>1. ~Detached /\ ~connLost /\ ~failed
      BY <2>3, ReadsAreLive DEF Close, StartClose, Ends, Flushing
    <3>2. "lost_none" \in Calls /\ "lost_none" # "lost_exc"
      BY DEF Calls, LostCalls
    <3>3. \A i \in 1..Len(ready) : ready[i] \notin LostCalls
      BY <3>1, NothingPending DEF LifeParts
    <3>4. ~Detached' /\ ~failed'
          /\ (ready' = Append(ready, "lost_none") \/ UNCHANGED <<ready, lost, failed>>)
      BY <2>3, <3>1 DEF Close, StartClose, Detached
    <3> QED BY <1>0, <1>1, <3>2, <3>3, <3>4, AppendPending
  <2>4. CASE ~(WriteSent \/ WriteAgain \/ WriteFails \/ Abort \/ Close)
    BY <1>1, <1>5, <2>4
       DEF App, WriteBehind, WriteDetached, AbortDetached, PauseReading, ResumeReading,
           SetLimits, Peek, baseVars, lifeVars
  <2> QED BY <2>1, <2>2, <2>3, <2>4
<1>6. CASE Peers
  BY <1>1, <1>6 DEF Peers, Arrive, PeerReads, lifeVars
<1> QED BY <1>2, <1>3, <1>4, <1>5, <1>6 DEF Next

\* The frames below the top stay where they are.
LEMMA ReplaceInOrder ==
  ASSUME stack \in Seq(Frame), stack # <<>>, InOrder,
         NEW f \in Frame, stack' = <<f>> \o Tail(stack),
         f.pc \in {"wrote", "resume"} => ~connLost'
  PROVE  InOrder'
<1>1. /\ \A i \in 2..Len(stack') : i \in 2..Len(stack) /\ stack'[i] = stack[i]
      /\ Head(stack') = f
  OBVIOUS
<1> QED BY <1>1 DEF InOrder, At

LEMMA PopInOrder ==
  ASSUME stack \in Seq(Frame), stack # <<>>, InOrder, stack' = Tail(stack)
  PROVE  InOrder'
<1>1. \A i \in 1..Len(stack') : i + 1 \in 2..Len(stack) /\ stack'[i] = stack[i + 1]
  OBVIOUS
<1>2. stack' # <<>> => Head(stack') = stack'[1] /\ 1 \in 1..Len(stack')
  BY <1>1
<1>3. \A i \in 1..Len(stack') : stack'[i].pc = "msg"
  BY <1>1 DEF InOrder
<1>4. \A i \in 2..Len(stack') : i \in 1..Len(stack')
  OBVIOUS
<1> QED BY <1>2, <1>3, <1>4 DEF InOrder, At

LEMMA EnterInOrder ==
  ASSUME RestType, InOrder, EnterReadReady, UNCHANGED connLost,
         stack # <<>> => Head(stack).pc = "msg"
  PROVE  InOrder'
<1>1. CASE Detached
  BY <1>1 DEF EnterReadReady, InOrder, At
<1>2. CASE ~Detached
  <2> DEFINE f == [pc    |-> IF ~paused' /\ inbox > 0 THEN "read" ELSE "write",
                   again |-> FALSE,
                   out   |-> room > 0]
  <2>1. stack' = <<f>> \o stack /\ stack \in Seq(Frame)
    BY <1>2 DEF EnterReadReady, RestType
  <2>2. \A i \in 2..Len(stack') : i - 1 \in 1..Len(stack) /\ stack'[i] = stack[i - 1]
    BY <2>1
  <2>3. \A i \in 1..Len(stack) : stack[i].pc = "msg"
    <3>1. \A i \in 1..Len(stack) : i = 1 \/ i \in 2..Len(stack)
      BY <2>1
    <3>2. stack # <<>> => stack[1].pc = "msg"
      BY <2>1
    <3>3. \A i \in 1..Len(stack) : stack # <<>>
      BY <2>1
    <3> QED BY <3>1, <3>2, <3>3 DEF InOrder
  <2>4. Head(stack') = f /\ f.pc \notin {"wrote", "resume"}
    BY <2>1
  <2> QED BY <2>2, <2>3, <2>4 DEF InOrder, At
<1> QED BY <1>1, <1>2

LEMMA InOrderStep == ASSUME ResumeKeepsOpen, LifeParts, Ends, [Next]_vars PROVE InOrder'
<1>0. stack \in Seq(Frame) /\ RestType /\ InOrder
  BY DEF LifeParts, RestType, Ends
<1>1. CASE UNCHANGED stack /\ (UNCHANGED connLost \/ (~At("wrote") /\ ~At("resume")))
  BY <1>0, <1>1 DEF InOrder, At
<1>2. ASSUME stack # <<>>, NEW p \in {"msg", "write", "resume", "wrote", "post"}, Goto(p),
             p \in {"wrote", "resume"} => ~connLost'
      PROVE  InOrder'
  <2> DEFINE f == [Head(stack) EXCEPT !.pc = p]
  <2>1. f \in Frame /\ f.pc = p
    BY <1>0, StackTop, <1>2 DEF Frame
  <2> QED BY <2>1, <1>0, <1>2, ReplaceInOrder DEF Goto
<1>3. ASSUME stack # <<>>, AfterRead PROVE InOrder'
  <2> DEFINE f == [Head(stack) EXCEPT !.pc = "write", !.again = TRUE]
  <2>1. f \in Frame /\ f.pc = "write"
    BY <1>0, <1>3, StackTop DEF Frame
  <2> QED BY <2>1, <1>0, <1>3, ReplaceInOrder DEF AfterRead
<1>4. ASSUME stack # <<>>, AfterWrite PROVE InOrder'
  <2> DEFINE b == Head(stack).again \/ buffer' # <<>>
             f == [Head(stack) EXCEPT !.pc = "post", !.again = b]
  <2>1. b \in BOOLEAN
    OBVIOUS
  <2>2. f \in Frame /\ f.pc = "post"
    BY <2>1, <1>0, <1>4, StackTop DEF Frame
  <2> QED BY <2>2, <1>0, <1>4, ReplaceInOrder DEF AfterWrite
<1>5. CASE UNCHANGED vars
  BY <1>1, <1>5 DEF vars, baseVars, loopVars, lifeVars
<1>6. CASE Step
  <2>1. CASE ReadMessage \/ SkipWrite
    BY <1>2, <2>1 DEF ReadMessage, SkipWrite, At
  <2>2. CASE SendOk
    <3>1. ~connLost'
      BY <2>2, ReadsAreLive DEF SendOk, SendHead, lifeVars
    <3> QED BY <1>2, <2>2, <3>1 DEF SendOk, At
  <2>3. CASE ResumeReturns
    <3>1. ~connLost'
      BY <1>0, <2>3 DEF ResumeReturns, InOrder, baseVars, lifeVars
    <3> QED BY <1>2, <2>3, <3>1 DEF ResumeReturns, At
  <2>4. CASE ReadInterrupted \/ ReadFails \/ HandlerReturns
    BY <1>3, <2>4 DEF ReadInterrupted, ReadFails, HandlerReturns, At
  <2>5. CASE SendAgain \/ SendFails \/ FinishClose \/ KeepWriting
    BY <1>4, <2>5 DEF SendAgain, SendFails, FinishClose, KeepWriting, At
  <2>6. CASE HandlerRaises \/ FinishCloseAgain \/ NothingMore \/ Recheck \/ RecheckDetached
    BY <1>0, <2>6, PopInOrder
       DEF HandlerRaises, FinishCloseAgain, NothingMore, Recheck, RecheckDetached, Return, At
  <2> QED BY <1>6, <2>1, <2>2, <2>3, <2>4, <2>5, <2>6 DEF Step
<1>7. CASE Loop
  <2>1. CASE Select \/ RunCancelled \/ RunLost
    BY <1>1, <2>1 DEF Select, RunCancelled, RunLost, loopVars, At
  <2>2. CASE RunReader
    BY <1>0, <2>2, EnterInOrder DEF RunReader, lifeVars
  <2> QED BY <1>7, <2>1, <2>2 DEF Loop
<1>8. CASE App
  <2>1. CASE ResumeReading
    <3>1. stack # <<>> => Head(stack).pc = "msg"
      BY <2>1, NoEndInResume DEF ResumeReading
    <3>2. CASE UNCHANGED stack
      BY <1>1, <2>1, <3>2 DEF ResumeReading, lifeVars
    <3>3. CASE EnterReadReady
      BY <1>0, <2>1, <3>1, <3>3, EnterInOrder DEF ResumeReading, lifeVars
    <3> QED BY <2>1, <3>2, <3>3 DEF ResumeReading
  <2>2. CASE WriteFails \/ Close \/ Abort
    <3>1. UNCHANGED stack /\ ~At("wrote") /\ ~At("resume")
      BY <2>2, NoEndInResume DEF WriteFails, Close, Abort
    <3> QED BY <1>1, <3>1
  <2>3. CASE ~(ResumeReading \/ WriteFails \/ Close \/ Abort)
    BY <1>1, <1>8, <2>3
       DEF App, WriteSent, WriteBehind, WriteAgain, WriteDetached, AbortDetached,
           PauseReading, SetLimits, Peek, baseVars, loopVars, lifeVars
  <2> QED BY <2>1, <2>2, <2>3
<1>9. CASE Peers
  BY <1>1, <1>9 DEF Peers, Arrive, PeerReads, loopVars, lifeVars
<1> QED BY <1>5, <1>6, <1>7, <1>8, <1>9 DEF Next

LEMMA FlushingStep == ASSUME ResumeKeepsOpen, LifeParts, Ends, [Next]_vars PROVE Flushing'
<1>0. Flushing /\ (Detached => closing)
  BY DEF Ends, LifeParts, LifeInv
<1> USE DEF Flushing, EndsInOrder, LostArgTruthful, FaultsNeedFlush
\* Nothing ends.
<1>1. CASE UNCHANGED <<connLost, lost, failed, faults>> /\ (stack' # <<>> => stack # <<>> \/ ~Detached)
  BY <1>0, <1>1 DEF Detached
\* Something is forced to end, and was not detached.
<1>2. CASE ~Detached /\ UNCHANGED <<lost, faults>> /\ (failed' => connLost')
  BY <1>0, <1>2 DEF Detached
\* Something fails after a flush.
<1>3. CASE Detached /\ ~connLost /\ UNCHANGED <<connLost, lost, failed>>
  BY <1>0, <1>3 DEF Detached
<1>4. CASE UNCHANGED vars
  BY <1>1, <1>4 DEF vars, baseVars, lifeVars, loopVars
<1>5. CASE Step
  <2>1. stack # <<>>
    BY <1>5
       DEF Step, ReadMessage, ReadInterrupted, ReadFails, HandlerReturns, HandlerRaises,
           SkipWrite, SendOk, SendAgain, SendFails, ResumeReturns, FinishClose,
           FinishCloseAgain, KeepWriting, NothingMore, Recheck, RecheckDetached, At
  <2>2. CASE ReadFails \/ SendFails
    BY <1>1, <1>2, <2>1, <2>2, ReadsAreLive DEF ReadFails, SendFails, ForceClose, lifeVars
  <2>3. CASE FinishClose
    <3>1. ~connLost /\ ~failed
      BY <1>0, <2>3 DEF FinishClose, Ends, InOrder
    <3> QED BY <1>0, <2>3, <3>1 DEF FinishClose, Detached, lifeVars
  <2>4. CASE FinishCloseAgain \/ RecheckDetached
    BY <1>0, <1>3, <2>1, <2>4 DEF FinishCloseAgain, RecheckDetached, lifeVars
  <2>5. CASE ~(ReadFails \/ SendFails \/ FinishClose \/ FinishCloseAgain \/ RecheckDetached)
    BY <1>1, <1>5, <2>1, <2>5
       DEF Step, ReadMessage, ReadInterrupted, HandlerReturns, HandlerRaises, SkipWrite,
           SendOk, SendAgain, ResumeReturns, KeepWriting, NothingMore, Recheck, baseVars,
           lifeVars
  <2> QED BY <2>2, <2>3, <2>4, <2>5
<1>6. CASE Loop
  <2>1. CASE Select \/ RunCancelled
    BY <1>1, <2>1 DEF Select, RunCancelled, lifeVars, loopVars
  <2>2. CASE RunReader
    BY <1>1, <2>2 DEF RunReader, EnterReadReady, lifeVars
  <2>3. CASE RunLost
    <3>1. ~Detached /\ (Head(ready) = "lost_exc" <=> failed)
      BY <2>3, TailPending DEF RunLost, LifeParts, RestType, Ends, lifeVars
    <3>2. /\ lost' = IF failed THEN "exc" ELSE "None"
          /\ stack' = <<>> /\ UNCHANGED <<faults, failed, connLost>>
      BY <2>3, <3>1 DEF RunLost, CallConnectionLost, lifeVars
    <3> QED BY <1>0, <3>1, <3>2 DEF Detached
  <2> QED BY <1>6, <2>1, <2>2, <2>3 DEF Loop
<1>7. CASE App
  <2>1. CASE WriteFails \/ Abort
    BY <1>2, <2>1 DEF WriteFails, Abort, ForceClose
  <2>2. CASE Close
    <3>1. ~Detached /\ ~failed
      BY <1>0, <2>2, ReadsAreLive DEF Close, StartClose
    <3> QED BY <1>2, <2>2, <3>1 DEF Close, StartClose
  <2>3. CASE WriteDetached \/ AbortDetached
    BY <1>3, <2>3 DEF WriteDetached, AbortDetached, lifeVars
  <2>4. CASE ResumeReading
    BY <1>1, <2>4 DEF ResumeReading, EnterReadReady, lifeVars
  <2>5. CASE ~(WriteFails \/ Abort \/ Close \/ WriteDetached \/ AbortDetached \/ ResumeReading)
    BY <1>1, <1>7, <2>5
       DEF App, WriteSent, WriteBehind, WriteAgain, PauseReading, SetLimits, Peek, baseVars,
           loopVars, lifeVars
  <2> QED BY <2>1, <2>2, <2>3, <2>4, <2>5
<1>8. CASE Peers
  BY <1>1, <1>8 DEF Peers, Arrive, PeerReads, loopVars, lifeVars
<1> QED BY <1>4, <1>5, <1>6, <1>7, <1>8 DEF Next

\* However the connection ends -- queued, after a flush, forced, or one on top of
\* the other -- it ends with the right argument, and a method runs into cleared
\* attributes only after a flush; if resume_writing() does not end it.
THEOREM EndsInOrderHolds == ASSUME ResumeKeepsOpen PROVE Spec => []EndsInOrder
<1>1. Init => Ends
  BY DEF Init, BaseInit, Ends, Pending, Flushing, InOrder, EndsInOrder, LostArgTruthful,
         FaultsNeedFlush, Detached, At
<1>2. LifeParts /\ Ends /\ [Next]_vars => Ends'
  BY PendingStep, FlushingStep, InOrderStep DEF Ends
<1>3. Ends => EndsInOrder
  BY DEF Ends, Flushing
<1> QED BY <1>1, <1>2, <1>3, LifeAlways, PTL DEF Spec

=============================================================================
