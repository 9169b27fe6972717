------------------------- MODULE LooplessTransport -------------------------
(***************************************************************************)
(* _ZmqLooplessTransportImpl (aiozmq/core.py): a ZeroMQ transport on a     *)
(* plain asyncio loop.  The loop polls the file descriptor of the socket,  *)
(* which is edge-like: it becomes readable when the I/O thread of libzmq   *)
(* has news for the socket, and reading the EVENTS option, sending or      *)
(* receiving may eat that news.  So _read_ready() has to call itself again *)
(* with call_soon() whenever the descriptor may stay silent although there *)
(* is work to do.                                                          *)
(*                                                                         *)
(* One thread runs the loop; the peers and libzmq's I/O thread run beside  *)
(* it.  _read_ready() is reentrant: msg_received() and resume_writing()    *)
(* run application code, which may call the transport, and                 *)
(* resume_reading() calls _read_ready() again.  `stack' holds a frame for  *)
(* each active _read_ready(), the innermost first.                         *)
(***************************************************************************)
EXTENDS BaseTransport

CONSTANTS MaxDepth,  \* bound: nested calls of _read_ready()
          MaxQueue,  \* bound: no EINTR once so many callbacks are queued
          Nested,    \* <<pc, operation>>: what the application calls in callbacks
          Quirks     \* "raise": msg_received() may raise;
                     \* "peek": the application reads EVENTS, as repr() does;
                     \* "preused": the socket was used before

\* What the application may call; "fail" is a write() that fails for good.
Ops == {"write", "fail", "close", "abort", "pause", "resume", "limits", "peek"}

ASSUME LooplessAssumption ==
  /\ MaxDepth \in Nat \ {0}
  /\ MaxQueue \in Nat
  /\ Nested \subseteq {"msg", "resume"} \X Ops
  /\ Quirks \subseteq {"raise", "peek", "preused"}

VARIABLES soonCall,  \* _soon_call is not None
          readerOn,  \* the loop has _read_ready() as reader of the descriptor
          stack,     \* active calls of _read_ready()
          signal,    \* the descriptor is readable
          asleep     \* the socket found its pipes empty: the next message signals

loopVars == <<soonCall, readerOn, stack>>
fdVars   == <<signal, asleep>>
vars     == <<baseVars, loopVars, fdVars>>

(* A frame is where its call stands:                                       *)
(*   "read"    about to recv_multipart()                                   *)
(*   "msg"     in msg_received()                                           *)
(*   "write"   past the reading                                            *)
(*   "resume"  in resume_writing()                                         *)
(*   "wrote"   past _maybe_resume_protocol()                               *)
(*   "post"    past the writing                                            *)
(* with its local variables try_again and events & POLLOUT.                *)
Frame == [pc    : {"read", "msg", "write", "resume", "wrote", "post"},
          again : BOOLEAN,
          out   : BOOLEAN]

Calls == {"soon", "fd"} \cup LostCalls

TypeOK ==
  /\ BaseTypeOK
  /\ soonCall \in BOOLEAN
  /\ readerOn \in BOOLEAN
  /\ stack \in Seq(Frame)
  /\ ready \in Seq(Calls)
  /\ signal \in BOOLEAN
  /\ asleep \in BOOLEAN

Init ==
  /\ BaseInit
  /\ soonCall = FALSE
  /\ readerOn = TRUE
  /\ stack = <<>>
  /\ \/ inbox = 0 /\ asleep = TRUE /\ signal \in BOOLEAN
     \/ "preused" \in Quirks /\ inbox \in 1..MaxIn /\ asleep = FALSE /\ signal = FALSE

-----------------------------------------------------------------------------
(* libzmq.                                                                 *)

\* getsockopt(EVENTS): the commands of the I/O thread are processed, and a
\* socket that finds its pipes empty asks to be signalled.
ReadEvents == signal' = FALSE /\ asleep' = (inbox = 0)

\* send_multipart() and recv_multipart() process the commands now and then.
MayEatSignal == signal' \in {signal, FALSE} /\ UNCHANGED asleep

\* A message reaches the pipes.
Arrive ==
  /\ inbox + delivered < MaxIn
  /\ inbox' = inbox + 1
  /\ signal' = (signal \/ asleep)
  /\ asleep' = FALSE
  /\ UNCHANGED <<queueVars, flowVars, paused, lifeVars, lost, faults, delivered,
                 room, ready, loopVars>>

\* The peer takes a message from a pipe; leaving "full" is signalled.
PeerReads ==
  /\ room < MaxRoom
  /\ room' = room + 1
  /\ signal' = (signal \/ room = 0)
  /\ UNCHANGED <<queueVars, flowVars, paused, lifeVars, lost, faults, recvVars,
                 ready, loopVars, asleep>>

-----------------------------------------------------------------------------
(* The event loop.  remove_reader() cancels a queued call of the reader.   *)

Goto(p) == stack' = <<[Head(stack) EXCEPT !.pc = p]>> \o Tail(stack)
Return  == stack' = Tail(stack)

At(p) == stack # <<>> /\ Head(stack).pc = p

QueueSoon == soonCall' = TRUE /\ ready' = Append(ready, "soon")

QueueSoonUnlessQueued ==
  IF soonCall THEN UNCHANGED <<soonCall, ready>> ELSE QueueSoon

Queued(call) == \E i \in 1..Len(ready) : ready[i] = call

\* The selector reports the descriptor once per iteration of the loop.
Select ==
  /\ stack = <<>>
  /\ readerOn /\ signal
  /\ ~Queued("fd")
  /\ ready' = Append(ready, "fd")
  /\ UNCHANGED <<queueVars, flowVars, paused, lifeVars, lost, faults, recvVars,
                 room, loopVars, fdVars>>

\* Slip: _soon_call is left set.
EnterKeepingSoonCall ==
  /\ UNCHANGED soonCall
  /\ IF Detached
     THEN UNCHANGED <<stack, fdVars>>
     ELSE /\ ReadEvents
          /\ stack' = <<[pc    |-> IF ~paused' /\ inbox > 0 THEN "read" ELSE "write",
                         again |-> FALSE,
                         out   |-> room > 0]>> \o stack

\* A call of _read_ready() up to its first look at EVENTS.
EnterReadReady ==
  /\ soonCall' = FALSE
  /\ IF Detached
     THEN UNCHANGED <<stack, fdVars>>
     ELSE /\ ReadEvents
          /\ stack' = <<[pc    |-> IF ~paused' /\ inbox > 0 THEN "read" ELSE "write",
                         again |-> FALSE,
                         out   |-> room > 0]>> \o stack

RunReader ==
  /\ stack = <<>> /\ ready # <<>>
  /\ Head(ready) \in IF readerOn THEN {"soon", "fd"} ELSE {"soon"}
  /\ ready' = Tail(ready)
  /\ UNCHANGED paused
  /\ EnterReadReady
  /\ UNCHANGED <<queueVars, flowVars, lifeVars, lost, faults, recvVars, room,
                 readerOn>>

RunCancelled ==
  /\ stack = <<>> /\ ready # <<>>
  /\ Head(ready) = "fd" /\ ~readerOn
  /\ ready' = Tail(ready)
  /\ UNCHANGED <<queueVars, flowVars, paused, lifeVars, lost, faults, recvVars,
                 room, loopVars, fdVars>>

RunLost ==
  /\ stack = <<>> /\ ready # <<>>
  /\ Head(ready) \in LostCalls
  /\ ready' = Tail(ready)
  /\ CallConnectionLost(Head(ready))
  /\ soonCall' = FALSE
  /\ UNCHANGED <<queueVars, flowVars, paused, lifeVars, recvVars, room, readerOn,
                 stack, fdVars>>

-----------------------------------------------------------------------------
(* _read_ready(), past its first look at EVENTS.                           *)

\* _do_read()
ReadMessage ==
  /\ At("read")
  /\ inbox > 0
  /\ inbox' = inbox - 1
  /\ delivered' = delivered + 1
  /\ MayEatSignal
  /\ Goto("msg")
  /\ UNCHANGED <<queueVars, flowVars, paused, lifeVars, lost, faults, room, ready,
                 soonCall, readerOn>>

\* Slip: a message that was read is no reason to look again.
AfterReadContent ==
  stack' = <<[Head(stack) EXCEPT !.pc = "write"]>> \o Tail(stack)

AfterRead ==
  stack' = <<[Head(stack) EXCEPT !.pc = "write", !.again = TRUE]>> \o Tail(stack)

ReadInterrupted ==
  /\ At("read")
  /\ Len(ready) < MaxQueue
  /\ AfterRead
  /\ UNCHANGED <<baseVars, soonCall, readerOn, fdVars>>

\* A fatal read error; _force_close() does nothing when it has run before.
ReadFails ==
  /\ At("read")
  /\ AfterRead
  /\ IF connLost
     THEN UNCHANGED <<queueVars, flowVars, lifeVars, ready, readerOn>>
     ELSE ForceClose("lost_exc") /\ readerOn' = FALSE
  /\ UNCHANGED <<paused, lost, faults, recvVars, room, soonCall, fdVars>>

HandlerReturns ==
  /\ At("msg")
  /\ AfterRead
  /\ UNCHANGED <<baseVars, soonCall, readerOn, fdVars>>

\* The exception leaves _read_ready() by way of _do_read(), which catches
\* nothing there: the rest of the call is skipped.
HandlerRaises ==
  /\ "raise" \in Quirks
  /\ At("msg")
  /\ Return
  /\ UNCHANGED <<baseVars, soonCall, readerOn, fdVars>>

\* Past _do_write(): try_again is set unless the buffer ran empty.
AfterWrite ==
  stack' = <<[Head(stack) EXCEPT !.pc = "post", !.again = @ \/ buffer' # <<>>]>>
           \o Tail(stack)

SkipWrite ==
  /\ At("write")
  /\ buffer = <<>> \/ ~Head(stack).out
  /\ Goto("post")
  /\ UNCHANGED <<baseVars, soonCall, readerOn, fdVars>>

\* _do_write()
SendOk ==
  /\ At("write") /\ Head(stack).out
  /\ SendHead
  /\ MayEatSignal
  /\ Goto(IF ResumesProtocol THEN "resume" ELSE "wrote")
  /\ UNCHANGED <<paused, lifeVars, lost, faults, recvVars, ready, soonCall, readerOn>>

SendAgain ==
  /\ At("write") /\ Head(stack).out
  /\ buffer # <<>>
  /\ room > 0 => Len(ready) < MaxQueue
  /\ QueueSoonUnlessQueued
  /\ MayEatSignal
  /\ UNCHANGED <<queueVars, flowVars, paused, lifeVars, lost, faults, recvVars,
                 room, readerOn>>
  /\ AfterWrite

SendFails ==
  /\ At("write") /\ Head(stack).out
  /\ buffer # <<>>
  /\ ForceClose("lost_exc")
  /\ readerOn' = FALSE
  /\ AfterWrite
  /\ UNCHANGED <<paused, lost, faults, recvVars, room, soonCall, fdVars>>

ResumeReturns ==
  /\ At("resume")
  /\ Goto("wrote")
  /\ UNCHANGED <<baseVars, soonCall, readerOn, fdVars>>

Flushed == buffer = <<>> /\ closing

\* The backlog of a closed transport is out: connection_lost() at once.
FinishClose ==
  /\ At("wrote") /\ Flushed /\ ~Detached
  /\ readerOn' = FALSE
  /\ lost' = "None"
  /\ soonCall' = FALSE
  /\ UNCHANGED <<queueVars, flowVars, paused, lifeVars, faults, recvVars, room,
                 ready, fdVars>>
  /\ AfterWrite

FinishCloseAgain ==
  /\ At("wrote") /\ Flushed /\ Detached
  /\ Fault("wrote")
  /\ Return
  /\ UNCHANGED <<queueVars, flowVars, paused, lifeVars, lost, recvVars, room,
                 ready, soonCall, readerOn, fdVars>>

KeepWriting ==
  /\ At("wrote") /\ ~Flushed
  /\ QueueSoonUnlessQueued
  /\ UNCHANGED <<queueVars, flowVars, paused, lifeVars, lost, faults, recvVars,
                 room, readerOn, fdVars>>
  /\ AfterWrite

NothingMore ==
  /\ At("post") /\ ~Head(stack).again
  /\ Return
  /\ UNCHANGED <<baseVars, soonCall, readerOn, fdVars>>

\* Slip: the second look is for room only.
RecheckWriteOnly ==
  /\ At("post") /\ Head(stack).again /\ ~Detached
  /\ ReadEvents
  /\ IF buffer # <<>> /\ room > 0 THEN QueueSoon ELSE UNCHANGED <<soonCall, ready>>
  /\ Return
  /\ UNCHANGED <<queueVars, flowVars, paused, lifeVars, lost, faults, recvVars,
                 room, readerOn>>

\* The second look at EVENTS; _soon_call is not consulted.
Recheck ==
  /\ At("post") /\ Head(stack).again /\ ~Detached
  /\ ReadEvents
  /\ IF inbox > 0 \/ (buffer # <<>> /\ room > 0)
     THEN QueueSoon
     ELSE UNCHANGED <<soonCall, ready>>
  /\ Return
  /\ UNCHANGED <<queueVars, flowVars, paused, lifeVars, lost, faults, recvVars,
                 room, readerOn>>

RecheckDetached ==
  /\ At("post") /\ Head(stack).again /\ Detached
  /\ Fault("post")
  /\ Return
  /\ UNCHANGED <<queueVars, flowVars, paused, lifeVars, lost, recvVars, room,
                 ready, soonCall, readerOn, fdVars>>

-----------------------------------------------------------------------------
(* The application, in a callback of the loop or inside a protocol         *)
(* callback.  Calls that raise or return without a state change are left   *)
(* out.                                                                    *)

MayCall(op) == stack # <<>> => <<Head(stack).pc, op>> \in Nested

\* write() that the socket takes.
WriteSent ==
  /\ MayCall("write")
  /\ SendAtOnce
  /\ MayEatSignal
  /\ QueueSoonUnlessQueued
  /\ UNCHANGED <<paused, lifeVars, lost, faults, recvVars, readerOn, stack>>

\* write() behind a backlog.
WriteBehind ==
  /\ MayCall("write")
  /\ buffer # <<>>
  /\ Enqueue
  /\ UNCHANGED <<paused, lifeVars, lost, faults, recvVars, ready, loopVars, fdVars>>

\* write() that gets EAGAIN or EINTR.
WriteAgain ==
  /\ MayCall("write")
  /\ buffer = <<>>
  /\ Enqueue
  /\ MayEatSignal
  /\ QueueSoonUnlessQueued
  /\ UNCHANGED <<paused, lifeVars, lost, faults, recvVars, readerOn, stack>>

WriteFails ==
  /\ MayCall("fail")
  /\ buffer = <<>> /\ ~Detached
  /\ ForceClose("lost_exc")
  /\ readerOn' = FALSE
  /\ UNCHANGED <<paused, lost, faults, recvVars, room, soonCall, stack, fdVars>>

WriteDetached ==
  /\ MayCall("write")
  /\ Detached /\ ~connLost
  /\ Fault("write")
  /\ UNCHANGED <<queueVars, flowVars, paused, lifeVars, lost, recvVars, room,
                 ready, loopVars, fdVars>>

Close ==
  /\ MayCall("close")
  /\ StartClose
  /\ readerOn' = (readerOn /\ (buffer # <<>> \/ paused))
  /\ UNCHANGED <<queueVars, flowVars, paused, lost, faults, recvVars, room,
                 soonCall, stack, fdVars>>

Abort ==
  /\ MayCall("abort")
  /\ ~Detached
  /\ ForceClose("lost_none")
  /\ readerOn' = FALSE
  /\ UNCHANGED <<paused, lost, faults, recvVars, room, soonCall, stack, fdVars>>

AbortDetached ==
  /\ MayCall("abort")
  /\ Detached /\ ~connLost
  /\ Fault("abort")
  /\ UNCHANGED <<queueVars, flowVars, paused, lifeVars, lost, recvVars, room,
                 ready, loopVars, fdVars>>

PauseReading ==
  /\ MayCall("pause")
  /\ ~closing /\ ~paused
  /\ paused' = TRUE
  /\ UNCHANGED <<queueVars, flowVars, lifeVars, lost, faults, recvVars, room,
                 ready, loopVars, fdVars>>

\* resume_reading() calls _read_ready() itself.
ResumeReading ==
  /\ MayCall("resume")
  /\ paused
  /\ paused' = FALSE
  /\ \/ closing /\ UNCHANGED <<soonCall, stack, fdVars>>
     \/ ~closing /\ Len(stack) < MaxDepth /\ EnterReadReady
  /\ UNCHANGED <<queueVars, flowVars, lifeVars, lost, faults, recvVars, room,
                 ready, readerOn>>

SetLimits ==
  /\ MayCall("limits")
  /\ \E l \in Limits : NewLimits(l)
  /\ UNCHANGED <<queueVars, paused, lifeVars, lost, faults, recvVars, room,
                 ready, loopVars, fdVars>>

\* repr(transport) and getsockopt(EVENTS) look at EVENTS outside _read_ready().
Peek ==
  /\ "peek" \in Quirks
  /\ MayCall("peek")
  /\ ~Detached
  /\ ReadEvents
  /\ UNCHANGED <<baseVars, loopVars>>

-----------------------------------------------------------------------------
Step == \/ ReadMessage \/ ReadInterrupted \/ ReadFails
        \/ HandlerReturns \/ HandlerRaises
        \/ SkipWrite \/ SendOk \/ SendAgain \/ SendFails
        \/ ResumeReturns \/ FinishClose \/ FinishCloseAgain \/ KeepWriting
        \/ NothingMore \/ Recheck \/ RecheckDetached

Loop == Select \/ RunReader \/ RunCancelled \/ RunLost

App == \/ WriteSent \/ WriteBehind \/ WriteAgain \/ WriteFails \/ WriteDetached
       \/ Close \/ Abort \/ AbortDetached
       \/ PauseReading \/ ResumeReading \/ SetLimits \/ Peek

Peers == Arrive \/ PeerReads

Next == Step \/ Loop \/ App \/ Peers

Spec == Init /\ [][Next]_vars

\* The loop keeps running its callbacks and polling, calls return, peers
\* read, and EINTR does not come for ever.  The application owes nothing.
Fairness ==
  /\ WF_vars(Step)
  /\ WF_vars(Select)
  /\ WF_vars(RunReader \/ RunCancelled \/ RunLost)
  /\ WF_vars(PeerReads)
  /\ SF_vars(HandlerReturns) /\ SF_vars(ResumeReturns)
  /\ SF_vars(ReadMessage) /\ SF_vars(SendOk)

FairSpec == Spec /\ Fairness

-----------------------------------------------------------------------------
(* Safety.                                                                 *)

Live == ~connLost /\ ~Detached

\* A message that may be read, or a backlog the socket would take.
WorkToDo == \/ inbox > 0 /\ ~paused /\ ~closing
            \/ buffer # <<>> /\ room > 0

\* Something will call _read_ready() again.
Wake == signal \/ Queued("soon") \/ Queued("fd")

\* No lost wake-up: when the thread is back in the loop and there is work
\* to do, _read_ready() is coming -- although EVENTS, send and recv clear the
\* descriptor behind the loop's back (_read_ready, _do_write, _do_send,
\* _do_resume_reading).
NoLostWakeup == Live /\ stack = <<>> /\ WorkToDo => Wake

\* A call of _read_ready() that will look at EVENTS again, or has it called.
Duty(f) == f.again \/ f.pc \in {"read", "msg", "resume", "wrote"}
NoDuty == \A i \in 1..Len(stack) : ~Duty(stack[i])

\* Why NoLostWakeup holds in the middle of the calls, too: unless an active
\* _read_ready() is bound to look again, a socket that would not signal the
\* next message is being looked after, and so is a backlog.
WakeupInductive ==
  Live /\ NoDuty =>
    /\ ~paused /\ ~closing /\ ~asleep => Wake
    /\ buffer # <<>> /\ room > 0 => Wake \/ (At("write") /\ Head(stack).out)

\* A _soon_call that is set is still to run: a handle that has run but was
\* left in _soon_call would keep every later one from being scheduled.
SoonCallQueued == soonCall => Queued("soon")

\* The outbound books, whatever callbacks do in the middle of a flush or of a
\* nested _read_ready(): order, size of the buffer, and a backlog behind every
\* paused protocol.
Books == TypeOK /\ OutboundFifo /\ BufferSizeExact /\ PausedHasBacklog

\* A method trips over a cleared attribute only after a close() that had a
\* backlog to flush: that way to connection_lost() leaves _conn_lost at 0.
\* A close() without backlog, an abort() or a fatal error is clean, whatever
\* is called afterwards.
FaultsNeedFlush == faults # {} => ~connLost

\* However the connection ends -- queued, after a flush, forced, or one on top
\* of the other -- it ends once, with the right argument, and what is called
\* afterwards fails in the one case above only.
EndsInOrder == LostArgTruthful /\ FaultsNeedFlush

\* A closed transport is out of the selector: its descriptor is about to be
\* closed, and its number reused.
ReaderRemoved == Detached => ~readerOn

Phase == IF Detached THEN "lost"
         ELSE IF ~closing THEN "open"
         ELSE IF connLost /\ Len(sent) < accepted THEN "aborted"
         ELSE "draining"

Contract == INSTANCE TransportContract WITH phase <- Phase

\* The transport keeps the promises of the interface.
ContractSpec == Contract!Spec

-----------------------------------------------------------------------------
(* Liveness, of FairSpec.                                                  *)

\* Every message that arrives is handed over, unless reading is paused or
\* the transport closed.
MessagesDelivered ==
  \A n \in 1..MaxIn : inbox + delivered >= n ~> delivered >= n \/ paused \/ closing

\* What write() accepted goes out, unless the transport is forced to close.
WritesFlushed ==
  \A n \in 1..MaxWrites : accepted >= n ~> Len(sent) >= n \/ connLost

\* A paused protocol is resumed, unless the transport is forced to close.
ProtocolResumed == protoPaused ~> ~protoPaused \/ connLost

\* close(), abort() and fatal errors all end in connection_lost().
CloseCompletes == closing ~> Detached

\* All of it together: what the loop owes to the application, although nothing
\* but the edges of one descriptor and _soon_call ever wake it.
Progress ==
  MessagesDelivered /\ WritesFlushed /\ ProtocolResumed /\ CloseCompletes

=============================================================================
