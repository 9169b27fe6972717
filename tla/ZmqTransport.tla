---------------------------- MODULE ZmqTransport ----------------------------
(***************************************************************************)
(* _ZmqTransportImpl (aiozmq/core.py): a ZeroMQ transport on ZmqEventLoop, *)
(* whose selector polls the socket itself.  Readiness is level-triggered:  *)
(* the loop calls _read_ready() in every iteration in which a registered   *)
(* reader has a message, and _write_ready() in every iteration in which a  *)
(* registered writer has room.  The transport must keep its registrations  *)
(* in step with its buffer, with pause_reading() and with close().         *)
(*                                                                         *)
(* Neither callback calls itself, so `at' says where the thread is:        *)
(*   "loop"    between callbacks                                           *)
(*   "msg"     in msg_received(), called by _read_ready()                  *)
(*   "resume"  in resume_writing(), called by _write_ready()               *)
(*   "wrote"   in _write_ready(), past _maybe_resume_protocol()            *)
(***************************************************************************)
EXTENDS BaseTransport

CONSTANT Nested  \* <<at, operation>>: what the application calls in callbacks

\* What the application may call; "fail" is a write() that fails for good.
Ops == {"write", "fail", "close", "abort", "pause", "resume", "limits"}

ASSUME NestedAssumption == Nested \subseteq {"msg", "resume"} \X Ops

VARIABLES readerOn,  \* _read_ready() is registered for the socket
          writerOn,  \* _write_ready() is registered for the socket
          rdQueued,  \* the loop is about to call _read_ready()
          wrQueued,  \* the loop is about to call _write_ready()
          at         \* where the thread is

pollVars == <<readerOn, writerOn, rdQueued, wrQueued>>
vars     == <<baseVars, pollVars, at>>

TypeOK ==
  /\ BaseTypeOK
  /\ ready \in Seq(LostCalls)
  /\ readerOn \in BOOLEAN /\ writerOn \in BOOLEAN
  /\ rdQueued \in BOOLEAN /\ wrQueued \in BOOLEAN
  /\ at \in {"loop", "msg", "resume", "wrote"}

Init ==
  /\ BaseInit
  /\ inbox = 0
  /\ readerOn = TRUE
  /\ writerOn = FALSE
  /\ rdQueued = FALSE
  /\ wrQueued = FALSE
  /\ at = "loop"

-----------------------------------------------------------------------------
(* libzmq and the event loop.  Removing a reader or a writer cancels its   *)
(* queued call.                                                            *)

Arrive ==
  /\ inbox + delivered < MaxIn
  /\ inbox' = inbox + 1
  /\ UNCHANGED <<queueVars, flowVars, paused, lifeVars, lost, faults, delivered,
                 room, ready, pollVars, at>>

PeerReads ==
  /\ room < MaxRoom
  /\ room' = room + 1
  /\ UNCHANGED <<queueVars, flowVars, paused, lifeVars, lost, faults, recvVars,
                 ready, pollVars, at>>

\* ZmqSelector.select() and _process_events().
Select ==
  /\ at = "loop"
  /\ ~rdQueued /\ ~wrQueued
  /\ rdQueued' = (readerOn /\ inbox > 0)
  /\ wrQueued' = (writerOn /\ room > 0)
  /\ UNCHANGED <<baseVars, readerOn, writerOn, at>>

RemoveReader == readerOn' = FALSE /\ rdQueued' = FALSE
RemoveWriter == writerOn' = FALSE /\ wrQueued' = FALSE
KeepReader   == UNCHANGED <<readerOn, rdQueued>>
KeepWriter   == UNCHANGED <<writerOn, wrQueued>>

RunLost ==
  /\ at = "loop" /\ ready # <<>>
  /\ ready' = Tail(ready)
  /\ CallConnectionLost(Head(ready))
  /\ UNCHANGED <<queueVars, flowVars, paused, lifeVars, recvVars, room, pollVars, at>>

\* What _force_close() unregisters; close() did the same for the reader.
Unregister ==
  /\ IF buffer # <<>> THEN RemoveWriter ELSE KeepWriter
  /\ IF ~closing /\ ~paused THEN RemoveReader ELSE KeepReader

-----------------------------------------------------------------------------
(* _read_ready()                                                           *)

CallRead == at = "loop" /\ rdQueued /\ rdQueued' = FALSE

ReadMessage ==
  /\ CallRead
  /\ inbox > 0
  /\ inbox' = inbox - 1
  /\ delivered' = delivered + 1
  /\ at' = "msg"
  /\ UNCHANGED <<queueVars, flowVars, paused, lifeVars, lost, faults, room, ready,
                 readerOn, writerOn, wrQueued>>

ReadInterrupted ==
  /\ CallRead
  /\ UNCHANGED <<baseVars, readerOn, writerOn, wrQueued, at>>

ReadFails ==
  /\ at = "loop" /\ rdQueued
  /\ ForceClose("lost_exc")
  /\ Unregister
  /\ UNCHANGED <<paused, lost, faults, recvVars, room, at>>

HandlerReturns ==
  /\ at = "msg"
  /\ at' = "loop"
  /\ UNCHANGED <<baseVars, pollVars>>

-----------------------------------------------------------------------------
(* _write_ready()                                                          *)

CallWrite == at = "loop" /\ wrQueued

SendOk ==
  /\ CallWrite
  /\ SendHead
  /\ wrQueued' = FALSE
  /\ at' = IF ResumesProtocol THEN "resume" ELSE "wrote"
  /\ UNCHANGED <<paused, lifeVars, lost, faults, recvVars, ready,
                 readerOn, writerOn, rdQueued>>

SendAgain ==
  /\ CallWrite /\ buffer # <<>>
  /\ wrQueued' = FALSE
  /\ UNCHANGED <<baseVars, readerOn, writerOn, rdQueued, at>>

SendFails ==
  /\ CallWrite /\ buffer # <<>>
  /\ ForceClose("lost_exc")
  /\ Unregister
  /\ UNCHANGED <<paused, lost, faults, recvVars, room, at>>

ResumeReturns ==
  /\ at = "resume"
  /\ at' = "wrote"
  /\ UNCHANGED <<baseVars, pollVars>>

\* Slip: the writer stays when the transport is not closing.
WroteAllKeepingWriter ==
  /\ at = "wrote" /\ buffer = <<>>
  /\ at' = "loop"
  /\ IF closing THEN RemoveWriter ELSE KeepWriter
  /\ lost' = IF closing THEN "None" ELSE lost
  /\ UNCHANGED <<queueVars, flowVars, paused, lifeVars, faults, recvVars, room, ready,
                 readerOn, rdQueued>>

\* The buffer ran empty: the writer goes, and a closing transport is done.
WroteAll ==
  /\ at = "wrote" /\ buffer = <<>>
  /\ at' = "loop"
  /\ RemoveWriter
  /\ lost' = IF closing THEN "None" ELSE lost
  /\ UNCHANGED <<queueVars, flowVars, paused, lifeVars, faults, recvVars, room, ready,
                 readerOn, rdQueued>>

WroteSome ==
  /\ at = "wrote" /\ buffer # <<>>
  /\ at' = "loop"
  /\ UNCHANGED <<baseVars, pollVars>>

-----------------------------------------------------------------------------
(* The application.  Calls that raise or return without a state change are *)
(* left out.                                                               *)

MayCall(op) == at # "loop" => <<at, op>> \in Nested

WriteSent ==
  /\ MayCall("write")
  /\ SendAtOnce
  /\ UNCHANGED <<paused, lifeVars, lost, faults, recvVars, ready, pollVars, at>>

WriteBehind ==
  /\ MayCall("write")
  /\ buffer # <<>>
  /\ Enqueue
  /\ UNCHANGED <<paused, lifeVars, lost, faults, recvVars, ready, pollVars, at>>

\* Slip: the writer is not registered.
WriteAgainUnregistered ==
  /\ MayCall("write")
  /\ buffer = <<>>
  /\ Enqueue
  /\ UNCHANGED <<paused, lifeVars, lost, faults, recvVars, ready, pollVars, at>>

\* write() that gets EAGAIN or EINTR: the writer is registered.
WriteAgain ==
  /\ MayCall("write")
  /\ buffer = <<>>
  /\ Enqueue
  /\ writerOn' = TRUE
  /\ UNCHANGED <<paused, lifeVars, lost, faults, recvVars, ready, readerOn,
                 rdQueued, wrQueued, at>>

WriteFails ==
  /\ MayCall("fail")
  /\ buffer = <<>> /\ ~Detached
  /\ ForceClose("lost_exc")
  /\ Unregister
  /\ UNCHANGED <<paused, lost, faults, recvVars, room, at>>

WriteDetached ==
  /\ MayCall("write")
  /\ Detached /\ ~connLost
  /\ Fault("write")
  /\ UNCHANGED <<queueVars, flowVars, paused, lifeVars, lost, recvVars, room, ready,
                 pollVars, at>>

Close ==
  /\ MayCall("close")
  /\ StartClose
  /\ IF paused THEN KeepReader ELSE RemoveReader
  /\ KeepWriter
  /\ UNCHANGED <<queueVars, flowVars, paused, lost, faults, recvVars, room, at>>

Abort ==
  /\ MayCall("abort")
  /\ ~Detached
  /\ ForceClose("lost_none")
  /\ Unregister
  /\ UNCHANGED <<paused, lost, faults, recvVars, room, at>>

\* _conn_lost is counted before call_soon() is looked up on None.
AbortDetached ==
  /\ MayCall("abort")
  /\ Detached /\ ~connLost
  /\ connLost' = TRUE
  /\ Fault("abort")
  /\ UNCHANGED <<queueVars, flowVars, paused, closing, failed, lost, recvVars, room,
                 ready, pollVars, at>>

PauseReading ==
  /\ MayCall("pause")
  /\ ~closing /\ ~paused
  /\ paused' = TRUE
  /\ RemoveReader
  /\ UNCHANGED <<queueVars, flowVars, lifeVars, lost, faults, recvVars, room, ready,
                 writerOn, wrQueued, at>>

\* Slip: resume_reading() of a closing transport registers the reader.
ResumeReadingAlways ==
  /\ MayCall("resume")
  /\ paused
  /\ paused' = FALSE
  /\ readerOn' = TRUE
  /\ UNCHANGED <<queueVars, flowVars, lifeVars, lost, faults, recvVars, room, ready,
                 writerOn, rdQueued, wrQueued, at>>

ResumeReading ==
  /\ MayCall("resume")
  /\ paused
  /\ paused' = FALSE
  /\ readerOn' = (readerOn \/ ~closing)
  /\ UNCHANGED <<queueVars, flowVars, lifeVars, lost, faults, recvVars, room, ready,
                 writerOn, rdQueued, wrQueued, at>>

SetLimits ==
  /\ MayCall("limits")
  /\ \E l \in Limits : NewLimits(l)
  /\ UNCHANGED <<queueVars, paused, lifeVars, lost, faults, recvVars, room, ready,
                 pollVars, at>>

-----------------------------------------------------------------------------
Callback == \/ ReadMessage \/ ReadInterrupted \/ ReadFails
            \/ SendOk \/ SendAgain \/ SendFails

Loop == Select \/ RunLost \/ Callback

App == \/ WriteSent \/ WriteBehind \/ WriteAgain \/ WriteFails \/ WriteDetached
       \/ Close \/ Abort \/ AbortDetached
       \/ PauseReading \/ ResumeReading \/ SetLimits

Next == \/ Loop \/ HandlerReturns \/ ResumeReturns \/ WroteAll \/ WroteSome
        \/ App \/ Arrive \/ PeerReads

Spec == Init /\ [][Next]_vars

\* The loop keeps running its callbacks and polling, calls return, peers
\* read, and EINTR does not come for ever.  The application owes nothing.
Fairness ==
  /\ WF_vars(Select) /\ WF_vars(RunLost) /\ WF_vars(Callback)
  /\ WF_vars(HandlerReturns) /\ WF_vars(ResumeReturns)
  /\ WF_vars(WroteAll \/ WroteSome)
  /\ WF_vars(PeerReads)
  /\ SF_vars(ReadMessage) /\ SF_vars(SendOk)

FairSpec == Spec /\ Fairness

-----------------------------------------------------------------------------
(* Safety.                                                                 *)

\* The reader is registered exactly while messages are wanted: a reader left
\* behind delivers after close(), or spins; a missing one starves the protocol.
ReaderMatches == readerOn <=> ~paused /\ ~closing

\* The writer is registered exactly while there is a backlog: without it the
\* backlog is stuck, with it and no backlog the loop spins into the assertion
\* of _write_ready().
WriterMatches == at \in {"loop", "msg"} => (writerOn <=> buffer # <<>>)

\* Between callbacks, what is polled is what is owed; and no callback is
\* queued that finds nothing: assert self._buffer, "Data should not be empty".
Registered == ReaderMatches /\ WriterMatches /\ (wrQueued => buffer # <<>>)

\* Nothing fails on a cleared attribute but write() and abort() of an
\* application that does not know the transport is gone.
OnlyLateCallsFault == faults \subseteq {"write", "abort"}

\* However the connection ends -- queued, after a flush, forced, or one on top
\* of the other -- it ends with the right argument, and nothing queued before
\* runs into cleared attributes.
EndsInOrder == LostArgTruthful /\ OnlyLateCallsFault

\* The outbound books, whatever callbacks do in the middle of a flush: order,
\* size of the buffer, and a backlog behind every paused protocol.
Books == TypeOK /\ OutboundFifo /\ BufferSizeExact /\ PausedHasBacklog

\* A detached transport is out of the selector, and it and its protocol are
\* left alone for good.
NothingAfterLost ==
  [][Detached => UNCHANGED <<accepted, sent, delivered, lost, readerOn, writerOn>>]_vars

Phase == IF Detached THEN "lost"
         ELSE IF ~closing THEN "open"
         ELSE IF connLost /\ Len(sent) < accepted THEN "aborted"
         ELSE "draining"

Contract == INSTANCE TransportContract WITH phase <- Phase

\* The transport keeps the promises of the interface.
ContractSpec == Contract!Spec

-----------------------------------------------------------------------------
(* Liveness, of FairSpec.                                                  *)

\* Every message that arrives is handed over, unless reading is paused or
\* the transport closed.
MessagesDelivered ==
  \A n \in 1..MaxIn : inbox + delivered >= n ~> delivered >= n \/ paused \/ closing

\* What write() accepted goes out, unless the transport is forced to close.
WritesFlushed ==
  \A n \in 1..MaxWrites : accepted >= n ~> Len(sent) >= n \/ connLost

\* A paused protocol is resumed, unless the transport is forced to close.
ProtocolResumed == protoPaused ~> ~protoPaused \/ connLost

\* close(), abort() and fatal errors all end in connection_lost().
CloseCompletes == closing ~> Detached

\* All of it together: what the loop owes, through every registration and
\* removal of reader and writer.
Progress ==
  MessagesDelivered /\ WritesFlushed /\ ProtocolResumed /\ CloseCompletes

=============================================================================
