--------------------------- MODULE BaseTransport ---------------------------
(***************************************************************************)
(* _BaseTransport (aiozmq/core.py): the state every ZeroMQ transport       *)
(* keeps, and the part of write(), close(), abort(), the flow control and  *)
(* connection_lost() that does not depend on how the transport learns that *)
(* its socket is ready.  ZmqTransport and LooplessTransport extend this    *)
(* module, as _ZmqTransportImpl and _ZmqLooplessTransportImpl extend the   *)
(* class, and add the readiness machinery and the control flow.            *)
(*                                                                         *)
(* Abstractions.  A message is its number in the order of the write()      *)
(* calls; its length is Size(m).  The transport is modelled from the       *)
(* moment connection_made() has run.  pause_writing() and                  *)
(* connection_lost() of the protocol do not call the transport back;       *)
(* msg_received() and resume_writing() may.                                *)
(***************************************************************************)
EXTENDS Naturals, Sequences

CONSTANTS MaxWrites,  \* bound: messages the application writes
          MaxIn,      \* bound: messages the peers send
          MaxRoom,    \* bound: messages the socket takes before EAGAIN
          Bytes,      \* Bytes[k]: total length of the first k messages
          Limits      \* water marks set_write_buffer_limits() is called with

ASSUME BoundAssumption ==
  /\ MaxWrites \in Nat
  /\ MaxIn \in Nat
  /\ MaxRoom \in Nat \ {0}

ASSUME BytesAssumption ==
  /\ Bytes \in [0..MaxWrites -> Nat]
  /\ Bytes[0] = 0
  /\ \A j, k \in 0..MaxWrites : j <= k => Bytes[j] <= Bytes[k]

\* _set_write_buffer_limits() refuses anything else.
ASSUME LimitsAssumption ==
  /\ Limits \subseteq [low : Nat, high : Nat]
  /\ Limits # {}
  /\ \A l \in Limits : l.low <= l.high

VARIABLES buffer,       \* _buffer
          bufSize,      \* _buffer_size
          low,          \* _low_water
          high,         \* _high_water
          protoPaused,  \* _protocol_paused
          paused,       \* _paused
          closing,      \* _closing
          connLost,     \* _conn_lost > 0
          lost,         \* argument connection_lost() was called with
          failed,       \* a fatal error closed the transport
          faults,       \* where an AttributeError on None escaped
          inbox,        \* messages waiting in the socket's pipes
          room,         \* messages the socket still takes
          accepted,     \* messages write() sent or buffered
          sent,         \* what the socket took, in order
          delivered,    \* messages passed to msg_received()
          ready         \* callbacks queued by call_soon(), in order

queueVars  == <<buffer, bufSize, accepted, sent>>
flowVars   == <<low, high, protoPaused>>
lifeVars   == <<closing, connLost, failed>>
recvVars   == <<inbox, delivered>>
baseVars   == <<queueVars, flowVars, paused, lifeVars, lost, faults,
                recvVars, room, ready>>

Size(m) == Bytes[m] - Bytes[m - 1]

\* connection_lost() was called: _zmq_sock, _protocol and _loop are None.
Detached == lost # "no"

LostCalls == {"lost_none", "lost_exc"}

BaseTypeOK ==
  /\ buffer \in Seq(1..MaxWrites)
  /\ bufSize \in Nat
  /\ low \in Nat /\ high \in Nat /\ low <= high
  /\ protoPaused \in BOOLEAN
  /\ paused \in BOOLEAN
  /\ closing \in BOOLEAN
  /\ connLost \in BOOLEAN
  /\ lost \in {"no", "None", "exc"}
  /\ failed \in BOOLEAN
  /\ faults \subseteq {"post", "wrote", "write", "abort", "lost"}
  /\ inbox \in 0..MaxIn
  /\ room \in 0..MaxRoom
  /\ accepted \in 0..MaxWrites
  /\ sent \in Seq(1..MaxWrites)
  /\ delivered \in 0..MaxIn
  /\ inbox + delivered <= MaxIn

BaseInit ==
  /\ buffer = <<>>
  /\ bufSize = 0
  /\ \E l \in Limits : low = l.low /\ high = l.high
  /\ protoPaused = FALSE
  /\ paused = FALSE
  /\ closing = FALSE
  /\ connLost = FALSE
  /\ lost = "no"
  /\ failed = FALSE
  /\ faults = {}
  /\ room = MaxRoom
  /\ accepted = 0
  /\ sent = <<>>
  /\ delivered = 0
  /\ ready = <<>>

-----------------------------------------------------------------------------
(* Operations gone wrong, as a slip in the code would have them: what the  *)
(* properties below are tried against.  No specification uses them.        *)

\* The test that nothing is waiting is missing.
SendAtOnceOvertaking ==
  /\ ~connLost /\ ~Detached
  /\ accepted < MaxWrites
  /\ room > 0
  /\ room' = room - 1
  /\ accepted' = accepted + 1
  /\ sent' = Append(sent, accepted')
  /\ UNCHANGED <<buffer, bufSize, flowVars>>

\* The protocol is resumed strictly below the low-water mark.
MaybeResumeProtocolBelow(size, mark) == protoPaused' = (protoPaused /\ size >= mark)

\* The buffer is cleared, its size is not.
ForceCloseKeepsSize(call) ==
  /\ ~connLost
  /\ buffer' = <<>>
  /\ closing' = TRUE
  /\ connLost' = TRUE
  /\ ready' = Append(ready, call)
  /\ failed' = (failed \/ call = "lost_exc")
  /\ UNCHANGED <<bufSize, accepted, sent, flowVars>>

\* The exception is not passed on.
ForceCloseWithNone(call) ==
  /\ ~connLost
  /\ buffer' = <<>>
  /\ bufSize' = 0
  /\ closing' = TRUE
  /\ connLost' = TRUE
  /\ ready' = Append(ready, "lost_none")
  /\ failed' = (failed \/ call = "lost_exc")
  /\ UNCHANGED <<accepted, sent, flowVars>>

\* connection_lost() does not wait for the backlog.
StartCloseUnflushed ==
  /\ ~closing
  /\ closing' = TRUE
  /\ connLost' = (connLost \/ buffer = <<>>)
  /\ ready' = Append(ready, "lost_none")
  /\ UNCHANGED failed

\* The marks are swapped.
NewLimitsSwapped(l) ==
  /\ low' = l.high
  /\ high' = l.low
  /\ protoPaused' = (protoPaused \/ bufSize > l.low)

-----------------------------------------------------------------------------
(* The parts of the operations.                                            *)

\* _maybe_pause_protocol() and _maybe_resume_protocol()
MaybePauseProtocol(size, mark)  == protoPaused' = (protoPaused \/ size > mark)
MaybeResumeProtocol(size, mark) == protoPaused' = (protoPaused /\ size > mark)

\* write(): nothing waits and the socket takes the message.
SendAtOnce ==
  /\ ~connLost /\ ~Detached
  /\ buffer = <<>>
  /\ accepted < MaxWrites
  /\ room > 0
  /\ room' = room - 1
  /\ accepted' = accepted + 1
  /\ sent' = Append(sent, accepted')
  /\ UNCHANGED <<buffer, bufSize, flowVars>>

\* write(): the message joins the buffer.
Enqueue ==
  /\ ~connLost /\ ~Detached
  /\ accepted < MaxWrites
  /\ accepted' = accepted + 1
  /\ buffer' = Append(buffer, accepted')
  /\ bufSize' = bufSize + Size(accepted')
  /\ MaybePauseProtocol(bufSize', high)
  /\ UNCHANGED <<sent, low, high, room>>

\* The socket takes the head of the buffer.
SendHead ==
  /\ buffer # <<>>
  /\ room > 0
  /\ room' = room - 1
  /\ sent' = Append(sent, Head(buffer))
  /\ buffer' = Tail(buffer)
  /\ bufSize' = bufSize - Size(Head(buffer))
  /\ MaybeResumeProtocol(bufSize', low)
  /\ UNCHANGED <<accepted, low, high>>

ResumesProtocol == protoPaused /\ ~protoPaused'

\* _force_close(exc), after its early return.
ForceClose(call) ==
  /\ ~connLost
  /\ buffer' = <<>>
  /\ bufSize' = 0
  /\ closing' = TRUE
  /\ connLost' = TRUE
  /\ ready' = Append(ready, call)
  /\ failed' = (failed \/ call = "lost_exc")
  /\ UNCHANGED <<accepted, sent, flowVars>>

\* close(): the backlog, if any, is flushed first.
StartClose ==
  /\ ~closing
  /\ closing' = TRUE
  /\ connLost' = (connLost \/ buffer = <<>>)
  /\ ready' = IF buffer = <<>> THEN Append(ready, "lost_none") ELSE ready
  /\ UNCHANGED failed

\* set_write_buffer_limits(high, low)
NewLimits(l) ==
  /\ low' = l.low
  /\ high' = l.high
  /\ MaybePauseProtocol(bufSize, l.high)

\* An operation on a transport that let go of its socket and loop without
\* counting _conn_lost: AttributeError.
Fault(site) == faults' = faults \cup {site}

\* The queued _call_connection_lost(exc).
CallConnectionLost(call) ==
  IF Detached
  THEN Fault("lost") /\ UNCHANGED lost
  ELSE /\ lost' = IF call = "lost_exc" THEN "exc" ELSE "None"
       /\ UNCHANGED faults

-----------------------------------------------------------------------------
(* Properties both transports are held to.                                 *)

\* No message is lost, repeated or reordered between write() and the socket:
\* what was sent, followed by the buffer, is what write() accepted, in order;
\* only a forced close drops the buffer (write, _do_send, _write_ready,
\* _do_write, _force_close).
OutboundFifo ==
  /\ \A i \in 1..Len(sent) : sent[i] = i
  /\ \A i \in 1..Len(buffer) : buffer[i] = Len(sent) + i
  /\ connLost => buffer = <<>>
  /\ ~connLost => accepted = Len(sent) + Len(buffer)
  /\ connLost => Len(sent) <= accepted

\* _buffer_size is the length of what is in _buffer, whatever the order of
\* sends, partial flushes and aborts: the water marks compare the real size.
BufferSizeExact ==
  bufSize = Bytes[Len(sent) + Len(buffer)] - Bytes[Len(sent)]

\* pause_writing() is owed a resume_writing(), and only a flush gives it: a
\* paused protocol of a live transport always has a backlog to be flushed,
\* even when the water marks are moved while it is paused.
PausedHasBacklog == protoPaused /\ ~connLost => buffer # <<>>

\* The variables of the outbound queue have their types.
QueueType ==
  /\ buffer \in Seq(1..MaxWrites)
  /\ bufSize \in Nat
  /\ accepted \in 0..MaxWrites
  /\ sent \in Seq(1..MaxWrites)
  /\ low \in Nat /\ high \in Nat
  /\ low <= high
  /\ protoPaused \in BOOLEAN
  /\ connLost \in BOOLEAN

\* The inductive invariant of the outbound queue.  OutboundFifo needs
\* nothing else; PausedHasBacklog needs the exact size, to know that the
\* flush that empties the buffer goes below every low-water mark.
QueueInv == QueueType /\ OutboundFifo /\ BufferSizeExact /\ PausedHasBacklog

\* No method trips over the attributes that connection_lost() cleared: a
\* late write() is a logged no-op, a late abort() does nothing.
NoFaults == faults = {}

\* connection_lost() reports an exception exactly when a fatal error closed
\* the transport.
LostArgTruthful == Detached => (lost = "exc" <=> failed)

\* "No more data will be received" after close() or abort() (interface.py).
NoDataAfterClose == [][closing /\ ~failed => delivered' = delivered]_baseVars

=============================================================================
