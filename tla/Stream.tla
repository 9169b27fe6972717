------------------------------- MODULE Stream -------------------------------
(***************************************************************************)
(* ZmqStream and ZmqStreamProtocol (aiozmq/stream.py): reading and writing *)
(* messages from coroutines.  The protocol's callbacks run in callbacks of *)
(* the loop, read() and drain() in tasks.  A task that waits does so on a  *)
(* future that the stream remembers; completing the future only schedules  *)
(* the task, so anything may happen before it runs.                        *)
(*                                                                         *)
(* The transport is what the stream sees of it: it hands over messages     *)
(* unless reading is paused, pauses and resumes the writing, is closed,    *)
(* and calls connection_lost() once.  What its implementations promise is  *)
(* shown in LooplessTransport and ZmqTransport; kind says which of them it *)
(* is: a loopless transport may hand over messages while it closes, and    *)
(* so its connection_lost() may run ahead of tasks woken before: after a   *)
(* flush it is not queued at all, and after an error a _read_ready() that  *)
(* was queued before it may still wake somebody.                           *)
(*                                                                         *)
(* Messages are numbered in the order of their arrival; Bytes[k] is the    *)
(* total length of the first k.                                            *)
(***************************************************************************)
EXTENDS Naturals, Sequences

CONSTANTS Readers,   \* tasks that call read()
          Drainers,  \* tasks that call drain()
          Nobody,    \* None, as a task
          MaxIn,     \* bound: messages the transport hands over
          Bytes,
          Limits,    \* water marks set_read_buffer_limits() is called with
          Kinds      \* which transports: "zmq", "loopless"

ASSUME TasksAssumption == Nobody \notin Readers \cup Drainers

ASSUME StreamAssumption ==
  /\ MaxIn \in Nat
  /\ Bytes \in [0..MaxIn -> Nat]
  /\ Bytes[0] = 0
  /\ \A j, k \in 0..MaxIn : j <= k => Bytes[j] <= Bytes[k]
  /\ Limits \subseteq [low : Nat, high : Nat]
  /\ Limits # {}
  /\ \A l \in Limits : l.low <= l.high
  /\ Kinds \subseteq {"zmq", "loopless"}

VARIABLES queue,        \* _queue
          queueLen,     \* _queue_len
          low,          \* _low_water
          high,         \* _high_water
          waiter,       \* whose future _waiter is
          rd,           \* where the calls of read() are
          paused,       \* _paused of the stream
          closing,      \* _closing of the stream; its _transport is None
          exception,    \* _exception is not None
          writePaused,  \* _paused of the protocol
          drainWaiter,  \* whose future _drain_waiter is
          dr,           \* where the calls of drain() are
          trPaused,     \* the transport's _paused
          trClosing,    \* the transport's _closing
          fed,          \* how many messages feed_msg() got
          got,          \* what read() returned, in order
          kind,         \* the class of the transport
          faults        \* exceptions nobody asked for

queueVars == <<queue, queueLen, fed, got>>
readVars  == <<low, high, waiter, rd, paused, trPaused>>
lifeVars  == <<closing, exception, trClosing, kind>>
drainVars == <<writePaused, drainWaiter, dr>>
vars      == <<queueVars, readVars, lifeVars, drainVars, faults>>

(* A call is "idle" (not made), "waiting" for its future, or scheduled:    *)
(* "woken" by a result, "raised" by an exception, or "cancelled".          *)
CallState == {"idle", "waiting", "woken", "raised", "cancelled"}

TypeOK ==
  /\ queue \in Seq(1..MaxIn)
  /\ queueLen \in Nat
  /\ low \in Nat /\ high \in Nat /\ low <= high
  /\ waiter \in Readers \cup {Nobody}
  /\ rd \in [Readers -> CallState]
  /\ paused \in BOOLEAN
  /\ closing \in BOOLEAN
  /\ exception \in BOOLEAN
  /\ writePaused \in BOOLEAN
  /\ drainWaiter \in Drainers \cup {Nobody}
  /\ dr \in [Drainers -> CallState]
  /\ trPaused \in BOOLEAN
  /\ trClosing \in BOOLEAN
  /\ kind \in Kinds
  /\ fed \in 0..MaxIn
  /\ got \in Seq(1..MaxIn)
  /\ faults \subseteq {"pause", "read", "limits", "empty", "drain"}

Init ==
  /\ queue = <<>>
  /\ queueLen = 0
  /\ \E l \in Limits : low = l.low /\ high = l.high
  /\ waiter = Nobody
  /\ rd = [r \in Readers |-> "idle"]
  /\ paused = FALSE
  /\ closing = FALSE
  /\ exception = FALSE
  /\ writePaused = FALSE
  /\ drainWaiter = Nobody
  /\ dr = [d \in Drainers |-> "idle"]
  /\ trPaused = FALSE
  /\ trClosing = FALSE
  /\ kind \in Kinds
  /\ fed = 0
  /\ got = <<>>
  /\ faults = {}

Size(m) == Bytes[m] - Bytes[m - 1]

Lost == closing \/ exception

Loopless == kind = "loopless"

Fault(what) == faults' = faults \cup {what}

-----------------------------------------------------------------------------
(* The protocol's callbacks, in callbacks of the loop.                     *)

\* Completing the future of a waiting task; a cancelled one is left alone.
Wake(calls, task, state) ==
  [t \in DOMAIN calls |->
     IF t = task /\ calls[t] = "waiting" THEN state ELSE calls[t]]

\* feed_msg().  pause_reading() of a closing transport raises.
FeedMsg ==
  /\ fed < MaxIn /\ ~Lost /\ ~trPaused
  /\ trClosing => Loopless
  /\ fed' = fed + 1
  /\ queue' = Append(queue, fed')
  /\ queueLen' = queueLen + Size(fed')
  /\ rd' = Wake(rd, waiter, "woken")
  /\ waiter' = Nobody
  /\ IF paused \/ queueLen' <= high
     THEN UNCHANGED <<paused, trPaused, faults>>
     ELSE IF trClosing
     THEN Fault("pause") /\ UNCHANGED <<paused, trPaused>>
     ELSE /\ trPaused' = TRUE
          /\ paused' = TRUE
          /\ UNCHANGED faults
  /\ UNCHANGED <<got, low, high, lifeVars, drainVars>>

\* Slip: the waiting reader is forgotten.
ConnectionClosedSilently ==
  /\ trClosing /\ ~Lost
  /\ Loopless \/ \A r \in Readers : rd[r] # "woken"
  /\ closing' = TRUE
  /\ IF writePaused
     THEN dr' = Wake(dr, drainWaiter, "woken") /\ drainWaiter' = Nobody
     ELSE UNCHANGED <<dr, drainWaiter>>
  /\ UNCHANGED <<queueVars, readVars, exception, trClosing, kind, writePaused, faults>>

\* connection_lost(None): feed_closing(), then the drain waiter.  A call of
\* the loop comes after the tasks that were scheduled before it.
ConnectionClosed ==
  /\ trClosing /\ ~Lost
  /\ Loopless \/ \A r \in Readers : rd[r] # "woken"
  /\ closing' = TRUE
  /\ rd' = Wake(rd, waiter, "raised")
  /\ waiter' = Nobody
  /\ IF writePaused
     THEN dr' = Wake(dr, drainWaiter, "woken") /\ drainWaiter' = Nobody
     ELSE UNCHANGED <<dr, drainWaiter>>
  /\ UNCHANGED <<queueVars, low, high, paused, trPaused, exception, trClosing, kind,
                 writePaused, faults>>

\* Slip: the drain waiter is left alone.
ConnectionFailedNotDrained ==
  /\ ~Lost
  /\ Loopless \/ \A r \in Readers : rd[r] # "woken"
  /\ exception' = TRUE
  /\ trClosing' = TRUE
  /\ rd' = Wake(rd, waiter, "raised")
  /\ waiter' = Nobody
  /\ UNCHANGED <<queueVars, low, high, paused, trPaused, closing, kind, drainVars, faults>>

\* connection_lost(exc): set_exception(), then the drain waiter.  _transport stays.
\* The _read_ready() that a loopless transport has queued may wake a reader after
\* connection_lost() was queued.
ConnectionFailed ==
  /\ ~Lost
  /\ Loopless \/ \A r \in Readers : rd[r] # "woken"
  /\ exception' = TRUE
  /\ trClosing' = TRUE
  /\ rd' = Wake(rd, waiter, "raised")
  /\ waiter' = Nobody
  /\ IF writePaused
     THEN dr' = Wake(dr, drainWaiter, "raised") /\ drainWaiter' = Nobody
     ELSE UNCHANGED <<dr, drainWaiter>>
  /\ UNCHANGED <<queueVars, low, high, paused, trPaused, closing, kind, writePaused,
                 faults>>

\* The transport resumes what it paused; not after a forced close.
PauseWriting ==
  /\ ~writePaused /\ ~Lost
  /\ writePaused' = TRUE
  /\ UNCHANGED <<queueVars, readVars, lifeVars, drainWaiter, dr, faults>>

ResumeWriting ==
  /\ writePaused /\ ~Lost
  /\ writePaused' = FALSE
  /\ dr' = Wake(dr, drainWaiter, "woken")
  /\ drainWaiter' = Nobody
  /\ UNCHANGED <<queueVars, readVars, lifeVars, faults>>

\* close() of the stream, or close() or abort() of its transport.
Close ==
  /\ ~trClosing
  /\ trClosing' = TRUE
  /\ UNCHANGED <<queueVars, readVars, closing, exception, kind, drainVars, faults>>

-----------------------------------------------------------------------------
(* read()                                                                  *)

\* Slip: the stream is resumed strictly below the low-water mark.
MaybeResumeBelow(site) ==
  IF paused /\ queueLen' < low'
  THEN /\ paused' = FALSE
       /\ IF closing
          THEN Fault(site) /\ UNCHANGED trPaused
          ELSE trPaused' = FALSE /\ UNCHANGED faults
  ELSE UNCHANGED <<paused, trPaused, faults>>

\* _maybe_resume_transport(): on a closed stream there is no transport left
\* to resume, and the message in hand is gone with the exception; one that
\* failed has its transport, which only clears _paused when it is closing.
MaybeResume(site) ==
  IF paused /\ queueLen' <= low'
  THEN /\ paused' = FALSE
       /\ IF closing
          THEN Fault(site) /\ UNCHANGED trPaused
          ELSE trPaused' = FALSE /\ UNCHANGED faults
  ELSE UNCHANGED <<paused, trPaused, faults>>

\* Slip: _queue_len is not updated.
PopMsgOnly ==
  /\ queue # <<>>
  /\ queue' = Tail(queue)
  /\ UNCHANGED queueLen
  /\ UNCHANGED <<fed, low, high>>
  /\ MaybeResume("read")
  /\ got' = IF paused /\ ~paused' /\ closing THEN got ELSE Append(got, Head(queue))

\* The end of read().
PopMsg ==
  /\ queue # <<>>
  /\ queue' = Tail(queue)
  /\ queueLen' = queueLen - Size(Head(queue))
  /\ UNCHANGED <<fed, low, high>>
  /\ MaybeResume("read")
  /\ got' = IF paused /\ ~paused' /\ closing THEN got ELSE Append(got, Head(queue))

\* read() that finds data.
ReadAtOnce(r) ==
  /\ rd[r] = "idle" /\ ~Lost
  /\ queueLen > 0
  /\ PopMsg
  /\ UNCHANGED <<waiter, rd, lifeVars, drainVars>>

\* read() that waits; it refuses to while another call does.
ReadWait(r) ==
  /\ rd[r] = "idle" /\ ~Lost
  /\ queueLen = 0
  /\ waiter = Nobody
  /\ waiter' = r
  /\ rd' = [rd EXCEPT ![r] = "waiting"]
  /\ UNCHANGED <<queueVars, low, high, paused, trPaused, lifeVars, drainVars, faults>>

\* The task of a woken read() runs.
ReadWoken(r) ==
  /\ rd[r] = "woken"
  /\ rd' = [rd EXCEPT ![r] = "idle"]
  /\ waiter' = Nobody
  /\ \/ PopMsg
     \/ queue = <<>> /\ Fault("empty") /\ UNCHANGED <<queueVars, low, high, paused, trPaused>>
  /\ UNCHANGED <<lifeVars, drainVars>>

\* The task of a read() whose future was failed or cancelled runs.
ReadRaises(r) ==
  /\ rd[r] \in {"raised", "cancelled"}
  /\ rd' = [rd EXCEPT ![r] = "idle"]
  /\ waiter' = Nobody
  /\ UNCHANGED <<queueVars, low, high, paused, trPaused, lifeVars, drainVars, faults>>

\* The task is cancelled, by a timeout for instance.
CancelRead(r) ==
  /\ rd[r] \in {"waiting", "woken"}
  /\ rd' = [rd EXCEPT ![r] = "cancelled"]
  /\ UNCHANGED <<queueVars, low, high, waiter, paused, trPaused, lifeVars, drainVars, faults>>

\* set_read_buffer_limits()
SetLimits ==
  /\ \E l \in Limits : low' = l.low /\ high' = l.high
  /\ UNCHANGED <<queueVars, waiter, rd, lifeVars, drainVars>>
  /\ MaybeResume("limits")

-----------------------------------------------------------------------------
(* drain()                                                                 *)

\* The future _drain_waiter was cancelled, or its task is about to be told.
DrainFree == drainWaiter # Nobody => dr[drainWaiter] \in {"cancelled", "idle"}

DrainWait(d) ==
  /\ dr[d] = "idle" /\ ~Lost
  /\ writePaused
  /\ DrainFree
  /\ drainWaiter' = d
  /\ dr' = [dr EXCEPT ![d] = "waiting"]
  /\ UNCHANGED <<queueVars, readVars, lifeVars, writePaused, faults>>

\* assert waiter is None or waiter.cancelled()
DrainAsserts(d) ==
  /\ dr[d] = "idle" /\ ~Lost
  /\ writePaused
  /\ ~DrainFree
  /\ Fault("drain")
  /\ UNCHANGED <<queueVars, readVars, lifeVars, drainVars>>

DrainEnds(d) ==
  /\ dr[d] \in {"woken", "raised", "cancelled"}
  /\ dr' = [dr EXCEPT ![d] = "idle"]
  /\ UNCHANGED <<queueVars, readVars, lifeVars, writePaused, drainWaiter, faults>>

CancelDrain(d) ==
  /\ dr[d] \in {"waiting", "woken"}
  /\ dr' = [dr EXCEPT ![d] = "cancelled"]
  /\ UNCHANGED <<queueVars, readVars, lifeVars, writePaused, drainWaiter, faults>>

-----------------------------------------------------------------------------
Transport == \/ FeedMsg \/ ConnectionClosed \/ ConnectionFailed
             \/ PauseWriting \/ ResumeWriting \/ Close

ReadStep(r)  == ReadAtOnce(r) \/ ReadWait(r) \/ ReadWoken(r) \/ ReadRaises(r)
DrainStep(d) == DrainWait(d) \/ DrainAsserts(d) \/ DrainEnds(d)

Next == \/ Transport
        \/ SetLimits
        \/ \E r \in Readers : ReadStep(r) \/ CancelRead(r)
        \/ \E d \in Drainers : DrainStep(d) \/ CancelDrain(d)

Spec == Init /\ [][Next]_vars

\* Scheduled tasks run, the readers keep reading, a message that arrived is
\* handed over and a closed transport loses the connection.
Fairness ==
  /\ \A r \in Readers : WF_vars(ReadStep(r))
  /\ \A d \in Drainers : WF_vars(DrainEnds(d))
  /\ WF_vars(FeedMsg)
  /\ WF_vars(ConnectionClosed)

FairSpec == Spec /\ Fairness

-----------------------------------------------------------------------------
(* Safety.                                                                 *)

\* What read() returned, then what waits, is what arrived, in order: also
\* when readers are cancelled just after they were woken, or steal from each
\* other (read, feed_msg). Only a read() that fails on a transport that is
\* gone takes a message with it, and then nothing arrives out of order.
InboundFifo ==
  /\ "read" \notin faults => got \o queue = [k \in 1..fed |-> k]
  /\ \A i, j \in 1..(Len(got) + Len(queue)) :
       i < j => (got \o queue)[i] < (got \o queue)[j]

\* _queue_len is the length of what waits, whatever the order of reads and
\* feeds: read() decides by it whether there is data.
QueueLenExact == queueLen = Bytes[fed] - Bytes[fed - Len(queue)]

\* A waiting read() can be woken: the stream knows its future, and neither
\* the end of the connection nor a message passed it by.
ReaderKnown ==
  \A r \in Readers : rd[r] = "waiting" => waiter = r /\ ~Lost

\* read() does not wait for data that is there.
WaitsForData == \A r \in Readers : rd[r] = "waiting" => queue = <<>>

\* The stream and its transport agree on who is paused, and a paused stream
\* holds more than its low-water mark: the reads to come will resume it.
PausedHasData ==
  ~Lost => (paused <=> trPaused) /\ (paused => queueLen > low)

\* The queue, its length, and the two flow controls it stands between are in
\* step, through every order of feeds, reads and cancellations.
Books == TypeOK /\ InboundFifo /\ QueueLenExact /\ PausedHasData

\* A waiting drain() can be woken: the protocol is paused, so the transport
\* owes it a resume_writing() or a connection_lost().
DrainerKnown ==
  \A d \in Drainers : dr[d] = "waiting" => drainWaiter = d /\ writePaused /\ ~Lost

\* A woken read() finds its message, also when connection_lost(exc) ran ahead of
\* its task; and no message is lost in read(), which a loopless transport cannot
\* promise when it closes: it loses the connection ahead of the tasks it has woken
\* (read, feed_closing, set_exception, _maybe_resume_transport).
ReadsSucceed == faults \cap (IF Loopless THEN {"empty"} ELSE {"empty", "read"}) = {}

\* Whoever waits on the stream, for a message or to write, waits for what will
\* come and is known to what will wake him; and who was woken finds what he was
\* woken for.
WaitersKnown == ReaderKnown /\ WaitsForData /\ DrainerKnown /\ ReadsSucceed

\* drain() never fails its assertion.
DrainNeverAsserts == "drain" \notin faults

-----------------------------------------------------------------------------
(* What the stream promises to those who read it.                          *)

Blocked == {r \in Readers : rd[r] = "waiting"}
Due     == {r \in Readers : rd[r] = "woken"}

HeldBack == trPaused /\ ~Lost

Contract == INSTANCE StreamContract WITH
  arrived <- fed, unread <- queue, returned <- got, heldBack <- HeldBack, ended <- Lost,
  blocked <- Blocked, due <- Due

\* Of lengths, water marks, two flags for one pause and futures, those who read see
\* only that the transport is held back while there is something to read, and
\* that they are woken when there is (feed_msg, read, _maybe_resume_transport,
\* feed_closing, set_exception).
ContractSpec == Contract!Spec

-----------------------------------------------------------------------------
(* Liveness, of FairSpec.                                                  *)

\* With somebody reading, every message is read, and a transport that was
\* paused by feed_msg() is resumed to hand over the next one, however small
\* the marks, unless the connection ends.
MessagesRead ==
  /\ \A n \in 1..MaxIn : fed >= n ~> Len(got) >= n \/ Lost
  /\ trPaused ~> ~trPaused \/ Lost

\* Nobody waits for ever on a closed stream.
ReadersReleased == \A r \in Readers : closing ~> rd[r] = "idle"

\* Whoever goes on reading comes to every message, or to the end of the connection.
Progress == MessagesRead /\ ReadersReleased

=============================================================================
