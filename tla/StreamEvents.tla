---------------------------- MODULE StreamEvents ----------------------------
(***************************************************************************)
(* The half of ZmqStream that keeps the events of a socket monitor         *)
(* (aiozmq/stream.py): event_received() feeds a queue that forgets its     *)
(* oldest event when it is full, read_event() takes from it in a task.     *)
(* The messages of the stream are in module Stream; what the two halves    *)
(* share is the end of the connection.                                     *)
(*                                                                         *)
(* Events are numbered in the order in which the socket has them.          *)
(***************************************************************************)
EXTENDS Naturals, Sequences

CONSTANTS EventReaders,  \* tasks that call read_event()
          NoReader,      \* None, as a task
          MaxEvents,     \* bound: events of the socket
          Backlogs       \* values of events_backlog

ASSUME EventsAssumption ==
  /\ NoReader \notin EventReaders
  /\ MaxEvents \in Nat
  /\ Backlogs \subseteq Nat

VARIABLES evQueue,    \* _event_queue
          evWaiter,   \* whose future _event_waiter is
          er,         \* where the calls of read_event() are
          closing,    \* _closing
          exception,  \* _exception is not None
          backlog,    \* maxlen of the queue
          fed,        \* what feed_event() accepted, in order
          got,        \* what read_event() returned, in order
          emptyReads  \* popleft() of an empty queue

streamVars == <<evQueue, evWaiter, er, closing, exception, backlog, fed, got, emptyReads>>

StreamInit ==
  /\ evQueue = <<>> /\ fed = <<>> /\ got = <<>>
  /\ evWaiter = NoReader
  /\ er = [r \in EventReaders |-> "idle"]
  /\ closing = FALSE /\ exception = FALSE
  /\ backlog \in Backlogs
  /\ emptyReads = FALSE

\* A call is "idle" (not made), "waiting" for its future, or scheduled:
\* "woken" by a result, "raised" by an exception, or "cancelled".
StreamTypeOK ==
  /\ evQueue \in Seq(1..MaxEvents) /\ Len(evQueue) <= backlog
  /\ fed \in Seq(1..MaxEvents) /\ got \in Seq(1..MaxEvents)
  /\ evWaiter \in EventReaders \cup {NoReader}
  /\ er \in [EventReaders -> {"idle", "waiting", "woken", "raised", "cancelled"}]
  /\ {closing, exception, emptyReads} \subseteq BOOLEAN
  /\ backlog \in Backlogs

Last(s, n) == IF Len(s) <= n THEN s ELSE SubSeq(s, Len(s) - n + 1, Len(s))

\* Completing the future that _event_waiter is; a cancelled one is left alone.
WakeReader(state) ==
  /\ er' = [r \in EventReaders |->
              IF r = evWaiter /\ er[r] = "waiting" THEN state ELSE er[r]]
  /\ evWaiter' = NoReader

-----------------------------------------------------------------------------
(* The callbacks of the protocol.                                          *)

\* Slip: a full queue refuses what comes.
FeedEventDroppingNew(e) ==
  IF closing
  THEN UNCHANGED streamVars
  ELSE /\ evQueue' = IF Len(evQueue) < backlog THEN Append(evQueue, e) ELSE evQueue
       /\ fed' = Append(fed, e)
       /\ WakeReader("woken")
       /\ UNCHANGED <<closing, exception, backlog, got, emptyReads>>

\* feed_event(); after feed_closing() its assertion fails. A full deque drops
\* its other end.
FeedEvent(e) ==
  IF closing
  THEN UNCHANGED streamVars
  ELSE /\ evQueue' = Last(Append(evQueue, e), backlog)
       /\ fed' = Append(fed, e)
       /\ WakeReader("woken")
       /\ UNCHANGED <<closing, exception, backlog, got, emptyReads>>

\* Slip: only the reader of messages is told.
FeedClosingSilently ==
  /\ closing' = TRUE
  /\ UNCHANGED <<evQueue, evWaiter, er, exception, backlog, fed, got, emptyReads>>

\* feed_closing()
FeedClosing ==
  /\ closing' = TRUE
  /\ WakeReader("raised")
  /\ UNCHANGED <<evQueue, exception, backlog, fed, got, emptyReads>>

\* set_exception(); the stream is not closing by it.
SetException ==
  /\ exception' = TRUE
  /\ WakeReader("raised")
  /\ UNCHANGED <<evQueue, closing, backlog, fed, got, emptyReads>>

-----------------------------------------------------------------------------
(* read_event(). It looks at _closing and not at _exception, so after      *)
(* set_exception() it waits for what will not come.                        *)

\* The end of read_event(): popleft() raises on an empty deque.
PopEvent ==
  IF evQueue = <<>>
  THEN emptyReads' = TRUE /\ UNCHANGED <<evQueue, got>>
  ELSE /\ evQueue' = Tail(evQueue)
       /\ got' = Append(got, Head(evQueue))
       /\ UNCHANGED emptyReads

ReadEventAtOnce(r) ==
  /\ er[r] = "idle" /\ ~closing
  /\ evQueue # <<>>
  /\ PopEvent
  /\ UNCHANGED <<evWaiter, er, closing, exception, backlog, fed>>

\* It refuses to wait while another call does.
ReadEventWait(r) ==
  /\ er[r] = "idle" /\ ~closing
  /\ evQueue = <<>>
  /\ evWaiter = NoReader
  /\ evWaiter' = r
  /\ er' = [er EXCEPT ![r] = "waiting"]
  /\ UNCHANGED <<evQueue, closing, exception, backlog, fed, got, emptyReads>>

ReadEventWoken(r) ==
  /\ er[r] = "woken"
  /\ er' = [er EXCEPT ![r] = "idle"]
  /\ evWaiter' = NoReader
  /\ PopEvent
  /\ UNCHANGED <<closing, exception, backlog, fed>>

ReadEventRaises(r) ==
  /\ er[r] \in {"raised", "cancelled"}
  /\ er' = [er EXCEPT ![r] = "idle"]
  /\ evWaiter' = NoReader
  /\ UNCHANGED <<evQueue, closing, exception, backlog, fed, got, emptyReads>>

\* The task is cancelled, by a timeout for instance.
CancelReadEvent(r) ==
  /\ er[r] \in {"waiting", "woken"}
  /\ er' = [er EXCEPT ![r] = "cancelled"]
  /\ UNCHANGED <<evQueue, evWaiter, closing, exception, backlog, fed, got, emptyReads>>

ReadEvent(r) ==
  ReadEventAtOnce(r) \/ ReadEventWait(r) \/ ReadEventWoken(r) \/ ReadEventRaises(r)

-----------------------------------------------------------------------------
(* Properties.                                                             *)

\* What waits to be read is the newest of what was fed, and what was read came
\* before it, in order and once: a backlog forgets the oldest (deque(maxlen)),
\* and a reader that is cancelled after its wake-up takes nothing along.
EventOrder ==
  /\ evQueue = Last(fed, Len(evQueue))
  /\ LET Place(e) == CHOOSE k \in 1..Len(fed) : fed[k] = e
         kept == got \o evQueue
     IN \A i, j \in 1..Len(kept) : i < j => Place(kept[i]) < Place(kept[j])

\* A waiting read_event() is the one that feed_event() and the end of the
\* connection will wake, and it waits with nothing to read, on a stream that is
\* not closed; it never wakes up to an empty queue, but without any backlog.
\* Of one reader: see the README for two.
EventReaderServed ==
  /\ \A r \in EventReaders : er[r] = "waiting" => evWaiter = r /\ evQueue = <<>> /\ ~closing
  /\ emptyReads => backlog = 0
=============================================================================
