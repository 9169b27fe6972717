---------------------------- MODULE StreamProofs ----------------------------
(***************************************************************************)
(* Proofs about Stream, for any number and length of messages, water marks,*)
(* readers and drainers, and both kinds of transport: the books of the     *)
(* queue, and that no task waits for what will not come.                   *)
(***************************************************************************)
EXTENDS Stream, SequenceTheorems, TLAPS

-----------------------------------------------------------------------------
(* The books of the queue.                                                 *)

\* How many messages were taken out of the queue.
Taken == fed - Len(queue)

\* What waits is the end of what arrived.
InQueue ==
  /\ Len(queue) <= fed
  /\ \A i \in 1..Len(queue) : queue[i] = Taken + i
  /\ QueueLenExact

\* What was returned comes from before it, and is all of that unless a read()
\* failed with a message in hand.
OutOfQueue ==
  /\ \A i \in 1..Len(got) : got[i] <= Taken
  /\ \A i, j \in 1..Len(got) : i < j => got[i] < got[j]
  /\ "read" \notin faults => Len(got) = Taken /\ \A i \in 1..Len(got) : got[i] = i

BooksInv == TypeOK /\ InQueue /\ OutOfQueue /\ PausedHasData

\* The types of the queue and of the flow control of the transport, the part
\* that changes with messages; the other part, of tasks and connection.
QueueType ==
  /\ queue \in Seq(1..MaxIn) /\ queueLen \in Nat
  /\ low \in Nat /\ high \in Nat /\ low <= high
  /\ paused \in BOOLEAN /\ trPaused \in BOOLEAN
  /\ fed \in 0..MaxIn /\ got \in Seq(1..MaxIn)
  /\ faults \subseteq {"pause", "read", "limits", "empty", "drain"}

TaskType ==
  /\ waiter \in Readers \cup {Nobody} /\ rd \in [Readers -> CallState]
  /\ drainWaiter \in Drainers \cup {Nobody} /\ dr \in [Drainers -> CallState]
  /\ writePaused \in BOOLEAN
  /\ closing \in BOOLEAN /\ exception \in BOOLEAN /\ trClosing \in BOOLEAN
  /\ kind \in Kinds

LEMMA TypeParts == TypeOK <=> QueueType /\ TaskType
BY DEF TypeOK, QueueType, TaskType

LEMMA TypePartsNext == TypeOK' <=> QueueType' /\ TaskType'
BY DEF TypeOK, QueueType, TaskType

\* The invariant says what Books does.
LEMMA InvBooks == BooksInv => Books
<1> SUFFICES ASSUME BooksInv PROVE InboundFifo
  BY DEF BooksInv, Books, InQueue
<1> DEFINE n == Len(got)
           m == Len(queue)
           all == got \o queue
<1>1. /\ queue \in Seq(1..MaxIn) /\ got \in Seq(1..MaxIn) /\ fed \in 0..MaxIn
      /\ n \in Nat /\ m \in Nat /\ m <= fed /\ MaxIn \in Nat
  BY StreamAssumption DEF BooksInv, TypeOK, InQueue
<1>2. /\ all \in Seq(1..MaxIn) /\ Len(all) = n + m
      /\ \A i \in 1..(n + m) : all[i] = IF i <= n THEN got[i] ELSE queue[i - n]
  BY <1>1
<1>3. ASSUME NEW i \in 1..(n + m)
      PROVE  /\ i <= n => i \in 1..n /\ all[i] = got[i]
             /\ i > n => i - n \in 1..m /\ all[i] = fed - m + (i - n)
  <2>1. i <= n => i \in 1..n
    BY <1>1
  <2>2. i > n => i - n \in 1..m
    BY <1>1
  <2> QED BY <1>1, <1>2, <2>1, <2>2 DEF BooksInv, InQueue, Taken
<1>4. ASSUME "read" \notin faults PROVE all = [k \in 1..fed |-> k]
  <2>1. n = fed - m /\ \A i \in 1..n : got[i] = i
    BY <1>4 DEF BooksInv, OutOfQueue, Taken
  <2>2. n + m = fed
    BY <1>1, <2>1
  <2>3. ASSUME NEW i \in 1..fed PROVE all[i] = i
    <3>1. CASE i <= n
      BY <1>3, <2>1, <2>2, <3>1
    <3>2. CASE i > n
      BY <1>1, <1>3, <2>1, <2>2, <3>2
    <3>3. i <= n \/ i > n
      BY <1>1
    <3> QED BY <3>1, <3>2, <3>3
  <2> DEFINE arrived == [k \in 1..fed |-> k]
  <2>4. arrived \in Seq(1..MaxIn) /\ Len(arrived) = fed
    BY <1>1
  <2> HIDE DEF all, arrived
  <2>5. \A i \in 1..fed : all[i] = arrived[i]
    BY <2>3 DEF arrived
  <2>6. all = arrived
    BY <1>1, <1>2, <2>2, <2>4, <2>5, SeqEqual
  <2> QED BY <2>6 DEF arrived
<1>5. ASSUME NEW i \in 1..(n + m), NEW j \in 1..(n + m), i < j
      PROVE  all[i] < all[j]
  <2>1. CASE j <= n
    <3>1. i \in 1..n /\ j \in 1..n /\ all[i] = got[i] /\ all[j] = got[j]
      BY <1>1, <1>3, <1>5, <2>1
    <3> QED BY <1>5, <3>1 DEF BooksInv, OutOfQueue
  <2>2. CASE i <= n /\ j > n
    <3>1. i \in 1..n /\ all[i] = got[i] /\ all[j] = fed - m + (j - n) /\ j - n \in 1..m
      BY <1>3, <2>2
    <3>2. got[i] <= fed - m
      BY <3>1 DEF BooksInv, OutOfQueue, Taken
    <3>3. got[i] \in Nat
      BY <1>1, <3>1
    <3> DEFINE a == all[i]
               b == all[j]
               k == j - n
    <3>4. a <= fed - m /\ a \in Nat /\ b = fed - m + k /\ k \in 1..m
      BY <3>1, <3>2, <3>3
    <3> HIDE DEF m, a, b, k
    <3>5. a < b
      BY <1>1, <3>4
    <3> QED BY <3>5 DEF a, b
  <2>3. CASE i > n /\ j > n
    BY <1>1, <1>3, <1>5, <2>3
  <2> QED BY <1>1, <1>5, <2>1, <2>2, <2>3
<1> QED BY <1>4, <1>5 DEF InboundFifo

LEMMA BooksInit == Init => BooksInv
<1> SUFFICES ASSUME Init PROVE BooksInv
  OBVIOUS
<1>1. PICK l \in Limits : low = l.low /\ high = l.high
  BY DEF Init
<1>2. l.low \in Nat /\ l.high \in Nat /\ l.low <= l.high
  BY StreamAssumption
<1>3. TypeOK
  <2>1. queue \in Seq(1..MaxIn) /\ got \in Seq(1..MaxIn)
    BY DEF Init
  <2>2. /\ low \in Nat /\ high \in Nat /\ low <= high /\ queueLen \in Nat
    BY <1>1, <1>2 DEF Init
  <2>3. /\ fed \in 0..MaxIn /\ faults = {}
        /\ paused \in BOOLEAN /\ trPaused \in BOOLEAN
    <3>1. MaxIn \in Nat
      BY StreamAssumption
    <3>2. fed = 0 /\ faults = {} /\ paused = FALSE /\ trPaused = FALSE
      BY DEF Init
    <3>3. fed \in 0..MaxIn
      BY <3>1, <3>2
    <3> QED BY <3>2, <3>3
  <2>4. TaskType
    BY DEF Init, TaskType, CallState
  <2> QED BY <2>1, <2>2, <2>3, <2>4, TypeParts DEF QueueType
<1>4. InQueue /\ OutOfQueue /\ PausedHasData
  <2>1. /\ fed = 0 /\ queueLen = 0 /\ paused = FALSE /\ trPaused = FALSE
        /\ Len(queue) = 0 /\ Len(got) = 0
    BY DEF Init
  <2>2. Bytes[0] \in Nat
    BY StreamAssumption
  <2>3. QueueLenExact
    BY <2>1, <2>2 DEF QueueLenExact
  <2>4. InQueue
    BY <2>1, <2>3 DEF InQueue
  <2>5. OutOfQueue
    <3>1. Len(got) = 0 /\ Taken = 0
      BY <2>1 DEF Taken
    <3>2. \A i \in 1..Len(got) : FALSE
      BY <3>1
    <3> QED BY <3>1, <3>2 DEF OutOfQueue
  <2>6. PausedHasData
    BY <2>1 DEF PausedHasData
  <2> QED BY <2>4, <2>5, <2>6
<1> QED BY <1>3, <1>4 DEF BooksInv

\* The lengths that QueueLenExact adds up.
LEMMA SizeOf ==
  ASSUME NEW k \in 1..MaxIn
  PROVE  Bytes[k] \in Nat /\ Bytes[k - 1] \in Nat /\ Size(k) \in Nat
         /\ Size(k) = Bytes[k] - Bytes[k - 1]
<1>1. k \in 0..MaxIn /\ k - 1 \in 0..MaxIn /\ k - 1 <= k
  BY StreamAssumption
<1> QED BY <1>1, StreamAssumption DEF Size

\* feed_msg() puts the next message behind the others, and pauses over the high mark.
LEMMA FeedBooks ==
  ASSUME BooksInv, FeedMsg
  PROVE  QueueType' /\ InQueue' /\ OutOfQueue' /\ PausedHasData'
<1> DEFINE m == Len(queue)
<1>0. /\ queue \in Seq(1..MaxIn) /\ m \in Nat /\ m <= fed /\ fed \in 0..MaxIn
      /\ fed < MaxIn /\ MaxIn \in Nat /\ queueLen \in Nat /\ got \in Seq(1..MaxIn)
  BY StreamAssumption DEF BooksInv, TypeOK, InQueue, FeedMsg
<1>1. /\ fed' = fed + 1 /\ fed' \in 1..MaxIn /\ queue' = Append(queue, fed')
      /\ queueLen' = queueLen + Size(fed') /\ got' = got /\ low' = low /\ high' = high
  BY <1>0 DEF FeedMsg
<1>2. /\ queue' \in Seq(1..MaxIn) /\ Len(queue') = m + 1 /\ Taken' = Taken
      /\ \A i \in 1..(m + 1) : queue'[i] = IF i <= m THEN queue[i] ELSE fed + 1
  BY <1>0, <1>1 DEF Taken
<1>3. Size(fed') = Bytes[fed + 1] - Bytes[fed] /\ Size(fed') \in Nat
      /\ Bytes[fed] \in Nat /\ Bytes[fed + 1] \in Nat
  <2>1. fed' - 1 = fed
    BY <1>0, <1>1
  <2> QED BY <1>1, <2>1, SizeOf
<1>4. InQueue'
  <2>1. Len(queue') <= fed'
    BY <1>0, <1>1, <1>2
  <2>2. ASSUME NEW i \in 1..Len(queue') PROVE queue'[i] = Taken' + i
    <3>1. CASE i <= m
      BY <1>0, <1>2, <3>1 DEF BooksInv, InQueue
    <3>2. CASE i > m
      <4>1. i = m + 1 /\ Taken = fed - m
        BY <1>0, <1>2, <3>2 DEF Taken
      <4>2. i \in 1..(m + 1) /\ ~(i <= m)
        BY <1>0, <4>1
      <4> HIDE DEF m
      <4>3. queue'[i] = fed + 1
        BY <1>2, <4>2
      <4>4. Taken' + i = fed + 1
        BY <1>0, <1>2, <4>1
      <4> QED BY <4>3, <4>4
    <3>3. i <= m \/ i > m
      BY <1>0, <1>2
    <3> QED BY <3>1, <3>2, <3>3
  <2>3. QueueLenExact'
    <3>1. fed - m \in 0..MaxIn /\ Bytes[fed - m] \in Nat /\ fed' - Len(queue') = fed - m
      BY <1>0, <1>1, <1>2, StreamAssumption
    <3>2. queueLen = Bytes[fed] - Bytes[fed - m]
      BY DEF BooksInv, InQueue, QueueLenExact
    <3> DEFINE before == Bytes[fed - m]
               now    == Bytes[fed]
               then   == Bytes[fed + 1]
    <3>3. queueLen' = then - before
      <4>1. queueLen' = queueLen + Size(fed') /\ Size(fed') = then - now /\ queueLen = now - before
        BY <1>1, <1>3, <3>2
      <4>2. before \in Nat /\ now \in Nat /\ then \in Nat
        BY <1>3, <3>1
      <4> HIDE DEF before, now, then
      <4> QED BY <4>1, <4>2
    <3> QED BY <1>1, <3>1, <3>3 DEF QueueLenExact
  <2> QED BY <2>1, <2>2, <2>3 DEF InQueue
<1>5. QueueType'
  <2>1. low \in Nat /\ high \in Nat /\ low <= high
    BY DEF BooksInv, TypeOK
  <2>2. queueLen' \in Nat /\ fed' \in 0..MaxIn
    BY <1>0, <1>1, <1>3
  <2>3. paused' \in BOOLEAN /\ trPaused' \in BOOLEAN
        /\ faults' \subseteq {"pause", "read", "limits", "empty", "drain"}
    BY DEF BooksInv, TypeOK, FeedMsg, Fault
  <2> QED BY <1>0, <1>1, <1>2, <2>1, <2>2, <2>3 DEF QueueType
<1>6. OutOfQueue'
  <2>1. "read" \in faults' <=> "read" \in faults
    BY DEF FeedMsg, Fault
  <2> QED BY <1>1, <1>2, <2>1 DEF BooksInv, OutOfQueue
<1>7. PausedHasData'
  <2>1. /\ ~closing /\ ~exception /\ closing' = closing /\ exception' = exception
        /\ ~trPaused /\ ~paused
    BY DEF FeedMsg, BooksInv, PausedHasData, Lost, lifeVars
  <2>2. CASE queueLen' <= high
    BY <2>1, <2>2 DEF FeedMsg, PausedHasData, Lost
  <2>3. CASE ~(queueLen' <= high)
    <3>1. queueLen' > low'
      BY <1>1, <1>5, <2>3 DEF QueueType
    <3> QED BY <2>1, <2>3, <3>1 DEF FeedMsg, PausedHasData, Lost, Fault
  <2> QED BY <2>2, <2>3
<1> QED BY <1>4, <1>5, <1>6, <1>7

\* _maybe_resume_transport() resumes what is down to the low mark.
LEMMA ResumeBooks ==
  ASSUME BooksInv, NEW site, MaybeResume(site), queueLen' \in Nat, low' \in Nat,
         closing' = closing, exception' = exception
  PROVE  /\ PausedHasData'
         /\ paused' \in BOOLEAN /\ trPaused' \in BOOLEAN
         /\ faults' = faults \/ (paused /\ ~paused' /\ closing /\ faults' = faults \cup {site})
<1>1. paused \in BOOLEAN /\ trPaused \in BOOLEAN /\ closing \in BOOLEAN
  BY DEF BooksInv, TypeOK
<1>2. CASE paused /\ queueLen' <= low'
  BY <1>1, <1>2 DEF MaybeResume, PausedHasData, BooksInv, Lost, Fault
<1>3. CASE ~(paused /\ queueLen' <= low')
  BY <1>1, <1>3 DEF MaybeResume, PausedHasData, BooksInv, Lost
<1> QED BY <1>2, <1>3

\* The end of read() takes the head of the queue, and returns it unless the
\* transport that it should resume is gone.
LEMMA PopBooks ==
  ASSUME BooksInv, PopMsg, closing' = closing, exception' = exception
  PROVE  QueueType' /\ InQueue' /\ OutOfQueue' /\ PausedHasData'
<1> DEFINE m == Len(queue)
<1>0. /\ queue \in Seq(1..MaxIn) /\ m \in Nat /\ m <= fed /\ fed \in 0..MaxIn /\ m >= 1
      /\ MaxIn \in Nat /\ queueLen \in Nat /\ got \in Seq(1..MaxIn) /\ Taken = fed - m
  <2>1. /\ queue \in Seq(1..MaxIn) /\ fed \in 0..MaxIn /\ queueLen \in Nat
        /\ got \in Seq(1..MaxIn)
    BY DEF BooksInv, TypeOK
  <2>2. m <= fed /\ queue # <<>> /\ MaxIn \in Nat
    BY StreamAssumption DEF BooksInv, InQueue, PopMsg
  <2> QED BY <2>1, <2>2 DEF Taken
<1>1. /\ queue' = Tail(queue) /\ queueLen' = queueLen - Size(Head(queue))
      /\ fed' = fed /\ low' = low /\ high' = high
      /\ got' = IF paused /\ ~paused' /\ closing THEN got ELSE Append(got, Head(queue))
  BY DEF PopMsg
<1>2. /\ queue' \in Seq(1..MaxIn) /\ Len(queue') = m - 1 /\ Taken' = Taken + 1
      /\ \A i \in 1..(m - 1) : queue'[i] = queue[i + 1]
      /\ Head(queue) = queue[1] /\ Head(queue) \in 1..MaxIn
  <2>1. /\ queue' \in Seq(1..MaxIn) /\ Len(queue') = m - 1
        /\ \A i \in 1..(m - 1) : queue'[i] = queue[i + 1]
    BY <1>0, <1>1, HeadTailProperties
  <2>2. Taken' = Taken + 1
    BY <1>0, <1>1, <2>1 DEF Taken
  <2>3. Head(queue) = queue[1] /\ Head(queue) \in 1..MaxIn
    BY <1>0
  <2> QED BY <2>1, <2>2, <2>3
<1>3. Head(queue) = Taken + 1
  BY <1>0, <1>2 DEF BooksInv, InQueue
<1>4. InQueue' /\ queueLen' \in Nat
  <2>1. Len(queue') <= fed'
    BY <1>0, <1>1, <1>2
  <2>2. ASSUME NEW i \in 1..Len(queue') PROVE queue'[i] = Taken' + i
    <3>1. i \in 1..(m - 1) /\ i + 1 \in 1..m /\ queue'[i] = queue[i + 1]
      BY <1>0, <1>2
    <3>2. queue[i + 1] = Taken + (i + 1)
      BY <3>1 DEF BooksInv, InQueue
    <3> QED BY <1>0, <1>2, <3>1, <3>2
  <2>3. /\ fed - m \in 0..MaxIn /\ fed - m + 1 \in 0..MaxIn /\ fed - m + 1 <= fed
        /\ fed' - Len(queue') = fed - m + 1
    BY <1>0, <1>1, <1>2
  <2>4. /\ Bytes[fed] \in Nat /\ Bytes[fed - m] \in Nat /\ Bytes[fed - m + 1] \in Nat
        /\ Bytes[fed - m + 1] <= Bytes[fed]
    BY <1>0, <2>3, StreamAssumption
  <2>5. Size(Head(queue)) = Bytes[fed - m + 1] - Bytes[fed - m]
    <3>1. Head(queue) = fed - m + 1 /\ Head(queue) - 1 = fed - m
      BY <1>0, <1>3
    <3> QED BY <3>1 DEF Size
  <2>6. queueLen = Bytes[fed] - Bytes[fed - m]
    BY DEF BooksInv, InQueue, QueueLenExact
  <2>7. queueLen' = Bytes[fed] - Bytes[fed - m + 1] /\ queueLen' \in Nat
    BY <1>1, <2>4, <2>5, <2>6
  <2>8. QueueLenExact'
    BY <1>1, <2>3, <2>7 DEF QueueLenExact
  <2> QED BY <2>1, <2>2, <2>7, <2>8 DEF InQueue
<1>5. /\ PausedHasData' /\ paused' \in BOOLEAN /\ trPaused' \in BOOLEAN
      /\ \/ faults' = faults
         \/ paused /\ ~paused' /\ closing /\ faults' = faults \cup {"read"}
  <2>1. low' \in Nat
    BY <1>1 DEF BooksInv, TypeOK
  <2> QED BY <1>4, <2>1, ResumeBooks DEF PopMsg
<1>6. QueueType'
  <2>1. got' \in Seq(1..MaxIn)
    <3>1. Append(got, Head(queue)) \in Seq(1..MaxIn)
      BY <1>0, <1>2
    <3> QED BY <1>0, <1>1, <3>1
  <2>2. /\ low \in Nat /\ high \in Nat /\ low <= high
        /\ faults \subseteq {"pause", "read", "limits", "empty", "drain"}
    BY DEF BooksInv, TypeOK
  <2> QED BY <1>0, <1>1, <1>2, <1>4, <1>5, <2>1, <2>2 DEF QueueType
<1>7. OutOfQueue'
  <2>1. CASE paused /\ ~paused' /\ closing
    <3>1. got' = got /\ "read" \in faults'
      <4>1. CASE paused /\ queueLen' <= low'
        BY <1>1, <2>1, <4>1 DEF PopMsg, MaybeResume, Fault
      <4>2. CASE ~(paused /\ queueLen' <= low')
        BY <2>1, <4>2 DEF PopMsg, MaybeResume
      <4> QED BY <4>1, <4>2
    <3>2. \A i \in 1..Len(got) : got[i] <= Taken + 1
      BY <1>0 DEF BooksInv, OutOfQueue
    <3> QED BY <1>2, <3>1, <3>2 DEF BooksInv, OutOfQueue
  <2>2. CASE ~(paused /\ ~paused' /\ closing)
    <3> DEFINE n == Len(got)
    <3>1. /\ n \in Nat /\ Len(got') = n + 1 /\ faults' = faults
          /\ \A i \in 1..(n + 1) : got'[i] = IF i <= n THEN got[i] ELSE Taken + 1
      <4>1. got' = Append(got, Head(queue)) /\ faults' = faults
        BY <1>1, <1>5, <2>2
      <4> QED BY <1>0, <1>2, <1>3, <4>1
    <3>2. /\ \A i \in 1..n : got[i] <= Taken /\ got[i] \in Nat
          /\ \A i, j \in 1..n : i < j => got[i] < got[j]
          /\ "read" \notin faults => n = Taken /\ \A i \in 1..n : got[i] = i
          /\ Taken \in Nat
      BY <1>0 DEF BooksInv, OutOfQueue
    <3>3. \A i \in 1..(n + 1) : (i \in 1..n /\ i <= n) \/ (i = n + 1 /\ ~(i <= n))
      BY <3>1
    <3> HIDE DEF n
    <3>4. \A i \in 1..(n + 1) : got'[i] <= Taken + 1
      BY <3>1, <3>2, <3>3
    <3>5. \A i, j \in 1..(n + 1) : i < j => got'[i] < got'[j]
      BY <3>1, <3>2, <3>3
    <3>6. "read" \notin faults => n + 1 = Taken + 1 /\ \A i \in 1..(n + 1) : got'[i] = i
      BY <3>1, <3>2, <3>3
    <3> QED BY <1>2, <3>1, <3>4, <3>5, <3>6 DEF OutOfQueue
  <2> QED BY <2>1, <2>2
<1> QED BY <1>4, <1>5, <1>6, <1>7

\* Nothing else touches the queue; a task that fails otherwise loses no message.
LEMMA BooksKept ==
  ASSUME BooksInv, UNCHANGED <<queueVars, low, high, paused, trPaused>>,
         Lost => Lost', faults' = faults \/ faults' = faults \cup {"empty"}
                                         \/ faults' = faults \cup {"drain"}
  PROVE  QueueType' /\ InQueue' /\ OutOfQueue' /\ PausedHasData'
<1>1. QueueType'
  BY DEF BooksInv, TypeOK, QueueType, queueVars
<1>2. InQueue'
  BY DEF BooksInv, InQueue, QueueLenExact, Taken, queueVars
<1>3. OutOfQueue'
  BY DEF BooksInv, OutOfQueue, Taken, queueVars
<1>4. PausedHasData'
  BY DEF BooksInv, PausedHasData, queueVars
<1> QED BY <1>1, <1>2, <1>3, <1>4

LEMMA BooksStep ==
  ASSUME BooksInv, [Next]_vars
  PROVE  QueueType' /\ InQueue' /\ OutOfQueue' /\ PausedHasData'
<1>1. CASE UNCHANGED vars
  BY <1>1, BooksKept DEF vars, readVars, lifeVars, Lost
<1>2. CASE FeedMsg
  BY <1>2, FeedBooks
<1>3. CASE ConnectionClosed
  BY <1>3, BooksKept DEF ConnectionClosed, Lost
<1>4. CASE ConnectionFailed
  BY <1>4, BooksKept DEF ConnectionFailed, Lost
<1>5. CASE PauseWriting \/ ResumeWriting
  BY <1>5, BooksKept DEF PauseWriting, ResumeWriting, readVars, lifeVars, Lost
<1>6. CASE Close
  BY <1>6, BooksKept DEF Close, readVars, Lost
<1>7. CASE SetLimits
  <2>1. PICK l \in Limits : low' = l.low /\ high' = l.high
    BY <1>7 DEF SetLimits
  <2>2. low' \in Nat /\ high' \in Nat /\ low' <= high'
    BY <2>1, StreamAssumption
  <2>3. UNCHANGED queueVars /\ closing' = closing /\ exception' = exception /\ queueLen' \in Nat
    BY <1>7 DEF SetLimits, queueVars, lifeVars, BooksInv, TypeOK
  <2>4. /\ PausedHasData' /\ paused' \in BOOLEAN /\ trPaused' \in BOOLEAN
        /\ faults' = faults \/ faults' = faults \cup {"limits"}
    BY <1>7, <2>2, <2>3, ResumeBooks DEF SetLimits
  <2>5. QueueType'
    BY <2>2, <2>3, <2>4 DEF BooksInv, TypeOK, QueueType, queueVars
  <2>6. InQueue' /\ OutOfQueue'
    BY <2>3, <2>4 DEF BooksInv, InQueue, OutOfQueue, QueueLenExact, Taken, queueVars
  <2> QED BY <2>4, <2>5, <2>6
<1>8. ASSUME NEW r \in Readers, ReadStep(r) \/ CancelRead(r)
      PROVE  QueueType' /\ InQueue' /\ OutOfQueue' /\ PausedHasData'
  <2>1. CASE ReadAtOnce(r)
    BY <2>1, PopBooks DEF ReadAtOnce, lifeVars
  <2>2. CASE ReadWait(r)
    BY <2>2, BooksKept DEF ReadWait, lifeVars, Lost
  <2>3. CASE ReadWoken(r)
    <3>1. closing' = closing /\ exception' = exception
      BY <2>3 DEF ReadWoken, lifeVars
    <3>2. CASE PopMsg
      BY <3>1, <3>2, PopBooks
    <3>3. CASE UNCHANGED <<queueVars, low, high, paused, trPaused>> /\ Fault("empty")
      BY <3>1, <3>3, BooksKept DEF Lost, Fault
    <3> QED BY <2>3, <3>2, <3>3 DEF ReadWoken
  <2>4. CASE ReadRaises(r) \/ CancelRead(r)
    BY <2>4, BooksKept DEF ReadRaises, CancelRead, lifeVars, Lost
  <2> QED BY <1>8, <2>1, <2>2, <2>3, <2>4 DEF ReadStep
<1>9. ASSUME NEW d \in Drainers, DrainStep(d) \/ CancelDrain(d)
      PROVE  QueueType' /\ InQueue' /\ OutOfQueue' /\ PausedHasData'
  BY <1>9, BooksKept
     DEF DrainStep, DrainWait, DrainAsserts, DrainEnds, CancelDrain, Fault, readVars, lifeVars, Lost
<1> QED BY <1>1, <1>2, <1>3, <1>4, <1>5, <1>6, <1>7, <1>8, <1>9 DEF Next, Transport

-----------------------------------------------------------------------------
(* Tasks and connection.                                                   *)

LEMMA WakeType ==
  ASSUME NEW T, NEW calls \in [T -> CallState], NEW task, NEW state \in CallState
  PROVE  Wake(calls, task, state) \in [T -> CallState]
BY DEF Wake

LEMMA States ==
  /\ "idle" \in CallState /\ "waiting" \in CallState /\ "woken" \in CallState
  /\ "raised" \in CallState /\ "cancelled" \in CallState
BY DEF CallState

LEMMA TaskTypeStep == ASSUME TaskType, [Next]_vars PROVE TaskType'
<1>0. /\ waiter \in Readers \cup {Nobody} /\ rd \in [Readers -> CallState]
      /\ drainWaiter \in Drainers \cup {Nobody} /\ dr \in [Drainers -> CallState]
      /\ Wake(rd, waiter, "woken") \in [Readers -> CallState]
      /\ Wake(rd, waiter, "raised") \in [Readers -> CallState]
      /\ Wake(dr, drainWaiter, "woken") \in [Drainers -> CallState]
      /\ Wake(dr, drainWaiter, "raised") \in [Drainers -> CallState]
  BY WakeType, States DEF TaskType
<1>1. CASE UNCHANGED vars
  BY <1>1 DEF TaskType, vars, readVars, lifeVars, drainVars
<1>2. CASE FeedMsg
  BY <1>0, <1>2 DEF FeedMsg, TaskType, lifeVars, drainVars
<1>3. CASE ConnectionClosed
  BY <1>0, <1>3 DEF ConnectionClosed, TaskType
<1>4. CASE ConnectionFailed
  BY <1>0, <1>4 DEF ConnectionFailed, TaskType
<1>5. CASE PauseWriting
  BY <1>5 DEF PauseWriting, TaskType, readVars, lifeVars
<1>6. CASE ResumeWriting
  BY <1>0, <1>6 DEF ResumeWriting, TaskType, readVars, lifeVars
<1>7. CASE Close
  BY <1>7 DEF Close, TaskType, readVars, drainVars
<1>8. CASE SetLimits
  BY <1>8 DEF SetLimits, TaskType, lifeVars, drainVars
<1>9. ASSUME NEW r \in Readers, ReadStep(r) \/ CancelRead(r) PROVE TaskType'
  <2>1. ASSUME NEW s \in CallState PROVE [rd EXCEPT ![r] = s] \in [Readers -> CallState]
    BY <1>0
  <2>2. CASE ReadAtOnce(r)
    BY <2>2 DEF ReadAtOnce, TaskType, lifeVars, drainVars
  <2>3. CASE ReadWait(r)
    BY <2>1, <2>3, States DEF ReadWait, TaskType, lifeVars, drainVars
  <2>4. CASE ReadWoken(r)
    BY <2>1, <2>4, States DEF ReadWoken, TaskType, lifeVars, drainVars
  <2>5. CASE ReadRaises(r)
    BY <2>1, <2>5, States DEF ReadRaises, TaskType, lifeVars, drainVars
  <2>6. CASE CancelRead(r)
    BY <2>1, <2>6, States DEF CancelRead, TaskType, lifeVars, drainVars
  <2> QED BY <1>9, <2>2, <2>3, <2>4, <2>5, <2>6 DEF ReadStep
<1>10. ASSUME NEW d \in Drainers, DrainStep(d) \/ CancelDrain(d) PROVE TaskType'
  <2>1. ASSUME NEW s \in CallState PROVE [dr EXCEPT ![d] = s] \in [Drainers -> CallState]
    BY <1>0
  <2>2. CASE DrainWait(d)
    BY <2>1, <2>2, States DEF DrainWait, TaskType, readVars, lifeVars
  <2>3. CASE DrainAsserts(d)
    BY <2>3 DEF DrainAsserts, TaskType, readVars, lifeVars, drainVars
  <2>4. CASE DrainEnds(d)
    BY <2>1, <2>4, States DEF DrainEnds, TaskType, readVars, lifeVars
  <2>5. CASE CancelDrain(d)
    BY <2>1, <2>5, States DEF CancelDrain, TaskType, readVars, lifeVars
  <2> QED BY <1>10, <2>2, <2>3, <2>4, <2>5 DEF DrainStep
<1> QED BY <1>1, <1>2, <1>3, <1>4, <1>5, <1>6, <1>7, <1>8, <1>9, <1>10 DEF Next, Transport

LEMMA BooksAlways == Spec => []BooksInv
<1>1. ASSUME BooksInv, [Next]_vars PROVE BooksInv'
  <2>1. QueueType /\ TaskType
    BY <1>1, TypeParts DEF BooksInv
  <2>2. QueueType' /\ InQueue' /\ OutOfQueue' /\ PausedHasData'
    BY <1>1, BooksStep
  <2>3. TaskType'
    BY <1>1, <2>1, TaskTypeStep
  <2> QED BY <2>2, <2>3, TypePartsNext DEF BooksInv
<1> QED BY <1>1, BooksInit, PTL DEF Spec

\* Books.  What read() returned, then what waits in the queue, is what arrived, in
\* order; _queue_len is its length; the stream and its transport agree on who is
\* paused, and a paused stream holds more than its low-water mark: through any
\* order of feed_msg(), read(), cancellations and changes of the marks.
THEOREM BooksHold == Spec => []Books
BY BooksAlways, InvBooks, PTL

-----------------------------------------------------------------------------
(* Nobody waits for what will not come.                                    *)

\* What the class supports: one task that reads.
OneReader == \A r, s \in Readers : r = s

\* No message is of length 0: stream.py, line 284, takes a queue of empty messages
\* for an empty queue.
NoEmptyMessages == \A k \in 1..MaxIn : Bytes[k - 1] < Bytes[k]

\* Who was woken has his message in the queue, whatever became of the connection, and
\* on a ZmqEventLoop comes to it before the stream is closed.
WokenHaveData ==
  \A r \in Readers : rd[r] = "woken" => queue # <<>> /\ (closing => Loopless)

WaitersInv == BooksInv /\ ReaderKnown /\ DrainerKnown /\ ReadsSucceed /\ WokenHaveData

\* A queue without length is empty.
LEMMA LengthTells ==
  ASSUME NoEmptyMessages, BooksInv, queueLen = 0
  PROVE  queue = <<>>
<1> SUFFICES ASSUME queue # <<>> PROVE FALSE
  OBVIOUS
<1> DEFINE m == Len(queue)
<1>1. /\ m \in Nat /\ m >= 1 /\ m <= fed /\ fed \in 0..MaxIn /\ MaxIn \in Nat
  BY StreamAssumption DEF BooksInv, TypeOK, InQueue
<1>2. /\ fed \in 1..MaxIn /\ fed - 1 \in 0..MaxIn /\ fed - m \in 0..MaxIn /\ fed - m <= fed - 1
  BY <1>1
<1>3. Bytes[fed - m] <= Bytes[fed - 1] /\ Bytes[fed - 1] < Bytes[fed]
      /\ Bytes[fed - m] \in Nat /\ Bytes[fed - 1] \in Nat /\ Bytes[fed] \in Nat
  BY <1>1, <1>2, StreamAssumption DEF NoEmptyMessages
<1>4. queueLen = Bytes[fed] - Bytes[fed - m]
  BY DEF BooksInv, InQueue, QueueLenExact
<1> QED BY <1>3, <1>4
LEMMA WaitersInit == Init => WaitersInv
<1> SUFFICES ASSUME Init PROVE WaitersInv
  OBVIOUS
<1>1. /\ \A r \in Readers : rd[r] # "waiting" /\ rd[r] # "woken"
      /\ \A d \in Drainers : dr[d] # "waiting"
      /\ faults = {}
  BY DEF Init
<1> QED BY <1>1, BooksInit
        DEF WaitersInv, ReaderKnown, DrainerKnown, ReadsSucceed, WokenHaveData

\* Completing the future that is remembered leaves nobody waiting, ...
LEMMA WakeAll ==
  ASSUME NEW T, NEW calls \in [T -> CallState], NEW task, NEW state,
         \A t \in T : calls[t] = "waiting" => task = t, state # "waiting"
  PROVE  /\ \A t \in T : Wake(calls, task, state)[t] # "waiting"
         /\ \A t \in T : Wake(calls, task, state)[t] \in {calls[t], state}
BY DEF Wake

\* A reader's step changes his own call.
LEMMA OwnCall ==
  ASSUME NEW T, NEW calls \in [T -> CallState], NEW t \in T, NEW state
  PROVE  /\ [calls EXCEPT ![t] = state][t] = state
         /\ \A u \in T \ {t} : [calls EXCEPT ![t] = state][u] = calls[u]
OBVIOUS

\* The claims about readers, without and with those about lengths.
ReadersWait == ReaderKnown /\ WokenHaveData
StillWaitsForData == NoEmptyMessages /\ WaitsForData => WaitsForData'

\* Steps that leave the readers, the queue and the end of the connection alone.
LEMMA ReadersUndisturbed ==
  ASSUME ReadersWait, UNCHANGED <<rd, queue, waiter, closing, exception, kind>>
  PROVE  ReadersWait' /\ StillWaitsForData
BY DEF StillWaitsForData, ReadersWait, ReaderKnown, WaitsForData, WokenHaveData, Lost, Loopless

\* Steps after which nobody waits for a message.
LEMMA NoReaderWaits ==
  ASSUME \A r \in Readers : rd'[r] # "waiting",
         \A r \in Readers : rd'[r] = "woken" => queue' # <<>> /\ (closing' => kind' = "loopless")
  PROVE  ReadersWait' /\ StillWaitsForData
BY DEF StillWaitsForData, ReadersWait, ReaderKnown, WaitsForData, WokenHaveData, Loopless

LEMMA ReadersStep ==
  ASSUME WaitersInv, TaskType, OneReader, [Next]_vars
  PROVE  ReadersWait' /\ StillWaitsForData
<1>0. /\ ReadersWait /\ rd \in [Readers -> CallState] /\ BooksInv
      /\ queue \in Seq(1..MaxIn)
      /\ \A r \in Readers : rd[r] = "waiting" => waiter = r
  BY DEF WaitersInv, ReadersWait, TaskType, ReaderKnown, BooksInv, TypeOK
<1>1. CASE UNCHANGED vars
  BY <1>0, <1>1, ReadersUndisturbed DEF vars, queueVars, readVars, lifeVars
<1>2. CASE FeedMsg
  <2>1. /\ queue' = Append(queue, fed') /\ rd' = Wake(rd, waiter, "woken")
        /\ ~closing /\ closing' = closing
    BY <1>2 DEF FeedMsg, Lost, lifeVars
  <2>2. queue' # <<>>
    BY <1>0, <2>1
  <2> QED BY <1>0, <2>1, <2>2, WakeAll, NoReaderWaits
<1>3. CASE ConnectionClosed
  <2>1. /\ rd' = Wake(rd, waiter, "raised") /\ queue' = queue /\ kind' = kind
        /\ kind = "loopless" \/ \A r \in Readers : rd[r] # "woken"
    BY <1>3 DEF ConnectionClosed, queueVars, Loopless
  <2>2. \A r \in Readers : rd'[r] # "waiting" /\ (rd'[r] = "woken" => rd[r] = "woken")
    BY <1>0, <2>1, WakeAll
  <2> QED BY <1>0, <2>1, <2>2, NoReaderWaits DEF ReadersWait, WokenHaveData
<1>4. CASE ConnectionFailed
  <2>1. /\ rd' = Wake(rd, waiter, "raised")
        /\ UNCHANGED <<queue, closing, kind>>
    BY <1>4 DEF ConnectionFailed, queueVars
  <2>2. \A r \in Readers : rd'[r] # "waiting" /\ (rd'[r] = "woken" => rd[r] = "woken")
    BY <1>0, <2>1, WakeAll
  <2> QED BY <1>0, <2>1, <2>2, NoReaderWaits DEF ReadersWait, WokenHaveData, Loopless
<1>5. CASE PauseWriting \/ ResumeWriting
  BY <1>0, <1>5, ReadersUndisturbed
     DEF PauseWriting, ResumeWriting, queueVars, readVars, lifeVars
<1>6. CASE Close
  BY <1>0, <1>6, ReadersUndisturbed DEF Close, queueVars, readVars
<1>7. CASE SetLimits
  BY <1>0, <1>7, ReadersUndisturbed DEF SetLimits, queueVars, lifeVars
<1>8. ASSUME NEW r \in Readers, ReadStep(r) \/ CancelRead(r) PROVE ReadersWait' /\ StillWaitsForData
  <2>0. \A s \in Readers : s = r
    BY DEF OneReader
  <2>1. CASE ReadAtOnce(r)
    <3>1. rd'[r] = "idle"
      BY <2>1 DEF ReadAtOnce
    <3> QED BY <2>0, <3>1, NoReaderWaits
  <2>2. CASE ReadWait(r)
    <3>1. queueLen = 0 /\ ~Lost /\ waiter' = r /\ rd'[r] = "waiting" /\ queue' = queue
          /\ closing' = closing /\ exception' = exception
      BY <1>0, <2>2 DEF ReadWait, queueVars, lifeVars
    <3>2. NoEmptyMessages => queue = <<>>
      BY <1>0, <3>1, LengthTells
    <3> QED BY <2>0, <3>1, <3>2
            DEF StillWaitsForData, ReadersWait, ReaderKnown, WaitsForData, WokenHaveData, Lost
  <2>3. CASE ReadWoken(r) \/ ReadRaises(r)
    <3>1. rd'[r] = "idle"
      BY <1>0, <2>3 DEF ReadWoken, ReadRaises
    <3> QED BY <2>0, <3>1, NoReaderWaits
  <2>4. CASE CancelRead(r)
    <3>1. rd'[r] = "cancelled"
      BY <1>0, <2>4 DEF CancelRead
    <3> QED BY <2>0, <3>1, NoReaderWaits
  <2> QED BY <1>8, <2>1, <2>2, <2>3, <2>4 DEF ReadStep
<1>9. ASSUME NEW d \in Drainers, DrainStep(d) \/ CancelDrain(d)
      PROVE  ReadersWait' /\ StillWaitsForData
  BY <1>0, <1>9, ReadersUndisturbed
     DEF DrainStep, DrainWait, DrainAsserts, DrainEnds, CancelDrain, queueVars, readVars, lifeVars
<1> QED BY <1>1, <1>2, <1>3, <1>4, <1>5, <1>6, <1>7, <1>8, <1>9 DEF Next, Transport

LEMMA DrainersUndisturbed ==
  ASSUME DrainerKnown, UNCHANGED <<dr, drainWaiter, writePaused, closing, exception>>
  PROVE  DrainerKnown'
BY DEF DrainerKnown, Lost

\* Any number of tasks may drain: one that waits is the one that is remembered, since the
\* others run into the assertion.
LEMMA DrainersStep ==
  ASSUME DrainerKnown, TaskType, [Next]_vars
  PROVE  DrainerKnown'
<1>0. /\ dr \in [Drainers -> CallState] /\ drainWaiter \in Drainers \cup {Nobody}
      /\ \A d \in Drainers : dr[d] = "waiting" => drainWaiter = d
      /\ Nobody \notin Drainers
  BY TasksAssumption DEF TaskType, DrainerKnown
<1>1. CASE UNCHANGED vars
  BY <1>1, DrainersUndisturbed DEF vars, drainVars, lifeVars
<1>2. CASE FeedMsg \/ SetLimits
  BY <1>2, DrainersUndisturbed DEF FeedMsg, SetLimits, lifeVars, drainVars
<1>3. CASE ConnectionClosed \/ ConnectionFailed
  <2>1. CASE writePaused
    <3>1. dr' = Wake(dr, drainWaiter, "woken") \/ dr' = Wake(dr, drainWaiter, "raised")
      BY <1>3, <2>1 DEF ConnectionClosed, ConnectionFailed
    <3>2. \A d \in Drainers : dr'[d] # "waiting"
      BY <1>0, <3>1, WakeAll
    <3> QED BY <3>2 DEF DrainerKnown
  <2>2. CASE ~writePaused
    <3>1. dr' = dr
      BY <1>3, <2>2 DEF ConnectionClosed, ConnectionFailed
    <3> QED BY <2>2, <3>1 DEF DrainerKnown
  <2> QED BY <2>1, <2>2
<1>4. CASE PauseWriting
  BY <1>4 DEF PauseWriting, DrainerKnown, Lost, lifeVars
<1>5. CASE ResumeWriting
  <2>1. dr' = Wake(dr, drainWaiter, "woken")
    BY <1>5 DEF ResumeWriting
  <2>2. \A d \in Drainers : dr'[d] # "waiting"
    BY <1>0, <2>1, WakeAll
  <2> QED BY <2>2 DEF DrainerKnown
<1>6. CASE Close
  BY <1>6, DrainersUndisturbed DEF Close, drainVars
<1>7. ASSUME NEW r \in Readers, ReadStep(r) \/ CancelRead(r) PROVE DrainerKnown'
  BY <1>7, DrainersUndisturbed
     DEF ReadStep, ReadAtOnce, ReadWait, ReadWoken, ReadRaises, CancelRead, lifeVars, drainVars
<1>8. ASSUME NEW d \in Drainers, DrainStep(d) \/ CancelDrain(d) PROVE DrainerKnown'
  <2>1. CASE DrainWait(d)
    <3>1. /\ dr' = [dr EXCEPT ![d] = "waiting"] /\ drainWaiter' = d /\ writePaused /\ ~Lost
          /\ writePaused' = writePaused /\ closing' = closing /\ exception' = exception
      BY <2>1 DEF DrainWait, lifeVars
    <3>2. ASSUME NEW e \in Drainers, e # d PROVE dr'[e] # "waiting"
      <4>1. dr'[e] = dr[e]
        BY <1>0, <3>1, <3>2
      <4>2. dr[e] = "waiting" => drainWaiter = e /\ drainWaiter # Nobody
        BY <1>0
      <4> QED BY <2>1, <4>1, <4>2 DEF DrainWait, DrainFree
    <3> QED BY <3>1, <3>2 DEF DrainerKnown, Lost
  <2>2. CASE DrainAsserts(d)
    BY <2>2, DrainersUndisturbed DEF DrainAsserts, lifeVars, drainVars
  <2>3. CASE DrainEnds(d) \/ CancelDrain(d)
    <3>1. /\ UNCHANGED <<drainWaiter, writePaused, closing, exception>>
          /\ \A e \in Drainers : dr'[e] = "waiting" => dr[e] = "waiting"
      BY <1>0, <2>3 DEF DrainEnds, CancelDrain, lifeVars
    <3> QED BY <3>1 DEF DrainerKnown, Lost
  <2> QED BY <1>8, <2>1, <2>2, <2>3 DEF DrainStep
<1> QED BY <1>1, <1>2, <1>3, <1>4, <1>5, <1>6, <1>7, <1>8 DEF Next, Transport

\* A read() fails on what its transport is only if that transport is a loopless one.
LEMMA ReadsStep ==
  ASSUME WaitersInv, [Next]_vars
  PROVE  ReadsSucceed'
<1>0. ReadsSucceed /\ WokenHaveData
  BY DEF WaitersInv
<1>1. ASSUME kind' = kind, faults' \cap {"empty", "read"} \subseteq faults
      PROVE  ReadsSucceed'
  BY <1>0, <1>1 DEF ReadsSucceed, Loopless
<1>2. ASSUME MaybeResume("read"), kind' = kind, closing => Loopless
      PROVE  ReadsSucceed'
  <2>1. faults' = faults \/ (closing /\ faults' = faults \cup {"read"})
    BY <1>2 DEF MaybeResume, Fault
  <2>2. CASE faults' = faults
    BY <1>1, <1>2, <2>2
  <2>3. CASE closing /\ faults' = faults \cup {"read"}
    BY <1>0, <1>2, <2>3 DEF ReadsSucceed, Loopless
  <2> QED BY <2>1, <2>2, <2>3
<1>3. CASE UNCHANGED vars
  BY <1>1, <1>3 DEF vars, lifeVars
<1>4. CASE Transport
  <2>1. kind' = kind /\ (faults' = faults \/ faults' = faults \cup {"pause"})
    BY <1>4 DEF Transport, FeedMsg, ConnectionClosed, ConnectionFailed, PauseWriting,
                ResumeWriting, Close, Fault, lifeVars
  <2> QED BY <1>1, <2>1
<1>5. CASE SetLimits
  <2>1. kind' = kind /\ (faults' = faults \/ faults' = faults \cup {"limits"})
    BY <1>5 DEF SetLimits, MaybeResume, Fault, lifeVars
  <2> QED BY <1>1, <2>1
<1>6. ASSUME NEW r \in Readers, ReadStep(r) \/ CancelRead(r) PROVE ReadsSucceed'
  <2>1. CASE ReadAtOnce(r)
    BY <1>2, <2>1 DEF ReadAtOnce, PopMsg, Lost, lifeVars
  <2>2. CASE ReadWoken(r)
    <3>1. queue # <<>> /\ (closing => Loopless) /\ kind' = kind
      BY <1>0, <2>2 DEF ReadWoken, WokenHaveData, lifeVars
    <3>2. MaybeResume("read")
      BY <2>2, <3>1 DEF ReadWoken, PopMsg
    <3> QED BY <1>2, <3>1, <3>2
  <2>3. CASE ReadWait(r) \/ ReadRaises(r) \/ CancelRead(r)
    BY <1>1, <2>3 DEF ReadWait, ReadRaises, CancelRead, lifeVars
  <2> QED BY <1>6, <2>1, <2>2, <2>3 DEF ReadStep
<1>7. ASSUME NEW d \in Drainers, DrainStep(d) \/ CancelDrain(d) PROVE ReadsSucceed'
  <2>1. kind' = kind /\ (faults' = faults \/ faults' = faults \cup {"drain"})
    BY <1>7 DEF DrainStep, DrainWait, DrainAsserts, DrainEnds, CancelDrain, Fault, lifeVars
  <2> QED BY <1>1, <2>1
<1> QED BY <1>3, <1>4, <1>5, <1>6, <1>7 DEF Next

LEMMA WaitersStep ==
  ASSUME OneReader, WaitersInv, BooksInv', [Next]_vars
  PROVE  WaitersInv' /\ StillWaitsForData
<1>1. TaskType /\ DrainerKnown
  BY TypeParts DEF WaitersInv, BooksInv
<1>2. ReadersWait' /\ StillWaitsForData /\ DrainerKnown' /\ ReadsSucceed'
  BY <1>1, ReadersStep, DrainersStep, ReadsStep
<1> QED BY <1>2 DEF WaitersInv, ReadersWait

\* A task in drain(), of any number, is remembered as long as it waits, and the transport
\* owes it a resume_writing() or a connection_lost().
THEOREM DrainerKnownHolds == Spec => []DrainerKnown
<1>1. Init => DrainerKnown
  BY DEF Init, DrainerKnown
<1>2. ASSUME BooksInv, DrainerKnown, [Next]_vars PROVE DrainerKnown'
  BY <1>2, TypeParts, DrainersStep DEF BooksInv
<1> QED BY <1>1, <1>2, BooksAlways, PTL DEF Spec

\* The reader that waits is the one that feed_msg() and the end of the connection will
\* wake, and finds his message when woken, but on a loopless transport that was closed
\* first: whatever the lengths of messages.
THEOREM ReaderKnownHolds ==
  ASSUME OneReader PROVE Spec => [](ReaderKnown /\ ReadsSucceed)
<1>1. ASSUME WaitersInv, BooksInv', [Next]_vars PROVE WaitersInv'
  BY <1>1, WaitersStep
<1>2. WaitersInv => ReaderKnown /\ ReadsSucceed
  BY DEF WaitersInv
<1> QED BY <1>1, <1>2, WaitersInit, BooksAlways, PTL DEF Spec

\* With both hypotheses a reader does not wait for data that is there either.
ReadInv == WaitersInv /\ WaitsForData

LEMMA ReadInvAlways == ASSUME OneReader, NoEmptyMessages PROVE Spec => [](ReadInv /\ BooksInv)
<1>1. Init => ReadInv
  BY WaitersInit DEF Init, ReadInv, WaitsForData
<1>2. ASSUME ReadInv, BooksInv', [Next]_vars PROVE ReadInv'
  BY <1>2, WaitersStep DEF ReadInv, StillWaitsForData
<1> QED BY <1>1, <1>2, BooksAlways, PTL DEF Spec

\* WaitersKnown: whoever waits, for a message or to write, is known to what will wake
\* him, and does not wait for a message that is there; who was woken finds his
\* message, but on a loopless transport that was closed first.
THEOREM WaitersKnownHolds ==
  ASSUME OneReader, NoEmptyMessages PROVE Spec => []WaitersKnown
<1>1. ReadInv => WaitersKnown
  BY DEF ReadInv, WaitersInv, WaitersKnown
<1> QED BY <1>1, ReadInvAlways, PTL

-----------------------------------------------------------------------------
(* The contract of a stream: what reads see.                               *)

\* The last message that is read leaves a length of zero, which is not above any mark.
LEMMA HeldBackHasData == BooksInv => (HeldBack => queue # <<>>)
<1> SUFFICES ASSUME BooksInv, HeldBack, queue = <<>> PROVE FALSE
  OBVIOUS
<1>1. queueLen = Bytes[fed] - Bytes[fed - 0]
  BY DEF BooksInv, InQueue, QueueLenExact
<1>2. fed \in 0..MaxIn /\ MaxIn \in Nat /\ Bytes[fed] \in Nat /\ low \in Nat
  BY StreamAssumption DEF BooksInv, TypeOK
<1>3. queueLen = 0
  BY <1>1, <1>2
<1>4. queueLen > low
  BY DEF BooksInv, PausedHasData, HeldBack
<1> QED BY <1>2, <1>3, <1>4

LEMMA HeldBackHasDataNext == BooksInv' => (HeldBack => queue # <<>>)'
BY HeldBackHasData, PTL

LEMMA Flags == HeldBack \in BOOLEAN /\ Lost \in BOOLEAN
BY DEF HeldBack, Lost

\* What neither messages, nor readers, nor the end of the connection are in.
LEMMA ReadersSeeNothing ==
  ASSUME UNCHANGED <<fed, queue, got, trPaused, closing, exception, rd>>
  PROVE  UNCHANGED Contract!contractVars
BY DEF Contract!contractVars, HeldBack, Lost, Blocked, Due

\* A future that is completed moves its task from one set to the other, or out.
LEMMA WakeMoves ==
  ASSUME ReaderKnown, rd \in [Readers -> CallState]
  PROVE  /\ rd' = Wake(rd, waiter, "woken") => Blocked' = {} /\ Due' = Due \cup Blocked
         /\ rd' = Wake(rd, waiter, "raised") => Blocked' = {} /\ Due' = Due
<1>1. \A r \in Readers : rd[r] = "waiting" => r = waiter
  BY DEF ReaderKnown
<1>2. ASSUME NEW state \in {"woken", "raised"}, rd' = Wake(rd, waiter, state), NEW r \in Readers
      PROVE  rd'[r] = IF rd[r] = "waiting" THEN state ELSE rd[r]
  BY <1>1, <1>2 DEF Wake
<1> QED BY <1>2 DEF Blocked, Due

LEMMA FeedRefines == ASSUME ReadInv, FeedMsg PROVE Contract!Next
<1>1. ReaderKnown /\ rd \in [Readers -> CallState] /\ fed \in Nat
  BY StreamAssumption DEF ReadInv, WaitersInv, BooksInv, TypeOK
<1>2. Blocked' = {} /\ Due' = Due \cup Blocked
  BY <1>1, WakeMoves DEF FeedMsg
<1>3. /\ ~Lost /\ Lost' = Lost /\ ~HeldBack /\ HeldBack' \in BOOLEAN
      /\ fed' = fed + 1 /\ queue' = Append(queue, fed + 1) /\ got' = got
  BY DEF FeedMsg, HeldBack, Lost, lifeVars
<1>4. Contract!Arrive
  BY <1>2, <1>3 DEF Contract!Arrive
<1> QED BY <1>4 DEF Contract!Next

LEMMA EndRefines == ASSUME ReadInv, ConnectionClosed \/ ConnectionFailed PROVE Contract!Next
<1>1. ReaderKnown /\ rd \in [Readers -> CallState]
  BY DEF ReadInv, WaitersInv, BooksInv, TypeOK
<1>2. Blocked' = {} /\ Due' = Due
  BY <1>1, WakeMoves DEF ConnectionClosed, ConnectionFailed
<1>3. /\ ~Lost /\ Lost' = TRUE /\ HeldBack' = FALSE
      /\ UNCHANGED <<fed, queue, got>>
  BY DEF ConnectionClosed, ConnectionFailed, HeldBack, Lost, queueVars
<1>4. Contract!End
  BY <1>2, <1>3 DEF Contract!End
<1> QED BY <1>4 DEF Contract!Next

LEMMA LimitsRefine ==
  ASSUME ReadInv, SetLimits PROVE [Contract!Next]_(Contract!contractVars)
<1>1. UNCHANGED <<fed, queue, got, closing, exception, rd>>
  BY DEF SetLimits, queueVars, lifeVars
<1>2. CASE UNCHANGED trPaused
  BY <1>1, <1>2, ReadersSeeNothing
<1>3. CASE trPaused' = FALSE
  <2>1. HeldBack' = FALSE /\ UNCHANGED <<Lost, Blocked, Due>>
    BY <1>1, <1>3 DEF HeldBack, Lost, Blocked, Due
  <2>2. CASE HeldBack
    <3>1. Contract!Relieve
      BY <1>1, <2>1, <2>2 DEF Contract!Relieve
    <3> QED BY <3>1 DEF Contract!Next
  <2>3. CASE ~HeldBack
    BY <1>1, <2>1, <2>3, Flags DEF Contract!contractVars
  <2> QED BY <2>2, <2>3
<1> QED BY <1>2, <1>3 DEF SetLimits, MaybeResume

\* The end of a read() that returns a message.
LEMMA PopTakes ==
  ASSUME PopMsg, BooksInv', UNCHANGED <<closing, exception, Blocked>>,
         got' = Append(got, Head(queue))
  PROVE  Contract!Take
<1>1. queue # <<>> /\ queue' = Tail(queue) /\ fed' = fed
  BY DEF PopMsg
<1>2. trPaused' = FALSE \/ trPaused' = trPaused
  BY DEF PopMsg, MaybeResume
<1>3. UNCHANGED Lost /\ HeldBack' \in {HeldBack, FALSE}
  <2>1. CASE trPaused' = FALSE
    BY <2>1 DEF HeldBack, Lost
  <2>2. CASE trPaused' = trPaused
    BY <2>2 DEF HeldBack, Lost
  <2> QED BY <1>2, <2>1, <2>2
<1>4. HeldBack' => queue' # <<>>
  BY HeldBackHasDataNext
<1> QED BY <1>1, <1>3, <1>4 DEF Contract!Take

LEMMA ReadRefines ==
  ASSUME ReadInv, BooksInv', OneReader, NoEmptyMessages, NEW r \in Readers, ReadStep(r) \/ CancelRead(r)
  PROVE  [Contract!Next]_(Contract!contractVars)
<1>1. /\ rd \in [Readers -> CallState] /\ BooksInv /\ WokenHaveData
      /\ \A s \in Readers : s = r
  BY DEF ReadInv, WaitersInv, BooksInv, TypeOK, OneReader
<1>2. CASE ReadAtOnce(r)
  <2>1. /\ PopMsg /\ ~Lost /\ UNCHANGED <<closing, exception, Blocked, Due>>
        /\ r \notin Blocked \cup Due
    BY <1>2 DEF ReadAtOnce, lifeVars, Blocked, Due
  <2>2. got' = Append(got, Head(queue))
    BY <2>1 DEF PopMsg, Lost
  <2>3. Contract!Take
    BY <2>1, <2>2, PopTakes
  <2>4. Contract!ReadAtOnce(r)
    BY <2>1, <2>3 DEF Contract!ReadAtOnce
  <2> QED BY <2>4 DEF Contract!Next
<1>3. CASE ReadWait(r)
  <2>1. /\ ~Lost /\ queueLen = 0 /\ rd[r] = "idle" /\ rd' = [rd EXCEPT ![r] = "waiting"]
        /\ UNCHANGED <<fed, queue, got, closing, exception, trPaused>>
    BY <1>3 DEF ReadWait, queueVars, lifeVars
  <2>2. queue = <<>>
    BY <1>1, <2>1, LengthTells
  <2>3. r \notin Due /\ Blocked' = Blocked \cup {r} /\ Due' = Due
    BY <1>1, <2>1 DEF Blocked, Due
  <2>4. UNCHANGED <<HeldBack, Lost>>
    BY <2>1 DEF HeldBack, Lost
  <2>5. Contract!Block(r)
    BY <2>1, <2>2, <2>3, <2>4 DEF Contract!Block
  <2> QED BY <2>5 DEF Contract!Next
<1>4. CASE ReadWoken(r)
  <2>1. /\ rd[r] = "woken" /\ rd' = [rd EXCEPT ![r] = "idle"]
        /\ UNCHANGED <<closing, exception>>
    BY <1>4 DEF ReadWoken, lifeVars
  <2>2. r \in Due /\ Blocked' = Blocked /\ Due' = Due \ {r}
    BY <1>1, <2>1 DEF Blocked, Due
  <2>3. PopMsg
    BY <1>1, <1>4, <2>1 DEF ReadWoken, WokenHaveData
  <2>4. CASE got' = Append(got, Head(queue))
    <3>1. Contract!Take
      BY <2>1, <2>2, <2>3, <2>4, PopTakes
    <3>2. Contract!ReadWoken(r)
      BY <2>2, <3>1 DEF Contract!ReadWoken
    <3> QED BY <3>2 DEF Contract!Next
  <2>5. CASE closing /\ got' = got
    <3>1. queue # <<>> /\ queue' = Tail(queue) /\ fed' = fed
      BY <2>3 DEF PopMsg
    <3>2. Lost = TRUE /\ Lost' = TRUE /\ HeldBack = FALSE /\ HeldBack' = FALSE
      BY <2>1, <2>5 DEF Lost, HeldBack
    <3>3. Contract!ReadInVain(r)
      BY <2>2, <2>5, <3>1, <3>2 DEF Contract!ReadInVain
    <3> QED BY <3>3 DEF Contract!Next
  <2> QED BY <2>3, <2>4, <2>5 DEF PopMsg
<1>5. CASE ReadRaises(r)
  <2>1. /\ rd[r] \in {"raised", "cancelled"} /\ rd' = [rd EXCEPT ![r] = "idle"]
        /\ UNCHANGED <<fed, queue, got, closing, exception, trPaused>>
    BY <1>5 DEF ReadRaises, queueVars, lifeVars
  <2>2. UNCHANGED <<Blocked, Due, HeldBack, Lost>>
    BY <1>1, <2>1 DEF Blocked, Due, HeldBack, Lost
  <2> QED BY <2>1, <2>2 DEF Contract!contractVars
<1>6. CASE CancelRead(r)
  <2>1. /\ rd[r] \in {"waiting", "woken"} /\ rd' = [rd EXCEPT ![r] = "cancelled"]
        /\ UNCHANGED <<fed, queue, got, closing, exception, trPaused>>
    BY <1>6 DEF CancelRead, queueVars, lifeVars
  <2>2. r \in Blocked \cup Due /\ Blocked' = Blocked \ {r} /\ Due' = Due \ {r}
    BY <1>1, <2>1 DEF Blocked, Due
  <2>3. UNCHANGED <<HeldBack, Lost>>
    BY <2>1 DEF HeldBack, Lost
  <2>4. Contract!GiveUp(r)
    BY <2>1, <2>2, <2>3 DEF Contract!GiveUp
  <2> QED BY <2>4 DEF Contract!Next
<1> QED BY <1>2, <1>3, <1>4, <1>5, <1>6 DEF ReadStep

LEMMA StreamRefines ==
  ASSUME ReadInv, BooksInv', OneReader, NoEmptyMessages, [Next]_vars
  PROVE  [Contract!Next]_(Contract!contractVars)
<1>1. CASE UNCHANGED vars
  BY <1>1, ReadersSeeNothing DEF vars, queueVars, readVars, lifeVars
<1>2. CASE PauseWriting \/ ResumeWriting \/ Close
  BY <1>2, ReadersSeeNothing DEF PauseWriting, ResumeWriting, Close, queueVars, readVars, lifeVars
<1>3. ASSUME NEW d \in Drainers, DrainStep(d) \/ CancelDrain(d)
      PROVE  UNCHANGED Contract!contractVars
  BY <1>3, ReadersSeeNothing
     DEF DrainStep, DrainWait, DrainAsserts, DrainEnds, CancelDrain, queueVars, readVars, lifeVars
<1>4. ASSUME NEW r \in Readers, ReadStep(r) \/ CancelRead(r)
      PROVE  [Contract!Next]_(Contract!contractVars)
  BY <1>4, ReadRefines
<1> QED BY <1>1, <1>2, <1>3, <1>4, FeedRefines, EndRefines, LimitsRefine DEF Next, Transport

\* ZmqStream implements StreamContract for the one task that it lets read, and
\* messages that have a length: in order, held back only while there is something
\* to read, and waiting only while there is not, through cancellations, any water
\* marks and the end of either kind of transport.
THEOREM ContractHolds == ASSUME OneReader, NoEmptyMessages PROVE Spec => ContractSpec
<1>1. Init => Contract!Init
  BY DEF Init, Contract!Init, HeldBack, Lost, Blocked, Due
<1>2. ASSUME ReadInv, BooksInv', [Next]_vars PROVE [Contract!Next]_(Contract!contractVars)
  BY <1>2, StreamRefines
<1> QED BY <1>1, <1>2, ReadInvAlways, PTL DEF Spec, ContractSpec, Contract!Spec
=============================================================================
