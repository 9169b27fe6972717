# aiozmq in TLA+

A specification of [aiozmq](../src/README.rst), asyncio on top of ZeroMQ, checked with TLC and in part proved with TLAPS.
Every definition is a translation of the Python source; `PROJECT.json` (`map`) names the lines each one stands for.
Line numbers below are those of `src/aiozmq/`.

## 1. The system

| Component | State | Operations | What is hard |
|---|---|---|---|
| `_BaseTransport` (`core.py` 228-548) | `_buffer`, `_buffer_size`, water marks, `_protocol_paused`, `_paused`, `_closing`, `_conn_lost`; endpoints and filters | `write`, `close`, `abort`, `pause_reading`, `resume_reading`, `set_write_buffer_limits`, `bind`, `connect`, `subscribe`, ... | callbacks run in the middle of operations; two ways to `connection_lost()` |
| `_ZmqTransportImpl` (580-675) | reader and writer registered with a `ZmqEventLoop` | `_read_ready`, `_write_ready`, `_do_send` | registrations changed by six operations and by callbacks |
| `_ZmqLooplessTransportImpl` (678-808) | `_soon_call`, the socket's edge-like descriptor | `_read_ready`, nested, `_do_write`, `_do_send` | reading EVENTS, sending and receiving eat the descriptor's signal at any moment |
| `create_zmq_connection`, `ZmqEventLoop` (31-190) | `_zmq_sockets`, waiters of tasks | creation, `close` of the loop | cancellation and failure between socket, transport and endpoints |
| Monitor (193-225, 539-579) | `_monitor`, a second connection | `enable_monitor`, `disable_monitor`, events | an await between the test and the assignment of `_monitor`, with `close()` or another call in it |
| `ZmqEventLoopPolicy` (811-903) | thread-local loop, one child watcher | `get_event_loop`, `set_event_loop`, `get_child_watcher`, `set_child_watcher` | `_watcher` is shared by threads, looked at and then used; only `_init_watcher` locks |
| `ZmqSelector` (`selector.py`) | `_fd_to_key`, zmq's poller | `register`, `unregister`, `modify`, `select` | two structures, the second of which may raise; closed files |
| `ZmqStream`, `ZmqStreamProtocol` (`stream.py`) | queue, `_queue_len`, `_waiter`, `_drain_waiter`, `_exception`, `_paused` | `read`, `drain`, `feed_msg`, `feed_closing`, `set_exception`, events | readers woken late or cancelled; flow control on both sides |
| RPC client (`rpc/rpc.py` 136-225, `rpc/base.py`, `rpc/util.py`) | `calls`, `counter`, `done_waiters` | `call`, timeout, `msg_received`, `close`, `wait_closed` | late, lost and reordered answers, ids that come round |
| RPC server (`rpc/rpc.py` 228-344, `rpc/base.py`) | `pending_waiters` | `dispatch`, coroutines, `process_call_result` | coroutines that outlive the connection, replies that cannot be made |
| Pub-sub, pipeline (`rpc/pubsub.py`, `rpc/pipeline.py`) | `pending_waiters`, subscriptions | `publish`, `notify`, `serve_pubsub`, `subscribe`, `dispatch` | unguarded unpacking, tasks that outlive the connection, names that walk through handlers |
| Packer (`rpc/packer.py`) | caches of the translation table | `packb`, `unpackb` | a cache filled in the order of use, that must answer like the table |
| `cli/proxy.py`, `util.py`, `log.py`, `_test_util.py` | none | - | - |

How they interact.  The loop calls a transport (`_read_ready`, `_write_ready`, queued callbacks); the transport calls
its protocol (`msg_received`, `pause_writing`, `resume_writing`, `connection_lost`) *synchronously*, and the protocol may
call the transport back before it returns.  `ZmqStreamProtocol` and the RPC protocols are such protocols; what they
complete (futures of `read`, `drain`, `call`) runs later, in tasks of the loop, and may be cancelled in between.  The
`ZmqSelector` is what a `ZmqEventLoop` polls with; on other loops the transport registers zmq's own descriptor instead.
A loop has one thread, beside libzmq's I/O thread and the peers: interleavings are between callbacks and tasks, and
between an operation of the loop's thread and what arrives or leaves meanwhile.  The policy is the exception: all
threads of the process call it.

## 2. The modules

| Module | Models | State and actions in terms of the code |
|---|---|---|
| `TransportContract` | what a `ZmqTransport` promises (`interface.py`) | abstract: `accepted`, `sent`, `delivered`, `phase`; `Submit`, `Emit`, `Deliver`, `Close`, `Abort`, `Lose` |
| `BaseTransport` | `_BaseTransport` | `buffer`, `bufSize`, `low`, `high`, `protoPaused`, `paused`, `closing`, `connLost` are the attributes; `lost` is the argument of `connection_lost()`, `Detached` the cleared attributes; `ready` the loop's queue; `sent`, `room`, `inbox` libzmq's side.  Its operators are *parts* of operations: `SendAtOnce`, `Enqueue`, `SendHead`, `StartClose`, `ForceClose`, `CallConnectionLost`, `MaybePauseProtocol`, `MaybeResumeProtocol` |
| `LooplessTransport` | `_ZmqLooplessTransportImpl` | `stack` has a frame for every active `_read_ready()` with its `try_again` and `events`; `signal`, `asleep` are libzmq's descriptor.  A step is the code between two places where something else can happen: an access to the socket, or a call of the protocol |
| `ZmqTransport` | `_ZmqTransportImpl` | `readerOn`, `writerOn` are the registrations, `rdQueued`, `wrQueued` the callbacks `select()` queued, which may be cancelled by their removal |
| `Selector` | `ZmqSelector` | `keys` is `_fd_to_key`, `polled` what the poller watches; `ok` whether the poller takes a change.  `signalled`, `report`, `asked`, `waited` are the `select()` of the last step.  `modify()` takes events that `register()` refuses: a bit of neither kind stands for them |
| `Connection` | `create_zmq_connection()` in both forms, `ZmqEventLoop`, endpoints and filters | `task` stands for the coroutine, `soon` for the loop's queue; `paused` is `_paused`, and `leftPaused` remembers a `close()` that met it on a plain loop; `bindings`, `connections`, `subscriptions` are the transport's books, `bound`, `linked`, `filters` what the socket has |
| `StreamContract` | what a `ZmqStream` promises to who reads it | abstract, without lengths, marks and futures: `unread`, `returned`, `heldBack`, `blocked` (in `read()`), `due` (woken); `Arrive`, `ReadAtOnce`, `Block`, `ReadWoken`, `ReadInVain`, `GiveUp`, `Relieve`, `End` |
| `Stream` | `ZmqStream`, `ZmqStreamProtocol` | `rd`, `dr` are the tasks in `read()` and `drain()`; `queue`, `queueLen`, `waiter`, `drainWaiter`, `paused` the attributes; `kind` the transport under it |
| `StreamEvents` | the queue of monitor events of a `ZmqStream` | `evQueue`, `evWaiter`, `closing`, `exception` are the attributes, `er` the tasks in `read_event()`; `fed`, `got` what went in and came out |
| `Monitor` | `enable_monitor()`, `disable_monitor()`, `_ZmqEventProtocol`, and the end of the monitored transport | `monitor` is `_monitor`, `mon` the monitor connections, `en` the calls of `enable_monitor()` that made them, `soon` the loop's queue; `feeding`, `wire` libzmq's events on their way |
| `RpcContract` | what the request-reply RPC promises to a caller | abstract, without ids and servers: `asked`, `handled`, `answers`, `result`; `Ask`, `Handle`, `AnswerAtOnce`, `AnswerLater`, `Abandon`, `Return`, `GiveUp`, `Lose` |
| `RpcNetwork` | the DEALER/ROUTER sockets between them | `requests`, `replies`: sets of messages, taken in any order, and lost if `Lossy` |
| `RpcClient`, `RpcServer` | the two protocols and their services | `calls`, `counter`, `fut` (futures of `call()`); `running`, `finished` (coroutines) per server |
| `RpcSystem` | one client and several servers | composes the three; fairness and the properties that span both sides |
| `Packer` | `_Packer`: the hooks and caches | operators on a cache: `NewCache`, `PackHook`, `Remember`, `UnpackHook`; `FirstCode` is what a packer answers that has packed nothing yet, `LongLookup` the search that the documents describe |
| `Dispatch` | `dispatch()` of the servers | `Walk` is the loop over the namespaces of a name, `Enter` one turn of it, `Dispatch` the whole method; `AnswersTo` says without a walk what a name stands for |
| `RpcOneWay` | pub-sub and pipeline, client and server | `cache` is the client's `_pack_cache`, `call` how far each message came, `pending` is `pending_waiters`, `subs` how many instances of each filter the socket has, `abandoned` a cancelled `wait_closed()` |
| `LoopPolicy` | `ZmqEventLoopPolicy` | `loop`, `setCalled` per thread, `watcher`, `attached`, `lock`; `pc` is where a thread is in a method |
| `MC*` | instances for TLC | values of the constants |
| `LooplessTransportProofs`, `ZmqTransportProofs`, `ConnectionProofs`, `StreamProofs`, `MonitorProofs`, `RpcProofs`, `RpcOneWayProofs`, `EventLoopProofs` | proofs about the modules they are named after; `RpcProofs` is about `RpcSystem`, `EventLoopProofs` about `Selector` and `LoopPolicy` | section 5 |

`BaseTransport` is extended by both transports.  `RpcSystem` extends client and server, which extend the network.
Each of the three contracts is an abstract specification that a detailed one implements, its `ContractSpec`, checked by a run
and proved:

* both transports implement `TransportContract`, with `phase <- Phase`;
* `RpcSystem` implements `RpcContract`: the calls of the messages are what is asked, handled and answered, wherever they are
  (`Asked`, `Handled`, `Given`), and the futures of the client are the results;
* `Stream` implements `StreamContract`: held back is a transport that is paused and not lost, blocked and due are the tasks whose
  future is pending, or completed by a message.

`Monitor` extends `StreamEvents`, so that events come out where a `ZmqStream` reads them; `RpcOneWay` extends `Packer` and
`Dispatch`, of which it uses the operators.

Definitions marked *Slip* are operations as a plausible mistake would have them.  No specification uses them: each is
there to show that the property next to it in `PROJECT.json` (`mutants`) fails when the code is wrong in that way.

Abstractions.  Messages are numbers in the order they were written or arrived; `Bytes[k]` is the length of the first `k`
of them together, so that lengths, also zero, matter where the code adds them up.  Logging, wording and argument checks
that only raise are left out, and so are the values that calls carry.  What is modelled from its use, and marked
external in the map: libzmq (descriptor, poller, sockets, the network), asyncio (queue, cancellation, registrations) and
the application.  The application may call anything at any moment its callbacks or the loop let it; where a property
needs a well-behaved one, a constant says so (`Nested`, `Quirks`, `Outcomes`, `Cancels`).

## 3. The runs

`Books`, `Progress`, `EndsInOrder`, `WaitersKnown`, `NobodyForgotten`, `SelectSound` and `ConnectionsEnd` are conjunctions of
named parts, which the modules state and comment one by one; the type invariants are checked as part of `Books`, and
`Selector`'s is proved.

All runs have `CHECK_DEADLOCK FALSE`: each of these systems really stops, when the connection is lost, all messages
allowed by the bounds have gone by, or the loop is closed.

| Run | Shows |
|---|---|
| `MCLoopless` | With callbacks that call the transport back (two active `_read_ready()` at once) and an application that calls it at any moment, no wake-up is lost (`NoLostWakeup`), the connection ends once, with the right argument, and late calls trip over cleared attributes only after a flushing `close()` (`EndsInOrder`).  Fairly run, messages are handed over, the backlog goes out, a paused protocol is resumed, and `close()` ends in `connection_lost()` (`Progress`) |
| `MCLooplessAny` | The same with an application that does everything: closes in `resume_writing()`, raises in `msg_received()`, looks at EVENTS, hands in a used socket.  Order, accounting and the backlog behind a paused protocol (`Books`), the guard of `_soon_call`, and the contract, with finality in it, hold all the same |
| `MCLooplessRaise` | *Violated*: section 6 |
| `MCZmq` | The transport of a `ZmqEventLoop`: reader and writer are registered exactly when wanted (`Registered`); order and accounting (`Books`), the contract and the liveness as above; nothing is read after `close()`, which the loopless transport cannot say |
| `MCSelector` | The map and the poller agree through failures, also after `modify()` took events that ask for nothing; a registered object can be unregistered, closed or not, with its descriptor reused; `select()` reports what was asked for and waits long enough (`SelectSound`) |
| `MCConnection` | Two tasks that want the same endpoint, fail half way, are cancelled, closed before they return, one of them pausing and resuming reading at any moment; the books are truthful, and a registered closed socket is left behind by two things only, a creation that failed and a `close()` of a paused transport on a plain loop (`Books`); the loop closes what it returned, creation and closing come to an end (`ConnectionsEnd`) |
| `MCStream` | A stream on both transports, with a reader, two drainers, cancellation everywhere and the end of the connection: order, accounting and flow control in step (`Books`), no forgotten waiter, and a woken `read()` that finds its message, also where a loopless transport lost its connection ahead of it with an error; only a closed loopless transport may make such a read fail (`WaitersKnown`).  Who reads sees the contract: the transport is held back only while there is something to read, and `read()` waits only while there is not.  Every message is read, a paused transport is resumed, every reader released (`Progress`) |
| `MCRpc` | A client with a timeout, two servers, a lossy reordering network, an id space of two for three calls: each call gets its own answer, at most once, and keeps its id until its answer is gone (`IdsHeld`, in `Books`).  The whole implements `RpcContract`: it is handled once at most, comes to what its own handler answered, and stays what it came to |
| `MCRpcLive` | No losses, ordinary handlers, two `wait_closed()` that may be cancelled: every call ends without a timeout (`CallsEnd`); the end of the connection releases callers, coroutines and waiters, up to a cancelled `wait_closed()` (`NobodyForgotten`) |
| `MCMonitor` | Two calls of `enable_monitor()`, with each other, `close()`, `abort()`, errors and their own cancellation in every order, on both transports: an open monitor connection has an owner that will close it, but in the races that the code does not close (`MonitorsOwned`); no event comes after the end, but from such a one and in one order of a loopless flush (`EventsInTime`); the monitor ends with the transport (`MonitorEnds`).  Events reach `read_event()` in order, the oldest dropped first (`Books`), and a reader that waits will be woken, to a queue with something in it, but with a backlog of 0 (`EventReaderServed`) |
| `MCOneWay` | Pub-sub and pipeline: every name and class in every order, foreign messages, losses, subscriptions that change, closing on both sides.  The cache makes no difference to what is packed (`Books`), only the function that a name stands for is run, on a value packed by an entry of a class that it is an instance of (`RightCall`), and `pending_waiters` has what runs, so that the end of the connection leaves nothing running, unless a `wait_closed()` was cancelled (`PendingKnown`) |
| `MCPolicy` | Three threads in every interleaving of their looks at `_watcher`: one default watcher (`Books`), and, in the middle of calls as between them, what a look at `_watcher` said holds when it is used, the watcher is attached to the loop of the main thread or to none, and nothing else is (`WatchersInOrder`): as long as no `set_child_watcher()` ran between another thread's look and its use.  Those races, which the code does not close, are not covered |

**Bounds.**  `MaxWrites` and `MaxIn` of two or three messages give a full buffer, a partial flush and an empty message
between two others (`MCZmq`) or ahead of them (`MCLoopless`).  `MaxRoom` is less than `MaxWrites` in every run, so that a backlog meets a full socket, waits for the
peer (`PeerReads`) and, with three writes, is flushed in parts: room for one message and two (`MCLoopless`, of 0 and 2 bytes) or three
writes (`MCLooplessAny`), room for two and three writes (`MCZmq`).  `MaxDepth` two is one nested `_read_ready()`;
a deeper one starts from the same states.  `MaxQueue` stops EINTR (which queues a call each time) and nothing else.  Two
pairs of water marks, one with a zero and one without, cross every comparison.  `MaxId = 1` is a counter of two values,
so that three calls come round once.  Two files on one descriptor are the least that reuse it, with one socket for the
other kind of handle.  Two connections and one endpoint give the conflict; one of the two pauses reading
(`Pausing`) and the other one has filters; `MaxFilters` two, there and in `RpcOneWay`, is a filter with two instances.  In `Stream` and `Monitor` one reader is what the class supports; with two, section 6.  `MaxMonitors`
two is the race of `enable_monitor()`.  `MaxEvents` three with backlogs of 0, 1 and 2 overflows each of them; the default,
`None`, is any backlog that is not reached, as 2 is by two events.  Two messages in `RpcOneWay` fill the cache
in every order of two classes; its offers have each name and each class, and names that lead nowhere, to what is not exposed, or to a handler
that raises TypeError.  In `LoopPolicy` three threads are two that race for the lock beside the main one, and
`MaxDefaults` two with `MaxCleared` one allow a second default watcher after a legal one, so that an illegal second one
is within the bound.
The proofs of section 5 do not depend on the bounds.

**Symmetry** is used in `MCPolicy`, of the threads that are not the main one and of the loops; that run checks invariants only.
Most others check liveness, where it is unsound.

## 4. Fairness

Always *weak* fairness of the loop: a callback that is queued is run, a registered descriptor that is readable is
polled and its callback queued (`asyncio` runs all of `_ready`, then polls, in every iteration).  Weak fairness of
`PeerReads`: somebody reads at the other end, without which no backlog goes out.

*Strong* fairness for `ReadMessage`, `SendOk`: an access to the socket may fail with EINTR or EAGAIN and be tried again,
so that success is enabled again and again but not always; EINTR does not strike every time for ever.  Strong fairness
of `HandlerReturns`, `ResumeReturns` in `LooplessTransport`: a callback does return, although what it calls may make
another `_read_ready()` active in between.  Cancelling, closing, failing and writing are never fair: the application
need not do them.

In `Stream`, tasks that can run do, and a transport whose connection is closing loses it.  In `RpcSystem` the messages
of an open connection are handed to the protocols (`FairSpec`), and only `FairHandlersSpec` has coroutines that end.  In
`Monitor` the loop runs its queue (`RunSoon`), and neither events nor the flush of a backlog are fair.  In
`Connection`, the loop runs its queue as long as it does not poll a closed socket: what zmq's poller does then is not the
code's to say, so nothing is claimed.

## 5. What is proved

For every value of the constants: any number and length of messages, any water marks, depth of nesting, number of tasks,
connections, threads, servers, ids and monitors, any application, and any schedule of libzmq's I/O thread.  Constants have the named
assumptions of their modules: natural bounds, `Bytes` not decreasing from zero, `low <= high`, model values for None apart
from what they are not, a finite table of classes each its own superclass, names that are sequences of `Parts`, finitely many connections, and at least one
instance of a filter (`MaxFilters`).  Hypotheses
beyond these are in the theorem's statement and explained below; each comes with a run, or a configuration of section 6,
that shows what happens without it.

All invariants and safety properties that the passing runs check are proved, the three contracts among them.

**Both transports.**  `LooplessTransportProofs` and `ZmqTransportProofs` begin with the same lemmas, one for each operation
of `BaseTransport`: it keeps `QueueInv` (types, `sent` followed by `buffer` is `1..accepted`, `bufSize` is the
difference of two values of `Bytes`, and a paused protocol has a backlog; the last needs the exact size, to know that the flush that
empties the buffer goes below every mark).  The proofs then only say which operation an action is.

**Loopless transport** (`LooplessTransportProofs`)

* `BooksHold`, and its parts `OutboundFifoHolds`, `BufferSizeHolds`, `PausedHasBacklogHolds`, from `QueueInv`;
  `TypeCorrect` needs the invariant that the stack of frames is one, push and pop included.
* `SoonCallQueuedHolds`: a `_soon_call` that is set is still queued.
* `WakeupInductiveHolds`, `NoLostWakeupHolds`.  `NoLostWakeup`, which `MCLoopless` checks, speaks of a thread that is back in the loop, and is not
  inductive.  In the middle of calls the descriptor may well be silent with work to do, provided some active
  `_read_ready()` still has a *duty*: it will look at EVENTS again, or has it looked at.  `WakeupInductive` is
  the claim for stacks without a duty; each step either queues a call, leaves a duty on top, or touches
  neither the descriptor nor the work.  Both theorems say `Quirks = {}`, and the runs show why: with a
  `msg_received()` that raises, an application that looks at EVENTS, or a used socket, wake-ups are lost.
* `ContractHolds`: every step is a step of `TransportContract` or a stutter.  The extra fact needed is that `_conn_lost` with messages outstanding means that they were discarded.
* `EndsInOrderHolds`.  The invariant is `Pending` (a queued `connection_lost()` is the only one, has the right argument and finds
  a protocol), `Flushing` (what runs on a detached transport runs after a flush) and `InOrder` (a `_read_ready()` that has sent
  something does so for a transport that is not forced to close).  The theorem says `ResumeKeepsOpen`: `resume_writing()` does not
  close or fail the transport, since the `_do_write()` that called it would close it again, and does not call `resume_reading()`, whose
  nested `_read_ready()` may.

**Transport of a `ZmqEventLoop`** (`ZmqTransportProofs`)

* `BooksHold`, `RegisteredHolds`, `NoDataAfterCloseHolds`.  `Registered` speaks of a thread that is back in the loop; in the middle of
  `_write_ready()` the writer may be registered for nothing, but never missing (`Polling`).  The rest of `ZmqInv` is
  `Life`: a transport that lost its connection is closed, empty, and not in the middle of a callback.
* `ContractHolds`, as above, and `NothingAfterLostHolds`: a detached transport sends, receives and accepts nothing.  `EndsInOrderHolds` under `ResumeKeepsOpen`, here of what closes or
  fails the transport only: there is no nested reading.

**Stream** (`StreamProofs`)

* `BooksHold`, for both kinds of transport.  The invariant says of each message in the queue which one it is (`InQueue`), and
  of what was returned that it is all that left the queue, unless a `read()` failed with a message in hand (`OutOfQueue`).
* `DrainerKnownHolds`, for any number of tasks in `drain()`: all but one run into the assertion.
* `ReaderKnownHolds` says `OneReader`, `WaitersKnownHolds` also `NoEmptyMessages`: what the class supports, and what `_queue_len` can
  tell.  The invariant adds `WokenHaveData`: nobody can take the message of a reader that was woken and has not run, also when the
  connection is lost ahead of it, as a loopless transport can make it (a queued `_read_ready()` hands a message over, and
  `connection_lost()` is called before the task runs).  The read then succeeds after `connection_lost(exc)`; after a close, which
  takes `_transport` away, it may fail on a loopless transport with its message in hand (`ReadsSucceed`).
* `ContractHolds`, under the same hypotheses.  A `read()` may leave the transport held back only with a message in the queue: that
  takes the exact length, which is zero for an empty queue and so above no mark (`HeldBackHasData`).  `read()` waits only while nothing
  is unread because `_queue_len` tells (`LengthTells`), and `feed_msg()` makes due all who are blocked because it knows the one that
  waits (`WakeMoves`).

**Monitor** (`MonitorProofs`)

* `MonitorsOwnedHolds`.  The invariant ties `_monitor`, the calls of `enable_monitor()` and the end of the transport together
  (`Overtaken`): of two calls that wait each overtakes the other, and a monitor that is there while another call waits, or once
  the transport was closed, is one of an overtaken call.
* `EventsInTimeHolds`: the call that ends a monitor connection is ahead, in the loop's queue, of the one that ends the transport
  (`Ahead`), or the transport was flushed, or the monitor overtaken.
* `MonitorBooksHold`: an event is on its way or was fed, once (`Once`), and the queue is the end of what was fed (`Queued`), which
  needs what a bounded deque keeps (`LastProperties`).
* `EventReaderServedHolds` says `OneReader`; section 6 has what two readers do to each other.

**Request-reply RPC** (`RpcProofs`, about `RpcSystem`), for any number of calls, servers and closers, with ids that come round
after any number, over a network that loses and reorders

* `RpcBooksHold`, `AnswersMatchHolds`, `AtMostOnceHolds`, and `OutcomeFinalHolds`, a part of the contract said of the futures.  `IdsHeld`
  alone is not inductive: two messages under one id would free it twice.  `RpcInv` adds `IdsInUse` (an id stands for a call that was
  made and has no answer, and a call has one id) and `OneTrace` (a call is in one place: on its way, running, finished or answered),
  said place by place.
* `RpcContractHolds`: every step is a step of `RpcContract` or a stutter.  The contract has sets of calls where the system has messages under
  ids, so `OneTrace` is what makes a message that goes take its call along (`AskedWithout`, `HandledWithout`, `GivenWithoutReply`,
  `GivenByResult`), and `IdsHeld` what makes the future that an answer completes the one of its call.  A callback that writes
  its reply is a stutter, a lost connection of a server is one `Abandon` of all that runs there.
* `LossIsKnownHolds` holds as it stands.  `NobodyForgottenHolds` says that no handler's exception is one the client cannot rebuild
  (`"odd"`), `ClosersReleasedHolds` that no `wait_closed()` is cancelled, `IdsFreshHolds` that there are fewer calls than ids.

**One-way RPC** (`RpcOneWayProofs`)

* `CacheHolds`, and with it `BooksHold`: the cache makes no difference.  The invariant adds that a class with an entry of its own
  is in the cache from the beginning, so that the long lookup, which may find a superclass, is never made for it.
* `PendingKnownHolds`.  The invariant adds `Fresh`: a message that was not sent has no call, and one on its way has none
  either and is on its way once, so that `msg_received()` never starts a second task under the number of a first.
  That nothing runs after the connection was lost is said under `~abandoned`, as the code has it.
* `RightCallHolds`, for names of any length through handlers nested to any depth.  `Walk` is a recursive function over the parts of a
  name; that it exists and follows a chain of handlers is an induction over its length (`WalkFollows`), done as the search for a
  smallest number for which it fails, since the theorem of the library takes an operator.  `DispatchSound` and
  `DispatchComplete` say that `dispatch()` finds a function exactly if `AnswersTo` has it.  The same lemma (`Smallest`) gives
  the least and greatest of a finite set of codes that the packer asks for.

**Connections** (`ConnectionProofs`), for any number of tasks, endpoints and filters: `BooksHold`, `ReturnedWasMadeHolds`,
`LoopClosesSocketsHolds`.  The three are not inductive; `ConnInv` adds what is known of each connection, in four parts.

* `QueueOK` is about the loop's queue (`Fits`): one call at most about the protocol of a connection, and one about its task;
  `connection_made()` is ahead of what wakes the task, unless it was called, and `connection_lost()` is queued only by a transport that
  lost its connection.  `ReturnedWasMade` follows.  The bound of the queue in `Books`, two calls for a connection, is that of an injection
  into the places that connections have.
* `LifeOK` and `ToldOK` tie task, transport and protocol together, through cancellation and failure in every await: only a creation
  that raised OSError has a socket that is closed under a transport that was not told (`NotTold`), and only that, or a `close()` of a paused
  transport on a plain loop, leaves a reader registered when its time is over (`LeftOn`).
* `BooksOK`: what a transport lists, an open socket has; before there is a socket it lists nothing.
* `LoopOK`: `_zmq_sockets` of a `ZmqEventLoop` has exactly what was returned, and a closed loop has closed all of it and calls nothing any more.

**Selector** (`EventLoopProofs`): `SelectorTypeCorrect`, `InSyncHolds`, `FindableHolds`.  The invariant is `MapInv`: an
object has one key at most, under the descriptor it has if it has one, and only files that were opened have a key.  That
is what keeps a new file on a reused descriptor from being found in place of the old one.  `SelectSoundHolds` adds that the
milliseconds that a timeout is rounded to cover it, for any timeout, and that what is polled has a key.

**Policy** (`EventLoopProofs`), for any number of threads

* `PolicyBooksHold`.  `OneDefault`, at most one watcher of the
  policy's own beyond those that were taken away, is not inductive: the invariant adds `Locked` (a thread between its second
  look at `_watcher` and the end of `_init_watcher()` holds the lock) and `Owed` (without a watcher, and past that look, one more is
  due).  Threads that replace the watcher do not hold the lock; that they may only take one away, counted in `cleared`, or
  put one of their own, is what keeps `Owed`.
* `WatchersInOrderHolds`, in the middle of calls, too.  The invariant adds that only the main thread attaches, and that a
  `set_child_watcher()` between a look and its use is seen (`Noticed`).  The theorem says nothing of what comes after such a
  call: section 6.

**Only model-checked**: the violation of section 6, and all liveness (`Progress` of the transports and of the stream, `CallsEnd`,
`ConnectionsEnd`, `MonitorEnds`), since the prover has no fairness and no `ENABLED`.

## 6. Where code and documents disagree

`MCLooplessRaise` is expected to end in a violation, of something a document says (quoted in `PROJECT.json`, `findings`):
an exception of `msg_received()` skips the second look at EVENTS (`core.py` 726), and a message that has already arrived
is not handed over until something else happens.

The modules state more that the code does not do; change the named configuration, or the property, as said to see it
fail:

| Property | Configuration | What happens |
|---|---|---|
| `NoDataAfterClose`, `NoFaults`, `ReaderRemoved` of `LooplessTransport` | `MCLoopless` | a closed transport that flushes goes on reading; late calls raise AttributeError after it; `close()` while paused leaves the descriptor registered |
| `LostArgTruthful` | `MCLooplessAny`; `MCZmq` with `Nested <- Anything` | `resume_writing()` closes or fails: `connection_lost(None)` ahead of the queued one |
| `ReadsSucceed`, with `"read"` for loopless streams, too | `MCStream` | a loopless transport that was closed is lost ahead of the task that reads: the popped message is gone |
| `DrainNeverAsserts` | `MCStream` | two tasks drain a paused stream |
| `IdsFresh` | `MCRpc` | the counter comes round to a call never answered, `call()` fails an assertion |
| `ClosersReleased` | `MCRpcLive` | one cancelled `wait_closed()` keeps the later ones waiting, and the calls |
| `CoroutinesStop` | `MCRpcLive` with `FairSpec` | the server's timeout is stored and never used |
| `WaitersKnown` (`WaitsForData`), `ContractSpec` | `MCStream` with `Bytes <- ZeroBytes` | `read()` waits with an empty message in the queue: `stream.py` 284 tests `_queue_len` |
| `WaitersKnown` (`ReaderKnown`), `ContractSpec` | `MCStream` with `Readers = {r1, r2}`, `r2` a second constant of `MCStream` | the `finally` of one reader wipes out the waiter of the other (`stream.py` 294) |
| `EventReaderServed` | `MCMonitor` with `EventReaders = {r1, r2}`, `r2` a second constant of `MCMonitor` | the same in `read_event()` |
| `CallsEnd`, without `NobodyForgotten`, which fails first | `MCRpcLive` with `Outcomes <- Odd` | an exception the client cannot rebuild leaves its caller waiting (`rpc.py` 185) |
| `CallsEnd` | `MCRpcLive` with `Outcomes <- Silent` | a handler that ends in CancelledError, or raises what cannot be packed, sends no reply (`rpc.py` 344) |
| `EventsInTime` without its exception for loopless transports | `MCMonitor` | the flush of a closed backlog calls `connection_lost()` ahead of a `_read_ready()` of the monitor |
| `MonitorsOwned` without `i \in overtaken` | `MCMonitor` | `close()` or a cancellation in the await of `enable_monitor()`: the monitor connection stays open, and nobody will close it |
| `WatchersInOrder` without `~crossed` | `MCPolicy` | two threads that replace the watcher, or one that does while the main thread sets its loop |
| `PendingKnown` without `~abandoned` | `MCOneWay` | a cancelled `wait_closed()` makes `connection_lost()` raise ahead of the cancellation of the tasks (`base.py` 143, 166) |
| `StrandedKnown` without `leftPaused` | `MCConnection` | `close()` of a paused transport on a plain loop closes the socket and leaves its descriptor registered (`core.py` 778) |
| `StrandedKnown` without `error[c] = "OSError"` | `MCConnection` | a creation that fails to bind closes the socket under a registered transport, which is told nothing (`core.py` 121) |
| `AscendingSearch(cache)`, as an invariant | `MCOneWay` | the documents' order of lookup, which classes with an entry of their own do not have: below |

The packer and its document.  `docs/rpc.rst` 567-568 says "When the library tries to pack your class instance it searches the
*translation table* in ascending order", and 577-581 warns that "if you have object at position 0 then every lookup will stop at
this.  Even datetime objects will be redirected".  The code fills the cache with the classes of the table first (`NewCache`), so
that a class with entries of its own gets the *highest* of them, and never that of a superclass with a lower code; the search in
ascending order (`LongLookup`) is for other classes only.  In `MCOneWay` `date` has the codes 1 and 3: the document says 1, the code takes 3.  `Books` and
`RightCall` therefore do not say which entry is the right one, but that the cache never changes it.

Met on the way, and in the models: `serve_pubsub()` with a bad topic raises after its server was made, and leaves it open with nobody to close it
(`pubsub.py` 113-115, `Serve`).  A creation that is cancelled in its await leaves an open socket and a registered transport
that nobody holds (`core.py` 165, `Cancel`); `LoopClosesSockets` speaks of returned connections only.  A `read_event()` called after `set_exception()` waits for ever, since it looks at `_closing` only
(`stream.py` 302, `ReadEventWait`).  A blank in front of a name is no namespace: `.f` calls `f`.

## 7. Not modelled, and the plan

Not modelled: `cli/proxy.py` (arguments, then one call), `_EndpointsSet` (a read-only view), log and test helpers, socket
options other than filters, which leave no state in the transport, and the decoding of a monitor event.  `unregister()` by
an integer that is the number of a *closed* descriptor, and raw
calls of `zmq_sock` behind the transport's back, are outside the models' inputs.  `Connection` leaves out the weakness of
`_zmq_sockets` (a transport keeps its socket alive) and what is done to transports after the loop was closed.  In
`RpcServer` the name and arguments of a request only decide whether it is refused; `Dispatch` is joined to `RpcOneWay`.

What could follow: `TransportContract` hands messages over without being held back, and `StreamContract` has a transport that is; a
contract of both halves, of which `Stream`'s own view of its transport (`Transport`) would be the environment, would replace what
is now an assumption of `Stream`, argued for in its comments: that a `ZmqEventLoop` loses a connection behind the tasks it woke (a loopless transport may do so ahead of them).
