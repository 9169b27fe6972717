----------------------------- MODULE Connection -----------------------------
(***************************************************************************)
(* The life of connections of one loop (aiozmq/core.py): tasks in          *)
(* create_zmq_connection(), which make a socket, a transport and a         *)
(* protocol, wait for connection_made(), and then bind and connect;        *)
(* what the transport writes down of endpoints and filters, beside what    *)
(* the socket has; closing a connection, and closing the loop.             *)
(*                                                                         *)
(* Both transports are here, that of a ZmqEventLoop and that of any other  *)
(* loop, as far as this is concerned; messages are in the modules of the   *)
(* transports, so that close() never has a backlog to flush.               *)
(***************************************************************************)
EXTENDS Naturals, Sequences, FiniteSets

CONSTANTS
  Conns,      \* calls of create_zmq_connection()
  Subs,       \* those of them with a SUB socket
  Pausing,    \* those of them whose application pauses reading
  Endpoints,
  Values,     \* filters of subscriptions
  Plans,      \* arguments bind and connect: sequences of [op, endpoint]
  MaxFilters  \* bound on the instances of a filter

ASSUME ConnectionAssumption ==
  /\ Subs \subseteq Conns /\ Pausing \subseteq Conns
  /\ Plans \subseteq Seq([op : {"bind", "connect", "invalid"}, endpoint : Endpoints])
  /\ MaxFilters \in Nat \ {0}
  /\ IsFiniteSet(Conns)

VARIABLES
  kind,         \* of the loop: "zmq" or "plain"
  loopOpen,     \* the loop is not closed
  soon,         \* callbacks the loop has been asked to call soon
  task,         \* of create_zmq_connection(): what became of it
  plan,         \* and its arguments, while it waits
  error,        \* and what it raised
  sock,         \* "none", "open" or "closed"
  reader,       \* the transport's reader is registered
  paused,       \* _paused
  leftPaused,   \* history: not on a ZmqEventLoop, close() met _paused
  closing,      \* _closing
  connLost,     \* _conn_lost # 0
  proto,        \* what the protocol was told: "new", "made" or "lost"
  tracked,      \* _zmq_sockets of the loop
  bindings, connections, subscriptions,  \* _bindings, _connections, _subscriptions
  bound, linked, filters                 \* what the socket has of each

taskVars == <<task, plan, error>>
tranVars == <<reader, paused, leftPaused, closing, connLost, proto>>
bookVars == <<bindings, connections, subscriptions>>
zmqVars  == <<bound, linked, filters>>
loopVars == <<kind, loopOpen, tracked>>
vars == <<kind, loopOpen, soon, task, plan, error, sock, reader, paused, leftPaused,
          closing, connLost, proto, tracked, bindings, connections, subscriptions, bound, linked, filters>>

Free(e) == \A d \in Conns : e \notin bound[d]

\* A closed socket has nothing left.
Unbound(c) ==
  /\ bound' = [bound EXCEPT ![c] = {}]
  /\ linked' = [linked EXCEPT ![c] = {}]
  /\ filters' = [filters EXCEPT ![c] = [v \in Values |-> 0]]

\* A registered reader of a closed socket: what a poller may raise at, or be misled by
\* when the descriptor is used again.
Stranded(c) == reader[c] /\ sock[c] = "closed"

-----------------------------------------------------------------------------
(* create_zmq_connection(), up to its await.                               *)

\* Slip: the waiter is completed at once.
MadeSoonUnordered(c) == <<[call |-> "wake", conn |-> c], [call |-> "made", conn |-> c]>>

\* What the constructor of the transport asks the loop to call.
MadeSoon(c) == <<[call |-> "made", conn |-> c], [call |-> "waiter", conn |-> c]>>

\* A socket of the right type, new or brought along with what it is bound to
\* and subscribed to already, and a transport for it.
Create(c, p, before) ==
  /\ loopOpen /\ task[c] = "idle"
  /\ task' = [task EXCEPT ![c] = "waiting"]
  /\ plan' = [plan EXCEPT ![c] = p]
  /\ sock' = [sock EXCEPT ![c] = "open"]
  /\ bound' = [bound EXCEPT ![c] = before]
  /\ filters' = IF c \in Subs /\ before # {}
                  THEN [filters EXCEPT ![c] = [v \in Values |-> 1]] ELSE filters
  /\ reader' = [reader EXCEPT ![c] = TRUE]
  /\ soon' = soon \o MadeSoon(c)
  /\ UNCHANGED <<error, paused, leftPaused, closing, connLost, proto, bookVars, linked, loopVars>>

\* No socket to be had, or one of the wrong type, or closed.
CreateRefused(c) ==
  /\ loopOpen /\ task[c] = "idle"
  /\ task' = [task EXCEPT ![c] = "raised"]
  /\ UNCHANGED <<plan, error, sock, tranVars, bookVars, zmqVars, soon, loopVars>>

\* The task is cancelled in its await, or just before it goes on.
Cancel(c) ==
  /\ task[c] = "waiting"
  /\ task' = [task EXCEPT ![c] = "cancelled"]
  /\ plan' = [plan EXCEPT ![c] = <<>>]
  /\ UNCHANGED <<error, sock, tranVars, bookVars, zmqVars, soon, loopVars>>

-----------------------------------------------------------------------------
(* The rest of create_zmq_connection().                                    *)

Steps(c, op, n) == {plan[c][i].endpoint : i \in {j \in 1..n : plan[c][j].op = op}}

\* The first n steps succeed: a transport with a socket, arguments of the right
\* type, and endpoints nobody is bound to.
Succeed(c, n) ==
  \A i \in 1..n :
    /\ proto[c] # "lost" /\ sock[c] = "open"
    /\ plan[c][i].op # "invalid"
    /\ plan[c][i].op = "bind" =>
         Free(plan[c][i].endpoint) /\ \A j \in 1..(i - 1) : plan[c][j] # plan[c][i]

\* How a step may fail. Without a socket or with a bad argument it is no OSError.
Errors(c, step) ==
  IF proto[c] = "lost" \/ step.op = "invalid" THEN {"other"} ELSE {"OSError"}

\* Slip: the socket is not told to the loop.
TrackNone(c) == UNCHANGED tracked

\* _zmq_sockets, of a ZmqEventLoop only.
Track(c) == tracked' = IF kind = "zmq" THEN tracked \cup {c} ELSE tracked

Return(c) ==
  /\ Succeed(c, Len(plan[c]))
  /\ task' = [task EXCEPT ![c] = "returned"]
  /\ bindings' = [bindings EXCEPT ![c] = @ \cup Steps(c, "bind", Len(plan[c]))]
  /\ connections' = [connections EXCEPT ![c] = @ \cup Steps(c, "connect", Len(plan[c]))]
  /\ bound' = [bound EXCEPT ![c] = @ \cup Steps(c, "bind", Len(plan[c]))]
  /\ linked' = [linked EXCEPT ![c] = @ \cup Steps(c, "connect", Len(plan[c]))]
  /\ Track(c)
  /\ UNCHANGED <<error, sock, filters>>

\* Step n + 1 raises. The socket is closed after an OSError only, and under a
\* transport that does not learn of it.
Raise(c, n) ==
  /\ n < Len(plan[c]) /\ Succeed(c, n)
  /\ task' = [task EXCEPT ![c] = "raised"]
  /\ bindings' = [bindings EXCEPT ![c] = @ \cup Steps(c, "bind", n)]
  /\ connections' = [connections EXCEPT ![c] = @ \cup Steps(c, "connect", n)]
  /\ \E err \in Errors(c, plan[c][n + 1]) :
       /\ error' = [error EXCEPT ![c] = err]
       /\ IF err = "OSError"
          THEN sock' = [sock EXCEPT ![c] = "closed"] /\ Unbound(c)
          ELSE /\ bound' = [bound EXCEPT ![c] = @ \cup Steps(c, "bind", n)]
               /\ linked' = [linked EXCEPT ![c] = @ \cup Steps(c, "connect", n)]
               /\ UNCHANGED <<sock, filters>>
  /\ UNCHANGED tracked

Resume(c) ==
  IF task[c] = "waiting"
  THEN /\ Return(c) \/ \E n \in 0..Len(plan[c]) : Raise(c, n)
       /\ plan' = [plan EXCEPT ![c] = <<>>]
       /\ UNCHANGED <<tranVars, subscriptions, kind, loopOpen>>
  ELSE UNCHANGED <<taskVars, sock, tranVars, bookVars, zmqVars, loopVars>>

-----------------------------------------------------------------------------
(* The loop runs what it was asked to call soon.                           *)

First(call, c) == soon # <<>> /\ Head(soon) = [call |-> call, conn |-> c]

RunMade(c) ==
  /\ First("made", c)
  /\ soon' = Tail(soon)
  /\ proto' = [proto EXCEPT ![c] = "made"]
  /\ UNCHANGED <<taskVars, sock, reader, paused, leftPaused, closing, connLost, bookVars,
                 zmqVars, loopVars>>

\* The waiter of a cancelled task refuses its result.
RunWaiter(c) ==
  /\ First("waiter", c)
  /\ soon' = Tail(soon) \o
               IF task[c] = "waiting" THEN <<[call |-> "wake", conn |-> c]>> ELSE <<>>
  /\ UNCHANGED <<taskVars, sock, tranVars, bookVars, zmqVars, loopVars>>

RunWake(c) ==
  /\ First("wake", c)
  /\ soon' = Tail(soon)
  /\ Resume(c)

\* _call_connection_lost.
RunLost(c) ==
  /\ First("lost", c)
  /\ soon' = Tail(soon)
  /\ proto' = [proto EXCEPT ![c] = "lost"]
  /\ sock' = [sock EXCEPT ![c] = "closed"]
  /\ Unbound(c)
  /\ UNCHANGED <<taskVars, reader, paused, leftPaused, closing, connLost, bookVars, loopVars>>

RunSoon == \E c \in Conns : RunMade(c) \/ RunWaiter(c) \/ RunWake(c) \/ RunLost(c)

-----------------------------------------------------------------------------
(* The protocol has the transport from connection_made() on, and so has the *)
(* application: what they do with it, between two callbacks of the loop.    *)

Usable(c) == loopOpen /\ proto[c] = "made"
LostSoon(c) == soon' = Append(soon, [call |-> "lost", conn |-> c])

\* Slip: nothing is queued.
CloseSilently(c) ==
  /\ Usable(c) /\ ~closing[c]
  /\ closing' = [closing EXCEPT ![c] = TRUE]
  /\ connLost' = [connLost EXCEPT ![c] = TRUE]
  /\ reader' = [reader EXCEPT ![c] = paused[c] /\ reader[c]]
  /\ UNCHANGED <<taskVars, soon, sock, paused, leftPaused, proto, bookVars, zmqVars, loopVars>>

\* close().  While reading is paused the reader is left to itself, although only a
\* ZmqEventLoop has removed it then.  Otherwise remove_reader() of a ZmqEventLoop
\* asks a socket for its descriptor: of a closed one it raises, and leaves the
\* transport half closed.
Close(c) ==
  /\ Usable(c) /\ ~closing[c]
  /\ closing' = [closing EXCEPT ![c] = TRUE]
  /\ leftPaused' = [leftPaused EXCEPT ![c] = kind = "plain" /\ paused[c]]
  /\ IF kind = "zmq" /\ sock[c] = "closed" /\ ~paused[c]
     THEN UNCHANGED <<soon, connLost, reader>>
     ELSE /\ connLost' = [connLost EXCEPT ![c] = TRUE]
          /\ reader' = [reader EXCEPT ![c] = paused[c] /\ reader[c]]
          /\ LostSoon(c)
  /\ UNCHANGED <<taskVars, sock, paused, proto, bookVars, zmqVars, loopVars>>

\* Slip: the reader of a paused transport is left to itself, as in close().
AbortLeavingPaused(c) ==
  /\ Usable(c) /\ ~connLost[c]
  /\ closing' = [closing EXCEPT ![c] = TRUE]
  /\ connLost' = [connLost EXCEPT ![c] = TRUE]
  /\ reader' = IF (kind = "zmq" /\ closing[c]) \/ paused[c]
                 THEN reader ELSE [reader EXCEPT ![c] = FALSE]
  /\ LostSoon(c)
  /\ UNCHANGED <<taskVars, sock, paused, leftPaused, proto, bookVars, zmqVars, loopVars>>

\* abort() and errors, _force_close(): fit for a closed socket, but a transport
\* of a ZmqEventLoop that is closing or paused is taken to have no reader.
Abort(c) ==
  /\ Usable(c) /\ ~connLost[c]
  /\ closing' = [closing EXCEPT ![c] = TRUE]
  /\ connLost' = [connLost EXCEPT ![c] = TRUE]
  /\ reader' = IF kind = "zmq" /\ (closing[c] \/ paused[c])
                 THEN reader ELSE [reader EXCEPT ![c] = FALSE]
  /\ LostSoon(c)
  /\ UNCHANGED <<taskVars, sock, paused, leftPaused, proto, bookVars, zmqVars, loopVars>>

\* A change of the reader with a ZmqEventLoop, which needs an open socket; any other
\* loop is not told of pauses.
Register(c, on) ==
  reader' = IF kind = "zmq" /\ sock[c] = "open" THEN [reader EXCEPT ![c] = on] ELSE reader

\* pause_reading(), which sets _paused first.
PauseReading(c) ==
  /\ c \in Pausing /\ Usable(c) /\ ~closing[c] /\ ~paused[c]
  /\ paused' = [paused EXCEPT ![c] = TRUE]
  /\ Register(c, FALSE)
  /\ UNCHANGED <<taskVars, soon, sock, leftPaused, closing, connLost, proto, bookVars,
                 zmqVars, loopVars>>

\* resume_reading(), which does no more than clear _paused of what is closing.
ResumeReading(c) ==
  /\ Usable(c) /\ paused[c]
  /\ paused' = [paused EXCEPT ![c] = FALSE]
  /\ IF closing[c] THEN UNCHANGED reader ELSE Register(c, TRUE)
  /\ UNCHANGED <<taskVars, soon, sock, leftPaused, closing, connLost, proto, bookVars,
                 zmqVars, loopVars>>

\* bind(), on a socket that is there and an endpoint nobody is bound to; if
\* LAST_ENDPOINT cannot be had, it raises with the socket bound.
Bind(c, e) ==
  /\ Usable(c) /\ sock[c] = "open" /\ Free(e)
  /\ bound' = [bound EXCEPT ![c] = @ \cup {e}]
  /\ \/ bindings' = [bindings EXCEPT ![c] = @ \cup {e}]
     \/ UNCHANGED bindings
  /\ UNCHANGED <<taskVars, soon, sock, tranVars, connections, subscriptions, linked,
                 filters, loopVars>>

\* unbind(), of an endpoint the socket is bound to.
Unbind(c, e) ==
  /\ Usable(c) /\ sock[c] = "open" /\ e \in bound[c]
  /\ bound' = [bound EXCEPT ![c] = @ \ {e}]
  /\ bindings' = [bindings EXCEPT ![c] = @ \ {e}]
  /\ UNCHANGED <<taskVars, soon, sock, tranVars, connections, subscriptions, linked,
                 filters, loopVars>>

Connect(c, e) ==
  /\ Usable(c) /\ sock[c] = "open"
  /\ linked' = [linked EXCEPT ![c] = @ \cup {e}]
  /\ connections' = [connections EXCEPT ![c] = @ \cup {e}]
  /\ UNCHANGED <<taskVars, soon, sock, tranVars, bindings, subscriptions, bound, filters,
                 loopVars>>

\* disconnect(), of an endpoint the socket is connected to.
Disconnect(c, e) ==
  /\ Usable(c) /\ sock[c] = "open" /\ e \in linked[c]
  /\ linked' = [linked EXCEPT ![c] = @ \ {e}]
  /\ connections' = [connections EXCEPT ![c] = @ \ {e}]
  /\ UNCHANGED <<taskVars, soon, sock, tranVars, bindings, subscriptions, bound, filters,
                 loopVars>>

\* subscribe() of a new value, and setsockopt(SUBSCRIBE) of any: one instance
\* more of the filter.
Subscribe(c, v, raw) ==
  /\ Usable(c) /\ sock[c] = "open" /\ c \in Subs
  /\ raw \/ v \notin subscriptions[c]
  /\ filters[c][v] < MaxFilters
  /\ filters' = [filters EXCEPT ![c][v] = @ + 1]
  /\ subscriptions' = [subscriptions EXCEPT ![c] = @ \cup {v}]
  /\ UNCHANGED <<taskVars, soon, sock, tranVars, bindings, connections, bound, linked,
                 loopVars>>

\* unsubscribe(), setsockopt(UNSUBSCRIBE): one instance less, of a filter the
\* socket may not have.
Unsubscribe(c, v) ==
  /\ Usable(c) /\ sock[c] = "open" /\ c \in Subs
  /\ filters' = [filters EXCEPT ![c][v] = IF @ = 0 THEN 0 ELSE @ - 1]
  /\ subscriptions' = [subscriptions EXCEPT ![c] = @ \ {v}]
  /\ UNCHANGED <<taskVars, soon, sock, tranVars, bindings, connections, bound, linked,
                 loopVars>>

Use(c) ==
  \/ Close(c) \/ Abort(c) \/ PauseReading(c) \/ ResumeReading(c)
  \/ \E e \in Endpoints : Bind(c, e) \/ Unbind(c, e) \/ Connect(c, e) \/ Disconnect(c, e)
  \/ \E v \in Values : Unsubscribe(c, v) \/ \E raw \in BOOLEAN : Subscribe(c, v, raw)

\* close() of the loop, which is not running: a ZmqEventLoop closes the sockets
\* it was told of; nothing is called or polled any more.
CloseLoop ==
  /\ loopOpen
  /\ loopOpen' = FALSE
  /\ soon' = <<>>
  /\ reader' = [c \in Conns |-> FALSE]
  /\ sock' = [c \in Conns |-> IF c \in tracked THEN "closed" ELSE sock[c]]
  /\ bound' = [c \in Conns |-> IF c \in tracked THEN {} ELSE bound[c]]
  /\ linked' = [c \in Conns |-> IF c \in tracked THEN {} ELSE linked[c]]
  /\ filters' = [c \in Conns |-> IF c \in tracked THEN [v \in Values |-> 0] ELSE filters[c]]
  /\ UNCHANGED <<kind, tracked, taskVars, paused, leftPaused, closing, connLost, proto,
                 bookVars>>

-----------------------------------------------------------------------------
Init ==
  /\ kind \in {"zmq", "plain"}
  /\ loopOpen = TRUE /\ soon = <<>> /\ tracked = {}
  /\ task = [c \in Conns |-> "idle"]
  /\ plan = [c \in Conns |-> <<>>]
  /\ error = [c \in Conns |-> "none"]
  /\ sock = [c \in Conns |-> "none"]
  /\ reader = [c \in Conns |-> FALSE]
  /\ paused = [c \in Conns |-> FALSE]
  /\ leftPaused = [c \in Conns |-> FALSE]
  /\ closing = [c \in Conns |-> FALSE]
  /\ connLost = [c \in Conns |-> FALSE]
  /\ proto = [c \in Conns |-> "new"]
  /\ bindings = [c \in Conns |-> {}]
  /\ connections = [c \in Conns |-> {}]
  /\ subscriptions = [c \in Conns |-> {}]
  /\ bound = [c \in Conns |-> {}]
  /\ linked = [c \in Conns |-> {}]
  /\ filters = [c \in Conns |-> [v \in Values |-> 0]]

Next ==
  \/ \E c \in Conns :
       \/ \E p \in Plans, before \in {{}} \cup {{e} : e \in {f \in Endpoints : Free(f)}} :
            Create(c, p, before)
       \/ CreateRefused(c)
       \/ Cancel(c)
       \/ Use(c)
  \/ RunSoon
  \/ CloseLoop

Spec == Init /\ [][Next]_vars

\* The loop goes on calling, unless it polls a closed socket, which a
\* ZmqEventLoop may not survive, and of another loop depends on its poller.
Fairness == WF_vars(RunSoon /\ \A c \in Conns : ~Stranded(c))
FairSpec == Spec /\ Fairness

-----------------------------------------------------------------------------
(* Properties.                                                             *)

\* The types of the variables; a connection has two calls queued at most.
TypeOK ==
  /\ kind \in {"zmq", "plain"} /\ loopOpen \in BOOLEAN /\ tracked \subseteq Conns
  /\ soon \in Seq([call : {"made", "waiter", "wake", "lost"}, conn : Conns])
  /\ Len(soon) <= 2 * Cardinality(Conns)
  /\ task \in [Conns -> {"idle", "waiting", "returned", "raised", "cancelled"}]
  /\ plan \in [Conns -> Plans \cup {<<>>}]
  /\ error \in [Conns -> {"none", "OSError", "other"}]
  /\ sock \in [Conns -> {"none", "open", "closed"}]
  /\ {reader, paused, leftPaused, closing, connLost} \subseteq [Conns -> BOOLEAN]
  /\ proto \in [Conns -> {"new", "made", "lost"}]
  /\ {bindings, connections, bound, linked} \subseteq [Conns -> SUBSET Endpoints]
  /\ subscriptions \in [Conns -> SUBSET Values]
  /\ filters \in [Conns -> [Values -> 0..MaxFilters]]

\* bindings(), connections() and subscriptions() list nothing that the socket,
\* while it is open, does not have: through failures half way, filters with
\* several instances, and sockets that brought some along.
BooksTruthful ==
  \A c \in Conns : sock[c] = "open" =>
    /\ bindings[c] \subseteq bound[c]
    /\ connections[c] \subseteq linked[c]
    /\ \A v \in subscriptions[c] : filters[c][v] > 0

\* create_zmq_connection() returns a protocol that knows its transport.
ReturnedWasMade == \A c \in Conns : task[c] = "returned" => proto[c] # "new"

\* A closed socket stays registered with its loop only after a creation that failed
\* to bind or connect, or, not on a ZmqEventLoop, after a close() while reading was
\* paused.  Pauses, closing and aborting in any other order never leave one, also
\* when they meet a socket that such a creation has closed (close, _force_close,
\* pause_reading, resume_reading, the ends of both create_zmq_connection()).
StrandedKnown ==
  \A c \in Conns :
    Stranded(c) => error[c] = "OSError" \/ leftPaused[c]

\* The books of transports and loop agree with the sockets, but for a creation
\* that failed half way and a plain transport closed while it was paused.
Books == TypeOK /\ BooksTruthful /\ StrandedKnown

\* When a ZmqEventLoop is closed, so is the socket of every connection that was
\* returned.
LoopClosesSockets ==
  ~loopOpen /\ kind = "zmq" => \A c \in Conns : task[c] = "returned" => sock[c] = "closed"

\* create_zmq_connection() comes to an end.
CreationEnds ==
  \A c \in Conns :
    task[c] = "waiting" ~> \/ task[c] # "waiting" \/ ~loopOpen
                           \/ \E d \in Conns : Stranded(d)

\* A connection that is closed is lost, also when it is closed before
\* create_zmq_connection() has returned it, and whatever becomes of others: but for
\* one that failed to be created, or a loop that polls a closed socket.
ClosedIsLost ==
  \A c \in Conns :
    closing[c] ~> \/ proto[c] = "lost" \/ ~loopOpen
                  \/ error[c] = "OSError" \/ \E d \in Conns : Stranded(d)

\* What was begun with a connection comes to an end, its creation and its
\* closing, in whichever order they are asked for.
ConnectionsEnd == CreationEnds /\ ClosedIsLost
=============================================================================
