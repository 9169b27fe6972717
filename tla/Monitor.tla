------------------------------- MODULE Monitor -------------------------------
(***************************************************************************)
(* The monitor of socket events (aiozmq/core.py): enable_monitor() makes a *)
(* second connection, to an inproc address, and asks the socket to send    *)
(* its events there; _ZmqEventProtocol hands them to the protocol of the   *)
(* monitored transport, here the one of a ZmqStream (StreamEvents).        *)
(*                                                                         *)
(* enable_monitor() looks at _monitor, awaits the new connection, and only *)
(* then sets _monitor: anything may happen in between.  close() and        *)
(* abort() disable the monitor they find, and never look again.            *)
(*                                                                         *)
(* The loop is a queue of calls.  Of the monitored transport only its end  *)
(* is here: it is closed, with or without a backlog still to be flushed,   *)
(* and then loses its connection, on the loop's call or right after the    *)
(* last message.  kind is the class of both transports: a loopless one may *)
(* have a _read_ready() scheduled, which reads even from a closing         *)
(* transport.                                                              *)
(***************************************************************************)
EXTENDS StreamEvents, FiniteSets

CONSTANTS MaxMonitors  \* bound: calls of enable_monitor() that make a connection

ASSUME MonitorsAssumption == MaxMonitors \in Nat

VARIABLES kind,       \* "zmq" or "loopless"
          tr,         \* the transport: "open", "flushing", "ending" or "lost"
          failed,     \* it loses its connection to an error
          monitor,    \* the connection _monitor stands for, 0 for None
          mon,        \* the monitor connections
          en,         \* the call of enable_monitor() that makes each
          feeding,    \* the connection the socket sends its events to, or 0
          wire,       \* events sent and not yet received, per connection
          made,       \* how many events the socket had
          soon,       \* what the loop will call, in order
          overtaken,  \* connections made while something else went on
          late,       \* connections that brought an event after the end
          flushed     \* the transport was closed with a backlog

Mons == 1..MaxMonitors

trVars  == <<kind, tr, failed, flushed>>
monVars == <<monitor, mon, en, overtaken>>
zmqVars == <<feeding, wire, made>>
vars    == <<streamVars, trVars, monVars, zmqVars, soon, late>>

TypeOK ==
  /\ StreamTypeOK
  /\ kind \in {"zmq", "loopless"} /\ {failed, flushed} \subseteq BOOLEAN
  /\ tr \in {"open", "flushing", "ending", "lost"}
  /\ {monitor, feeding} \subseteq Mons \cup {0}
  /\ mon \in [Mons -> {"none", "open", "closing", "lost"}]
  /\ en \in [Mons -> {"none", "waiting", "cancelled", "done"}]
  /\ wire \in [Mons -> Seq(1..MaxEvents)] /\ made \in 0..MaxEvents
  /\ soon \in Seq([call : {"made", "wake", "lost"}, of : Mons \cup {0}])
  /\ {overtaken, late} \subseteq SUBSET Mons

Init ==
  /\ StreamInit
  /\ kind \in {"zmq", "loopless"} /\ tr = "open" /\ failed = FALSE /\ flushed = FALSE
  /\ monitor = 0 /\ feeding = 0 /\ made = 0
  /\ mon = [i \in Mons |-> "none"]
  /\ en = [i \in Mons |-> "none"]
  /\ wire = [i \in Mons |-> <<>>]
  /\ soon = <<>> /\ overtaken = {} /\ late = {}

Waiting == {i \in Mons : en[i] = "waiting"}
Call(name, i) == [call |-> name, of |-> i]
Run(name, i) == soon # <<>> /\ Head(soon) = Call(name, i)

-----------------------------------------------------------------------------
(* enable_monitor() and disable_monitor()                                  *)

\* Slip: _monitor is not looked at.
EnableAgain(i) ==
  /\ tr # "lost"
  /\ i = 1 + Cardinality({j \in Mons : mon[j] # "none"})
  /\ mon' = [mon EXCEPT ![i] = "open"]
  /\ en' = [en EXCEPT ![i] = "waiting"]
  /\ soon' = Append(soon, Call("made", i))
  /\ overtaken' = IF Waiting = {} /\ tr = "open" THEN overtaken
                    ELSE overtaken \cup Waiting \cup {i}
  /\ UNCHANGED <<streamVars, trVars, monitor, zmqVars, late>>

\* enable_monitor() up to the await: there is no monitor, and the socket can
\* be asked for its descriptor. The new transport is registered with the loop.
Enable(i) ==
  /\ tr # "lost" /\ monitor = 0
  /\ i = 1 + Cardinality({j \in Mons : mon[j] # "none"})
  /\ mon' = [mon EXCEPT ![i] = "open"]
  /\ en' = [en EXCEPT ![i] = "waiting"]
  /\ soon' = Append(soon, Call("made", i))
  /\ overtaken' = IF Waiting = {} /\ tr = "open" THEN overtaken
                    ELSE overtaken \cup Waiting \cup {i}
  /\ UNCHANGED <<streamVars, trVars, monitor, zmqVars, late>>

\* The task is cancelled in the await: the connection is left as it is.
CancelEnable(i) ==
  /\ en[i] = "waiting"
  /\ en' = [en EXCEPT ![i] = "cancelled"]
  /\ overtaken' = overtaken \cup {i}
  /\ UNCHANGED <<streamVars, trVars, monitor, mon, zmqVars, soon, late>>

\* The loop calls connection_made(), and completes the waiter.
RunMade(i) ==
  /\ Run("made", i)
  /\ soon' = Tail(soon) \o IF en[i] = "waiting" THEN <<Call("wake", i)>> ELSE <<>>
  /\ UNCHANGED <<streamVars, trVars, monVars, zmqVars, late>>

\* Where events go after monitor() of the socket. A connection that was there
\* first has the address: then the new one may get nothing.
Fed(i) ==
  IF feeding = 0 /\ \A j \in Mons \ {i} : mon[j] \in {"none", "lost"}
  THEN {i} ELSE {i, 0, feeding}

\* The rest of enable_monitor(): _monitor is set, and then the socket, if it is
\* still there, is told.
RunWake(i) ==
  /\ Run("wake", i)
  /\ soon' = Tail(soon)
  /\ IF en[i] = "waiting"
     THEN /\ en' = [en EXCEPT ![i] = "done"]
          /\ monitor' = i
          /\ IF tr = "lost" THEN UNCHANGED feeding ELSE feeding' \in Fed(i)
     ELSE UNCHANGED <<en, monitor, feeding>>
  /\ UNCHANGED <<streamVars, trVars, mon, overtaken, wire, made, late>>

\* Slip: the connection is forgotten and not closed.
DisableKeeping(next) ==
  /\ feeding' = IF monitor = 0 THEN feeding ELSE 0
  /\ monitor' = 0
  /\ soon' = soon \o next
  /\ UNCHANGED <<mon, wire>>

\* _disable_monitor(), if there is one: the socket is told, the connection
\* closed, and _monitor reset. Nothing was ever written to the connection.
\* next is what the caller asks the loop to call after that.
DisableMonitor(next) ==
  /\ feeding' = IF monitor = 0 THEN feeding ELSE 0
  /\ monitor' = 0
  /\ mon' = [i \in Mons |-> IF i = monitor THEN "closing" ELSE mon[i]]
  /\ soon' = soon \o (IF monitor = 0 THEN <<>> ELSE <<Call("lost", monitor)>>) \o next
  /\ UNCHANGED wire

\* disable_monitor(). After the end, a monitor that is left has no socket to
\* be told: it raises.
Disable ==
  /\ monitor # 0 /\ tr # "lost"
  /\ DisableMonitor(<<>>)
  /\ UNCHANGED <<streamVars, trVars, en, overtaken, made, late>>

\* The loop calls connection_lost() of a monitor connection, and its socket is closed.
RunMonitorLost(i) ==
  /\ Run("lost", i)
  /\ soon' = Tail(soon)
  /\ mon' = [mon EXCEPT ![i] = "lost"]
  /\ wire' = [wire EXCEPT ![i] = <<>>]
  /\ UNCHANGED <<streamVars, trVars, monitor, en, overtaken, feeding, made, late>>

-----------------------------------------------------------------------------
(* Events.                                                                 *)

\* The socket has an event; it lives on for a while after it was closed.
Emit ==
  /\ made < MaxEvents /\ feeding # 0
  /\ made' = made + 1
  /\ wire' = [wire EXCEPT ![feeding] = Append(@, made')]
  /\ UNCHANGED <<streamVars, trVars, monVars, feeding, soon, late>>

\* A monitor connection receives an event: msg_received(), event_received() of
\* its protocol and of the monitored one.
Receives(i) == \/ mon[i] = "open"
               \/ mon[i] = "closing" /\ kind = "loopless"

Deliver(i) ==
  /\ Receives(i) /\ wire[i] # <<>>
  /\ wire' = [wire EXCEPT ![i] = Tail(@)]
  /\ FeedEvent(Head(wire[i]))
  /\ late' = IF tr = "lost" THEN late \cup {i} ELSE late
  /\ UNCHANGED <<trVars, monVars, feeding, made, soon>>

-----------------------------------------------------------------------------
(* The end of the monitored transport.                                     *)

LoseSoon == <<Call("lost", 0)>>

\* Slip: close() leaves the monitor on.
CloseMonitored ==
  /\ tr = "open"
  /\ overtaken' = overtaken \cup Waiting
  /\ \/ tr' = "flushing" /\ flushed' = TRUE /\ UNCHANGED soon
     \/ tr' = "ending" /\ soon' = soon \o LoseSoon /\ UNCHANGED flushed
  /\ UNCHANGED <<kind, failed, streamVars, monitor, mon, en, zmqVars, late>>

\* close(): the monitor first; with a backlog, the end comes after the flush.
Close ==
  /\ tr = "open"
  /\ overtaken' = overtaken \cup Waiting
  /\ \/ tr' = "flushing" /\ flushed' = TRUE /\ DisableMonitor(<<>>)
     \/ tr' = "ending" /\ DisableMonitor(LoseSoon) /\ UNCHANGED flushed
  /\ UNCHANGED <<kind, failed, streamVars, en, made, late>>

\* abort(), or an error: _force_close().
ForceClose(error) ==
  /\ tr \in {"open", "flushing"}
  /\ tr' = "ending" /\ failed' = error
  /\ overtaken' = overtaken \cup Waiting
  /\ DisableMonitor(LoseSoon)
  /\ UNCHANGED <<kind, flushed, streamVars, en, made, late>>

\* connection_lost() of the stream's protocol; the socket is closed.
Lose ==
  /\ tr' = "lost"
  /\ IF failed THEN SetException ELSE FeedClosing
  /\ UNCHANGED <<kind, failed, flushed, monVars, zmqVars, late>>

RunLost == Run("lost", 0) /\ soon' = Tail(soon) /\ Lose

\* The last message goes out.
Flush == tr = "flushing" /\ Lose /\ UNCHANGED soon

-----------------------------------------------------------------------------
RunSoon == RunLost \/ \E i \in Mons : RunMade(i) \/ RunWake(i) \/ RunMonitorLost(i)

Reader(r) ==
  /\ ReadEvent(r) \/ CancelReadEvent(r)
  /\ UNCHANGED <<trVars, monVars, zmqVars, soon, late>>

Next ==
  \/ \E i \in Mons : Enable(i) \/ CancelEnable(i) \/ Deliver(i)
  \/ Disable \/ Emit \/ Close \/ Flush \/ RunSoon
  \/ \E error \in BOOLEAN : ForceClose(error)
  \/ \E r \in EventReaders : Reader(r)

Spec == Init /\ [][Next]_vars

\* The loop goes on calling.
FairSpec == Spec /\ WF_vars(RunSoon)

-----------------------------------------------------------------------------
(* Properties.                                                             *)

\* The variables have their types, and events stay in order in the stream.
Books == TypeOK /\ EventOrder

\* An open monitor connection is the one that _monitor stands for, of a
\* transport that is not lost, so that somebody will close it: only an
\* enable_monitor() that was cancelled, or during which another one ran or the
\* transport was closed, or that was called on a closing transport, leaves one
\* behind (enable_monitor(), line 559, against close()).
MonitorsOwned ==
  \A i \in Mons :
    mon[i] = "open" /\ en[i] # "waiting" /\ (monitor # i \/ tr = "lost") => i \in overtaken

\* No event reaches the protocol after connection_lost(), where feed_event()
\* asserts that the stream is not closing; but from a monitor that was left
\* behind, and on a plain loop, where a flush ends the transport ahead of a
\* _read_ready() of its monitor.
EventsInTime ==
  \A i \in late : i \in overtaken \/ (kind = "loopless" /\ flushed)

\* Once the transport is lost, so is the connection of its monitor, unless it
\* was left behind.
MonitorEnds ==
  \A i \in Mons : tr = "lost" /\ mon[i] # "none" ~> mon[i] = "lost" \/ i \in overtaken
=============================================================================
