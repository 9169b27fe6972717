----------------------------- MODULE LoopPolicy ------------------------------
(***************************************************************************)
(* ZmqEventLoopPolicy (aiozmq/core.py): an event loop for each thread, and *)
(* one child watcher for the process, which the main thread attaches to    *)
(* its loop.                                                               *)
(*                                                                         *)
(* The loop of a thread is its own; _watcher is shared.  Only              *)
(* _init_watcher() holds a lock; the other methods look at _watcher and    *)
(* then use it, and another thread may have replaced it.  A step here is   *)
(* one look at _watcher, or one use of it.                                 *)
(***************************************************************************)
EXTENDS Naturals

CONSTANTS Threads,
          Main,        \* the main thread
          Loops,       \* event loops
          NoLoop,      \* None, as a loop
          Own,         \* watchers the application makes
          MaxDefaults, \* bound: watchers the policy makes
          None,        \* None, as a watcher
          MaxCleared   \* bound: calls of set_child_watcher(None)

ASSUME PolicyAssumption ==
  /\ Main \in Threads /\ 0 \notin Threads
  /\ NoLoop \notin Loops
  /\ MaxDefaults \in Nat /\ MaxCleared \in Nat
  /\ None \notin Own \cup (1..MaxDefaults)

VARIABLES loop,      \* _local._loop of each thread
          setCalled, \* _local._set_called
          watcher,   \* _watcher
          attached,  \* the loop each watcher is attached to
          lock,      \* the owner of asyncio.events._lock, or 0
          pc,        \* what each thread does next
          arg,       \* the argument of its set_child_watcher()
          made,      \* how many watchers the policy made
          cleared,   \* how often _watcher was set to None
          failed,    \* a look at _watcher was contradicted by the next
          crossed    \* a call of set_child_watcher() met another call

localVars == <<loop, setCalled>>
countVars == <<made, cleared>>
vars == <<localVars, watcher, attached, lock, pc, arg, countVars, failed, crossed>>

Watchers == Own \cup 1..MaxDefaults

TypeOK ==
  /\ loop \in [Threads -> Loops \cup {NoLoop}] /\ setCalled \in [Threads -> BOOLEAN]
  /\ watcher \in Watchers \cup {None}
  /\ attached \in [Watchers -> Loops \cup {NoLoop}]
  /\ lock \in Threads \cup {0}
  /\ pc \in [Threads -> {"idle", "attach", "lock", "create", "attachNew", "return",
                         "close", "write"}]
  /\ arg \in [Threads -> Watchers \cup {None}]
  /\ made \in 0..MaxDefaults /\ cleared \in 0..MaxCleared
  /\ {failed, crossed} \subseteq BOOLEAN

Init ==
  /\ loop = [t \in Threads |-> NoLoop] /\ setCalled = [t \in Threads |-> FALSE]
  /\ watcher = None /\ attached = [w \in Watchers |-> NoLoop]
  /\ lock = 0
  /\ pc = [t \in Threads |-> "idle"] /\ arg = [t \in Threads |-> None]
  /\ made = 0 /\ cleared = 0 /\ failed = FALSE /\ crossed = FALSE

Goto(t, place) == pc' = [pc EXCEPT ![t] = place]

-----------------------------------------------------------------------------
(* Loops.                                                                  *)

\* set_event_loop(): the thread's own variables, then a look at _watcher.
SetEventLoop(t, l) ==
  /\ pc[t] = "idle"
  /\ setCalled' = [setCalled EXCEPT ![t] = TRUE]
  /\ loop' = [loop EXCEPT ![t] = l]
  /\ Goto(t, IF watcher # None /\ t = Main THEN "attach" ELSE "idle")
  /\ UNCHANGED <<watcher, attached, lock, arg, countVars, failed>>

\* Its assertion fails when the loop is no loop, but the call counts.
SetEventLoopAsserts(t) ==
  /\ pc[t] = "idle"
  /\ setCalled' = [setCalled EXCEPT ![t] = TRUE]
  /\ UNCHANGED <<loop, watcher, attached, lock, pc, arg, countVars, failed>>

\* get_event_loop() that finds no loop in the main thread, and none was ever set:
\* a new loop is set. Otherwise it only returns the loop, or raises.
GetEventLoop(t, l) ==
  /\ loop[t] = NoLoop /\ ~setCalled[t] /\ t = Main
  /\ SetEventLoop(t, l)

\* self._watcher.attach_loop(loop): AttributeError, if there is none any more.
AttachTo(l) ==
  IF watcher = None
  THEN failed' = TRUE /\ UNCHANGED attached
  ELSE attached' = [attached EXCEPT ![watcher] = l] /\ UNCHANGED failed

\* The end of set_event_loop().
Attach(t) ==
  /\ pc[t] = "attach"
  /\ AttachTo(loop[t])
  /\ Goto(t, "idle")
  /\ UNCHANGED <<localVars, watcher, lock, arg, countVars>>

-----------------------------------------------------------------------------
(* get_child_watcher()                                                     *)

GetChildWatcher(t) ==
  /\ pc[t] = "idle"
  /\ Goto(t, IF watcher = None THEN "lock" ELSE "return")
  /\ UNCHANGED <<localVars, watcher, attached, lock, arg, countVars, failed>>

\* Slip: under the lock it is not looked again.
LockUnchecked(t) ==
  /\ pc[t] = "lock" /\ lock = 0 /\ made < MaxDefaults
  /\ lock' = t /\ Goto(t, "create")
  /\ UNCHANGED <<localVars, watcher, attached, arg, countVars, failed>>

\* _init_watcher(): the lock, and a second look at _watcher.
Lock(t) ==
  /\ pc[t] = "lock" /\ lock = 0
  /\ IF watcher = None
     THEN made < MaxDefaults /\ lock' = t /\ Goto(t, "create")
     ELSE UNCHANGED lock /\ Goto(t, "return")
  /\ UNCHANGED <<localVars, watcher, attached, arg, countVars, failed>>

\* A SafeChildWatcher; the lock is held on only to attach it.
Create(t) ==
  /\ pc[t] = "create"
  /\ made' = made + 1
  /\ watcher' = made'
  /\ IF t = Main
     THEN Goto(t, "attachNew") /\ UNCHANGED lock
     ELSE Goto(t, "return") /\ lock' = 0
  /\ UNCHANGED <<localVars, attached, arg, cleared, failed>>

AttachNew(t) ==
  /\ pc[t] = "attachNew"
  /\ Goto(t, IF watcher = None THEN "idle" ELSE "return")
  /\ AttachTo(loop[t])
  /\ lock' = 0
  /\ UNCHANGED <<localVars, watcher, arg, countVars>>

\* What is returned is read again.
Return(t) ==
  /\ pc[t] = "return"
  /\ failed' = (failed \/ watcher = None)
  /\ Goto(t, "idle")
  /\ UNCHANGED <<localVars, watcher, attached, lock, arg, countVars>>

-----------------------------------------------------------------------------
(* set_child_watcher()                                                     *)

\* Slip: the old watcher is not closed.
SetChildWatcherOnly(t, w) ==
  /\ pc[t] = "idle"
  /\ w = None => cleared < MaxCleared
  /\ arg' = [arg EXCEPT ![t] = w]
  /\ Goto(t, "write")
  /\ UNCHANGED <<localVars, watcher, attached, lock, countVars, failed>>

SetChildWatcher(t, w) ==
  /\ pc[t] = "idle"
  /\ w = None => cleared < MaxCleared
  /\ arg' = [arg EXCEPT ![t] = w]
  /\ Goto(t, IF watcher = None THEN "write" ELSE "close")
  /\ UNCHANGED <<localVars, watcher, attached, lock, countVars, failed>>

\* self._watcher.close(), which detaches it.
CloseWatcher(t) ==
  /\ pc[t] = "close"
  /\ Goto(t, IF watcher = None THEN "idle" ELSE "write")
  /\ AttachTo(NoLoop)
  /\ UNCHANGED <<localVars, watcher, lock, arg, countVars>>

WriteWatcher(t) ==
  /\ pc[t] = "write"
  /\ arg[t] = None => cleared < MaxCleared
  /\ watcher' = arg[t]
  /\ cleared' = IF arg[t] = None THEN cleared + 1 ELSE cleared
  /\ Goto(t, "idle")
  /\ UNCHANGED <<localVars, attached, lock, arg, made, failed>>

-----------------------------------------------------------------------------
Step(t) ==
  \/ \E l \in Loops \cup {NoLoop} : SetEventLoop(t, l)
  \/ \E l \in Loops : GetEventLoop(t, l)
  \/ SetEventLoopAsserts(t) \/ Attach(t)
  \/ GetChildWatcher(t) \/ Lock(t) \/ Create(t) \/ AttachNew(t) \/ Return(t)
  \/ \E w \in Own \cup {None} : SetChildWatcher(t, w)
  \/ CloseWatcher(t) \/ WriteWatcher(t)

\* One thread replaces the watcher while another has looked at it and is still to
\* use it: what waits for the lock will look again.
Crossing ==
  \E t, u \in Threads :
    t # u /\ pc[t] \in {"close", "write"} /\ pc[u] \notin {"idle", "lock"}

Next == \E t \in Threads : Step(t) /\ crossed' = (crossed \/ Crossing')

Spec == Init /\ [][Next]_vars

-----------------------------------------------------------------------------
(* Properties.                                                             *)

\* The policy makes a watcher of its own once, and again only after the
\* application took it away: threads that ask for it at the same time get the
\* same one (_init_watcher, line 877).
OneDefault == made <= 1 + cleared

Books == TypeOK /\ OneDefault

\* What a look at _watcher said still holds when it is used, in the middle of
\* a call as well.
LooksHold ==
  \A t \in Threads :
    /\ pc[t] \in {"attach", "attachNew", "return", "close"} => watcher # None
    /\ pc[t] = "create" => watcher = None

\* The watcher is attached to the loop of the main thread or to none, except
\* between the two halves of set_event_loop(); what set_child_watcher() is about
\* to replace is detached, and so is all that was replaced.
WatchersKept ==
  /\ watcher # None /\ pc[Main] # "attach" => attached[watcher] \in {NoLoop, loop[Main]}
  /\ \A t \in Threads : pc[t] = "write" /\ watcher # None => attached[watcher] = NoLoop
  /\ \A w \in Watchers \ {watcher} : attached[w] = NoLoop

\* As long as no set_child_watcher() ran between another thread's look at the
\* watcher and its use, with any threads in the middle of their calls: looks
\* hold, the watcher follows the loop of the main thread and nothing else is
\* attached, and no method tripped over a watcher that was gone
\* (set_event_loop, line 869, get_child_watcher, set_child_watcher). What
\* happens once such a call did run in between is not said.
WatchersInOrder == ~crossed => LooksHold /\ WatchersKept /\ ~failed
=============================================================================
