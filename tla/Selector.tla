------------------------------ MODULE Selector ------------------------------
(***************************************************************************)
(* ZmqSelector (aiozmq/selector.py): the selector of a ZmqEventLoop. It    *)
(* keeps a map of keys beside zmq's poller, which watches ordinary file    *)
(* descriptors and zmq sockets alike. The two change one after the other,  *)
(* and the poller may raise a ZMQError in between; file objects may be     *)
(* closed, and their descriptor reused, while they are registered.         *)
(*                                                                         *)
(* A call that raises changes nothing and shows as a step that stutters.   *)
(* Times are in tenths of a millisecond; zmq's poll() takes milliseconds.  *)
(***************************************************************************)
EXTENDS Integers, FiniteSets

CONSTANTS
  Files,     \* file objects: each is opened once, and may be closed
  Socks,     \* zmq sockets: their own descriptor, closed or not
  Fds,       \* file descriptors, that may also be registered as they are
  Datas,     \* what callers attach to a key
  Timeouts,  \* values of select(timeout), Forever among them
  NoFd       \* what fileno() of a closed file object says

READ == "read"
WRITE == "write"
ERR == "err"
ODD == "odd"   \* a bit that is neither EVENT_READ nor EVENT_WRITE
AnyEvents == SUBSET {READ, WRITE, ODD}
Events == (SUBSET {READ, WRITE}) \ {{}}
Forever == -1

Handles == Fds \cup Socks
Objects == Files \cup Handles

ASSUME SelectorAssumption ==
  /\ NoFd \notin Handles
  /\ Files \cap Handles = {}
  /\ Timeouts \subseteq Nat \cup {Forever}

VARIABLES
  keys,       \* _fd_to_key: handle -> [obj, events, data]
  polled,     \* what the poller watches: handle -> events
  open,       \* _poller is not None
  fileno,     \* file object -> its descriptor, or NoFd
  opened,     \* the file objects that have been opened
  dead,       \* the zmq sockets that are closed
  signalled,  \* what poll() returned in a select() just now: handle -> flags
  report,     \* what that select() returned: handle -> events
  asked,      \* the timeout of a select() that just found nothing
  waited      \* and the time it waited, in milliseconds

registered == <<keys, polled, open>>
world == <<fileno, opened, dead>>
answer == <<signalled, report, asked, waited>>
selectorVars == <<keys, polled, open, fileno, opened, dead, signalled, report, asked, waited>>

Empty == [x \in {} |-> {}]
Put(f, x, v) == [y \in DOMAIN f \cup {x} |-> IF y = x THEN v ELSE f[y]]
Drop(f, x) == [y \in DOMAIN f \ {x} |-> f[y]]

\* z_events: what the poller is asked for.
Watched(events) == events \cap {READ, WRITE}

\* There is no answer of a select(): it is kept for one step only.
NothingFound == signalled' = Empty /\ report' = Empty /\ asked' = 0 /\ waited' = 0

-----------------------------------------------------------------------------
(* Handles of file objects.                                                *)

\* _fileobj_to_fd, NoFd for ValueError.
ToFd(obj) == IF obj \in Files THEN fileno[obj] ELSE obj

\* Slip: without the exhaustive search.
LookupOpenOnly(obj) == ToFd(obj)

\* _fileobj_lookup: a closed object is still found by the key that names it.
Lookup(obj) ==
  LET own == {x \in DOMAIN keys : keys[x].obj = obj}
  IN  IF ToFd(obj) = NoFd /\ own # {} THEN CHOOSE x \in own : TRUE ELSE ToFd(obj)

-----------------------------------------------------------------------------
(* Operations. ok: the poller takes the change.                            *)

SelectorKey(obj, events, data) == [obj |-> obj, events |-> events, data |-> data]

\* A handle to register: a negative one is a ValueError, one that has a key a
\* KeyError.
Acceptable(fd) == fd # NoFd /\ fd \notin DOMAIN keys

\* register(): the poller first, then the map.
Register(obj, events, data) ==
  LET fd == Lookup(obj)
  IN  /\ Acceptable(fd)
      /\ \E ok \in {open, FALSE} :
           /\ polled' = IF ok THEN Put(polled, fd, events) ELSE polled
           /\ keys' = IF ok THEN Put(keys, fd, SelectorKey(obj, events, data))
                            ELSE keys
      /\ NothingFound
      /\ UNCHANGED <<open, world>>

\* Slip: the key does not come back.
KeysWithoutFailure(fd, ok) == Drop(keys, fd)

\* The map after unregister(): the key goes, and comes back if the poller fails.
KeysWithout(fd, ok) == IF ok THEN Drop(keys, fd) ELSE keys

\* unregister(): out of the map, then out of the poller. For a handle that it
\* does not watch the poller raises KeyError, which does not bring the key back.
Unregister(obj) ==
  LET fd == Lookup(obj)
  IN  /\ fd \in DOMAIN keys
      /\ \E ok \in {TRUE, fd \notin DOMAIN polled} :
           /\ polled' = IF ok THEN Drop(polled, fd) ELSE polled
           /\ keys' = KeysWithout(fd, ok)
      /\ NothingFound
      /\ UNCHANGED <<open, world>>

\* modify() of the poller: it forgets a handle that is to be watched for nothing.
Watch(fd, events) ==
  IF Watched(events) = {} THEN Drop(polled, fd) ELSE Put(polled, fd, Watched(events))

\* modify(): the poller learns of new events, the key of new events and data.
\* Any events will do: those register() refuses, too.
Modify(obj, events, data) ==
  LET fd == Lookup(obj)
  IN  /\ fd \in DOMAIN keys
      /\ \E ok \in BOOLEAN :
           LET same == events = keys[fd].events
           IN  /\ polled' = IF ok /\ ~same THEN Watch(fd, events) ELSE polled
               /\ keys' = IF ok \/ same
                            THEN Put(keys, fd, SelectorKey(keys[fd].obj, events, data))
                            ELSE keys
      /\ NothingFound
      /\ UNCHANGED <<open, world>>

\* close(): later calls of the poller raise, and no key is found.
CloseSelector ==
  /\ keys' = Empty
  /\ polled' = Empty
  /\ open' = FALSE
  /\ NothingFound
  /\ UNCHANGED world

\* Slip: errors only where the poller says so.
FoundNoErrors(flags, key) == flags \cap key.events

\* The events of a key that flags of the poller stand for.
Found(flags, key) == (IF ERR \in flags THEN {READ, WRITE} ELSE flags) \cap key.events

\* poll() of milliseconds that cover the timeout.
Milliseconds(timeout) == IF timeout <= 0 THEN 0 ELSE (timeout + 9) \div 10

\* What the poller may say of a handle: what it was asked for, or an error.
Flags(fd) == (SUBSET (polled[fd] \cup {ERR})) \ {{}}

\* select(): what is ready, with the events wanted of it.
SelectReady(ready) ==
  /\ ready # {} /\ ready \subseteq DOMAIN polled
  /\ \E s \in [ready -> UNION {Flags(fd) : fd \in ready}] :
       /\ \A fd \in ready : s[fd] \in Flags(fd)
       /\ signalled' = s
       /\ report' = [fd \in ready \cap DOMAIN keys |-> Found(s[fd], keys[fd])]
  /\ asked' = 0 /\ waited' = 0
  /\ UNCHANGED <<registered, world>>

\* select(): nothing is ready in time.
SelectTimesOut(timeout) ==
  /\ timeout # Forever
  /\ signalled' = Empty /\ report' = Empty
  /\ asked' = timeout /\ waited' = Milliseconds(timeout)
  /\ UNCHANGED <<registered, world>>

\* select(): a signal interrupts the poller, or it raises, as it does of a
\* closed socket: [] or OSError.
SelectFails ==
  /\ NothingFound
  /\ UNCHANGED <<registered, world>>

Select ==
  \/ /\ open /\ dead \cap DOMAIN polled = {}
     /\ \/ \E ready \in SUBSET DOMAIN polled : SelectReady(ready)
        \/ \E timeout \in Timeouts : SelectTimesOut(timeout)
  \/ SelectFails

-----------------------------------------------------------------------------
(* The application opens and closes what it registers, in any order.       *)

Open(f, fd) ==
  /\ f \notin opened
  /\ \A g \in Files : fileno[g] # fd
  /\ fileno' = [fileno EXCEPT ![f] = fd]
  /\ opened' = opened \cup {f}
  /\ NothingFound
  /\ UNCHANGED <<dead, registered>>

CloseFile(f) ==
  /\ fileno[f] # NoFd
  /\ fileno' = [fileno EXCEPT ![f] = NoFd]
  /\ NothingFound
  /\ UNCHANGED <<opened, dead, registered>>

CloseSock(s) ==
  /\ s \notin dead
  /\ dead' = dead \cup {s}
  /\ NothingFound
  /\ UNCHANGED <<fileno, opened, registered>>

SelectorInit ==
  /\ keys = Empty /\ polled = Empty /\ open = TRUE
  /\ fileno = [f \in Files |-> NoFd] /\ opened = {} /\ dead = {}
  /\ signalled = Empty /\ report = Empty /\ asked = 0 /\ waited = 0

SelectorNext ==
  \/ \E obj \in Objects :
       \/ \E events \in Events, data \in Datas : Register(obj, events, data)
       \/ \E events \in AnyEvents, data \in Datas : Modify(obj, events, data)
       \/ Unregister(obj)
  \/ CloseSelector
  \/ Select
  \/ \E f \in Files : CloseFile(f) \/ \E fd \in Fds : Open(f, fd)
  \/ \E s \in Socks : CloseSock(s)

SelectorSpec == SelectorInit /\ [][SelectorNext]_selectorVars

-----------------------------------------------------------------------------
(* Properties.                                                             *)

\* The types of the variables.
SelectorTypeOK ==
  /\ DOMAIN keys \subseteq Handles
  /\ \A fd \in DOMAIN keys : keys[fd] \in [obj : Objects, events : AnyEvents, data : Datas]
  /\ DOMAIN polled \subseteq Handles
  /\ \A fd \in DOMAIN polled : polled[fd] \in Events
  /\ open \in BOOLEAN
  /\ fileno \in [Files -> Fds \cup {NoFd}]
  /\ opened \subseteq Files
  /\ dead \subseteq Socks

\* The poller watches exactly the handles whose key asks for something, and for
\* what the key asks, also after it has failed in the middle of a call, and after
\* modify() took events that register() refuses.
InSync ==
  /\ DOMAIN polled = {fd \in DOMAIN keys : Watched(keys[fd].events) # {}}
  /\ \A fd \in DOMAIN polled : polled[fd] = Watched(keys[fd].events)

\* An object that is registered is found under its own key, open, closed or
\* with its descriptor taken over by another one: so the application can
\* always unregister it (_fileobj_lookup).
Findable == \A fd \in DOMAIN keys : Lookup(keys[fd].obj) = fd

\* select() reports everything the poller signals, with at least one of the
\* events that were asked for, and no other.
ReportsWanted ==
  /\ DOMAIN report = DOMAIN signalled
  /\ \A fd \in DOMAIN report :
       report[fd] # {} /\ (\A e \in report[fd] : e \in signalled[fd] \/ ERR \in signalled[fd])

\* A select() that finds nothing waits at least as long as it was asked to,
\* and less than a millisecond longer.
WaitsEnough == 10 * waited >= asked /\ 10 * waited < asked + 10

\* select() translates between the loop and the poller, times and events,
\* without a loss.
SelectSound == ReportsWanted /\ WaitsEnough
=============================================================================
