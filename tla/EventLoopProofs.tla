-------------------------- MODULE EventLoopProofs ---------------------------
(***************************************************************************)
(* Proofs about what a ZmqEventLoop is made of beside its connections: its *)
(* selector (Selector), and the policy that keeps the loops of the threads *)
(* (LoopPolicy).                                                           *)
(*                                                                         *)
(* For any number of files, sockets, descriptors and timeouts, the map and *)
(* the poller of the selector agree whatever the poller raises, and what   *)
(* is registered can be found again.  For any number of threads, loops and *)
(* watchers, the lock of the policy, with the second look under it, is     *)
(* enough for OneDefault, and the watcher follows the loop of the main     *)
(* thread.                                                                 *)
(***************************************************************************)
EXTENDS Selector, LoopPolicy, TLAPS

-----------------------------------------------------------------------------
(* The selector.                                                           *)

\* What the map needs for Findable to be kept: an object has one key at most,
\* under the descriptor it has, if it has one; and only files that have been
\* opened have a descriptor or a key.
Owned ==
  /\ \A x \in DOMAIN keys :
       /\ ToFd(keys[x].obj) \in {x, NoFd}
       /\ \A y \in DOMAIN keys : keys[y].obj = keys[x].obj => y = x
  /\ \A f \in Files \ opened :
       fileno[f] = NoFd /\ \A x \in DOMAIN keys : keys[x].obj # f

\* The types of what the proofs are about.
MapTypeOK ==
  /\ DOMAIN keys \subseteq Handles
  /\ \A x \in DOMAIN keys : keys[x] \in [obj : Objects, events : AnyEvents, data : Datas]
  /\ DOMAIN polled \subseteq Handles
  /\ \A x \in DOMAIN polled : polled[x] \in Events
  /\ open \in BOOLEAN
  /\ fileno \in [Files -> Fds \cup {NoFd}]
  /\ opened \subseteq Files
  /\ dead \subseteq Socks

MapInv == MapTypeOK /\ InSync /\ Owned

-----------------------------------------------------------------------------
(* Lemmas.                                                                 *)

\* A handle that is found is one.
LEMMA LookupIsHandle ==
  ASSUME MapInv, NEW obj \in Objects, Lookup(obj) # NoFd
  PROVE  Lookup(obj) \in Handles
<1>1. CASE ToFd(obj) = NoFd
  <2> DEFINE own == {x \in DOMAIN keys : keys[x].obj = obj}
  <2>1. own # {} BY <1>1 DEF Lookup
  <2>2. Lookup(obj) = CHOOSE x \in own : TRUE BY <1>1, <2>1 DEF Lookup
  <2>3. Lookup(obj) \in own BY <2>1, <2>2
  <2> QED BY <2>3 DEF MapInv, MapTypeOK
<1>2. CASE ToFd(obj) # NoFd
  BY <1>2 DEF Lookup, ToFd, Objects, Handles, MapInv, MapTypeOK
<1> QED BY <1>1, <1>2

\* An object without a key is found by its own descriptor only.
LEMMA NewHandle ==
  ASSUME MapInv, NEW obj \in Objects, Acceptable(Lookup(obj))
  PROVE  /\ ToFd(obj) = Lookup(obj)
         /\ \A x \in DOMAIN keys : keys[x].obj # obj
<1> DEFINE own == {x \in DOMAIN keys : keys[x].obj = obj}
<1>1. ToFd(obj) # NoFd
  <2> SUFFICES ASSUME ToFd(obj) = NoFd PROVE FALSE OBVIOUS
  <2>1. own # {} BY DEF Lookup, Acceptable
  <2>2. Lookup(obj) = CHOOSE x \in own : TRUE BY <2>1 DEF Lookup
  <2>3. Lookup(obj) \in own BY <2>1, <2>2
  <2> QED BY <2>3 DEF Acceptable
<1>2. Lookup(obj) = ToFd(obj) BY <1>1 DEF Lookup
<1>3. \A x \in DOMAIN keys : keys[x].obj # obj
  BY <1>1, <1>2 DEF MapInv, Owned, Acceptable
<1> QED BY <1>2, <1>3

\* What is owned is found.
LEMMA OwnedIsFindable == MapInv => Findable
<1> SUFFICES ASSUME MapInv, NEW fd \in DOMAIN keys PROVE Lookup(keys[fd].obj) = fd
  BY DEF Findable
<1> DEFINE obj == keys[fd].obj
           own == {x \in DOMAIN keys : keys[x].obj = obj}
<1>1. own = {fd} BY DEF MapInv, Owned
<1>2. (CHOOSE x \in own : TRUE) = fd BY <1>1
<1>3. CASE ToFd(obj) = NoFd BY <1>1, <1>2, <1>3 DEF Lookup
<1>4. CASE ToFd(obj) # NoFd BY <1>4 DEF Lookup, MapInv, Owned
<1> QED BY <1>3, <1>4

-----------------------------------------------------------------------------
(* The inductive invariant.                                                *)

\* The events register() takes are watched as they are.
LEMMA WatchedOfEvents ==
  ASSUME NEW events \in Events
  PROVE  events \in AnyEvents /\ Watched(events) = events /\ events # {}
BY DEF Events, AnyEvents, Watched

\* What the poller is asked for is nothing, or events of its own.
LEMMA WatchedType ==
  ASSUME NEW events \in AnyEvents, Watched(events) # {}
  PROVE  Watched(events) \in Events
BY DEF Events, AnyEvents, Watched

LEMMA MapInvInit == SelectorInit => MapInv
BY DEF SelectorInit, MapInv, MapTypeOK, InSync, Owned, Empty

LEMMA RegisterKeeps ==
  ASSUME SelectorAssumption, MapInv, NEW obj \in Objects, NEW events \in Events,
         NEW data \in Datas, Register(obj, events, data)
  PROVE  MapInv'
<1> DEFINE fd == Lookup(obj)
           key == [obj |-> obj, events |-> events, data |-> data]
<1>1. PICK ok \in {open, FALSE} :
        /\ polled' = IF ok THEN Put(polled, fd, events) ELSE polled
        /\ keys' = IF ok THEN Put(keys, fd, key) ELSE keys
  BY DEF Register, SelectorKey
<1>2. Acceptable(fd) /\ UNCHANGED <<open, fileno, opened, dead>>
  BY DEF Register, world
<1>3. fd \in Handles BY <1>2, LookupIsHandle DEF Acceptable
<1>4. ToFd(obj) = fd /\ \A x \in DOMAIN keys : keys[x].obj # obj BY <1>2, NewHandle
<1>5. CASE ~ok
  BY <1>1, <1>2, <1>5 DEF MapInv, MapTypeOK, InSync, Owned, ToFd
<1>6. CASE ok
  <2>1. keys' = Put(keys, fd, key) /\ polled' = Put(polled, fd, events) BY <1>1, <1>6
  <2>2. /\ DOMAIN keys' = DOMAIN keys \cup {fd}
        /\ \A x \in DOMAIN keys' : keys'[x] = IF x = fd THEN key ELSE keys[x]
    BY <2>1 DEF Put
  <2>3. /\ DOMAIN polled' = DOMAIN polled \cup {fd}
        /\ \A x \in DOMAIN polled' : polled'[x] = IF x = fd THEN events ELSE polled[x]
    BY <2>1 DEF Put
  <2>4. fd \notin DOMAIN keys BY <1>2 DEF Acceptable
  <2>5. MapTypeOK' BY <1>2, <1>3, <2>2, <2>3, WatchedOfEvents DEF MapInv, MapTypeOK
  <2>6. InSync'
    <3>1. \A x \in DOMAIN keys' :
            Watched(keys'[x].events) = IF x = fd THEN events ELSE Watched(keys[x].events)
      BY <2>2, WatchedOfEvents
    <3>2. DOMAIN polled' = {x \in DOMAIN keys' : Watched(keys'[x].events) # {}}
      BY <2>2, <2>3, <2>4, <3>1, WatchedOfEvents DEF MapInv, InSync
    <3>3. \A x \in DOMAIN polled' : polled'[x] = Watched(keys'[x].events)
      BY <2>3, <3>1, <3>2 DEF MapInv, InSync
    <3> QED BY <3>2, <3>3 DEF InSync, Watched
  <2>7. obj \in Files => obj \in opened
    BY <1>2, <1>4 DEF MapInv, Owned, ToFd, Acceptable
  <2>8. Owned' BY <1>2, <1>4, <2>2, <2>4, <2>7 DEF MapInv, Owned, ToFd
  <2> QED BY <2>5, <2>6, <2>8 DEF MapInv
<1> QED BY <1>5, <1>6

LEMMA UnregisterKeeps ==
  ASSUME MapInv, NEW obj \in Objects, Unregister(obj)
  PROVE  MapInv'
<1> DEFINE fd == Lookup(obj)
<1>1. PICK ok \in {TRUE, fd \notin DOMAIN polled} :
        /\ polled' = IF ok THEN Drop(polled, fd) ELSE polled
        /\ keys' = IF ok THEN Drop(keys, fd) ELSE keys
  BY DEF Unregister, KeysWithout
<1>2. UNCHANGED <<open, fileno, opened, dead>> BY DEF Unregister, world
<1>3. CASE ~ok
  BY <1>1, <1>2, <1>3 DEF MapInv, MapTypeOK, InSync, Owned, ToFd
<1>4. CASE ok
  <2>1. keys' = Drop(keys, fd) /\ polled' = Drop(polled, fd) BY <1>1, <1>4
  <2>2. DOMAIN keys' = DOMAIN keys \ {fd} /\ \A x \in DOMAIN keys' : keys'[x] = keys[x]
    BY <2>1 DEF Drop
  <2>3. /\ DOMAIN polled' = DOMAIN polled \ {fd}
        /\ \A x \in DOMAIN polled' : polled'[x] = polled[x]
    BY <2>1 DEF Drop
  <2>4. MapTypeOK' BY <1>2, <2>2, <2>3 DEF MapInv, MapTypeOK
  <2>5. InSync'
    <3>1. \A x \in DOMAIN keys' : Watched(keys'[x].events) = Watched(keys[x].events)
      BY <2>2
    <3>2. DOMAIN polled' = {x \in DOMAIN keys' : Watched(keys'[x].events) # {}}
      BY <2>2, <2>3, <3>1 DEF MapInv, InSync
    <3>3. \A x \in DOMAIN polled' : polled'[x] = Watched(keys'[x].events)
      BY <2>2, <2>3, <3>1, <3>2 DEF MapInv, InSync
    <3> QED BY <3>2, <3>3 DEF InSync, Watched
  <2>6. Owned' BY <1>2, <2>2 DEF MapInv, Owned, ToFd
  <2> QED BY <2>4, <2>5, <2>6 DEF MapInv
<1> QED BY <1>3, <1>4

LEMMA ModifyKeeps ==
  ASSUME MapInv, NEW obj \in Objects, NEW events \in AnyEvents, NEW data \in Datas,
         Modify(obj, events, data)
  PROVE  MapInv'
<1> DEFINE fd == Lookup(obj)
           same == events = keys[fd].events
<1>1. PICK ok \in BOOLEAN :
        /\ polled' = IF ok /\ ~same THEN Watch(fd, events) ELSE polled
        /\ keys' = IF ok \/ same
                     THEN Put(keys, fd, SelectorKey(keys[fd].obj, events, data))
                     ELSE keys
  BY DEF Modify
<1>2. fd \in DOMAIN keys /\ UNCHANGED <<open, fileno, opened, dead>> BY DEF Modify, world
<1>3. CASE ~ok /\ ~same
  BY <1>1, <1>2, <1>3 DEF MapInv, MapTypeOK, InSync, Owned, ToFd
<1>4. CASE ok \/ same
  <2> DEFINE key == [obj |-> keys[fd].obj, events |-> events, data |-> data]
             asks == Watched(events) # {}
  <2>1. keys[fd] \in [obj : Objects, events : AnyEvents, data : Datas]
    BY <1>2 DEF MapInv, MapTypeOK
  <2>2. keys' = Put(keys, fd, key) BY <1>1, <1>4 DEF SelectorKey
  <2>3. /\ DOMAIN keys' = DOMAIN keys
        /\ \A x \in DOMAIN keys : keys'[x] = IF x = fd THEN key ELSE keys[x]
    BY <1>2, <2>2 DEF Put
  <2>4. /\ DOMAIN polled' = (DOMAIN polled \ {fd}) \cup {x \in {fd} : asks}
        /\ \A x \in DOMAIN polled' :
             polled'[x] = IF x = fd THEN Watched(events) ELSE polled[x]
    <3>1. CASE same
      BY <1>1, <1>2, <3>1 DEF MapInv, InSync
    <3>2. CASE ~same /\ asks
      BY <1>1, <1>4, <3>2 DEF Watch, Put
    <3>3. CASE ~same /\ ~asks
      BY <1>1, <1>4, <3>3 DEF Watch, Drop
    <3> QED BY <3>1, <3>2, <3>3
  <2>5. MapTypeOK'
    BY <1>2, <2>1, <2>3, <2>4, WatchedType DEF MapInv, MapTypeOK
  <2>6. InSync'
    <3>1. \A x \in DOMAIN keys' :
            Watched(keys'[x].events) = IF x = fd THEN Watched(events) ELSE Watched(keys[x].events)
      BY <2>3
    <3>2. DOMAIN polled' = {x \in DOMAIN keys' : Watched(keys'[x].events) # {}}
      BY <1>2, <2>3, <2>4, <3>1 DEF MapInv, InSync
    <3>3. \A x \in DOMAIN polled' : polled'[x] = Watched(keys'[x].events)
      BY <2>3, <2>4, <3>1, <3>2 DEF MapInv, InSync
    <3> QED BY <3>2, <3>3 DEF InSync, Watched
  <2>7. \A x \in DOMAIN keys : keys'[x].obj = keys[x].obj BY <2>3
  <2>8. Owned' BY <1>2, <2>3, <2>7 DEF MapInv, Owned, ToFd
  <2> QED BY <2>5, <2>6, <2>8 DEF MapInv
<1> QED BY <1>3, <1>4

LEMMA OpenKeeps ==
  ASSUME SelectorAssumption, MapInv, NEW f \in Files, NEW fd \in Fds, Open(f, fd)
  PROVE  MapInv'
<1>1. /\ f \notin opened
      /\ fileno' = [fileno EXCEPT ![f] = fd]
      /\ opened' = opened \cup {f}
      /\ UNCHANGED <<dead, keys, polled, open>>
  BY DEF Open, registered
<1>2. MapTypeOK' BY <1>1 DEF MapInv, MapTypeOK
<1>3. InSync' BY <1>1 DEF MapInv, InSync
<1>4. \A x \in DOMAIN keys : keys[x].obj # f BY <1>1 DEF MapInv, Owned
<1>5. \A x \in DOMAIN keys : ToFd(keys[x].obj)' = ToFd(keys[x].obj)
  BY <1>1, <1>4 DEF ToFd, MapInv, MapTypeOK
<1>6. Owned' BY <1>1, <1>5 DEF MapInv, MapTypeOK, Owned
<1> QED BY <1>2, <1>3, <1>6 DEF MapInv

LEMMA CloseFileKeeps ==
  ASSUME MapInv, NEW f \in Files, CloseFile(f)
  PROVE  MapInv'
<1>1. /\ fileno' = [fileno EXCEPT ![f] = NoFd]
      /\ UNCHANGED <<opened, dead, keys, polled, open>>
  BY DEF CloseFile, registered
<1>2. MapTypeOK' BY <1>1 DEF MapInv, MapTypeOK
<1>3. InSync' BY <1>1 DEF MapInv, InSync
<1>4. \A x \in DOMAIN keys : ToFd(keys[x].obj)' \in {ToFd(keys[x].obj), NoFd}
  BY <1>1 DEF ToFd, MapInv, MapTypeOK
<1>5. \A g \in Files \ opened : fileno'[g] = NoFd
  BY <1>1 DEF MapInv, MapTypeOK, Owned
<1>6. Owned' BY <1>1, <1>4, <1>5 DEF MapInv, Owned
<1> QED BY <1>2, <1>3, <1>6 DEF MapInv

LEMMA MapInvNext ==
  ASSUME SelectorAssumption, MapInv, [SelectorNext]_selectorVars
  PROVE  MapInv'
<1>1. ASSUME NEW obj \in Objects, NEW events \in Events, NEW data \in Datas,
             Register(obj, events, data)
      PROVE  MapInv'
  BY <1>1, RegisterKeeps
<1>2. ASSUME NEW obj \in Objects, NEW events \in AnyEvents, NEW data \in Datas,
             Modify(obj, events, data)
      PROVE  MapInv'
  BY <1>2, ModifyKeeps
<1>3. ASSUME NEW obj \in Objects, Unregister(obj) PROVE MapInv'
  BY <1>3, UnregisterKeeps
<1>4. CASE CloseSelector
  BY <1>4 DEF CloseSelector, world, Empty, MapInv, MapTypeOK, InSync, Owned, ToFd
<1>5. CASE Select
  <2>1. UNCHANGED <<keys, polled, open, fileno, opened, dead>>
    BY <1>5 DEF Select, SelectReady, SelectTimesOut, SelectFails, registered, world
  <2> QED BY <2>1 DEF MapInv, MapTypeOK, InSync, Owned, ToFd
<1>6. ASSUME NEW f \in Files, NEW fd \in Fds, Open(f, fd) PROVE MapInv'
  BY <1>6, OpenKeeps
<1>7. ASSUME NEW f \in Files, CloseFile(f) PROVE MapInv'
  BY <1>7, CloseFileKeeps
<1>8. ASSUME NEW s \in Socks, CloseSock(s) PROVE MapInv'
  BY <1>8 DEF CloseSock, registered, MapInv, MapTypeOK, InSync, Owned, ToFd
<1>9. CASE UNCHANGED selectorVars
  BY <1>9 DEF selectorVars, MapInv, MapTypeOK, InSync, Owned, ToFd
<1> QED BY <1>1, <1>2, <1>3, <1>4, <1>5, <1>6, <1>7, <1>8, <1>9 DEF SelectorNext

LEMMA MapInvHolds == SelectorSpec => []MapInv
<1> USE SelectorAssumption
<1>1. SelectorInit => MapInv BY MapInvInit
<1>2. MapInv /\ [SelectorNext]_selectorVars => MapInv' BY MapInvNext
<1> QED BY <1>1, <1>2, PTL DEF SelectorSpec

-----------------------------------------------------------------------------
(* Theorems.                                                               *)

\* The types of the variables are kept (register, unregister, modify, close).
THEOREM SelectorTypeCorrect == SelectorSpec => []SelectorTypeOK
<1>1. MapInv => SelectorTypeOK BY DEF MapInv, MapTypeOK, SelectorTypeOK
<1> QED BY <1>1, MapInvHolds, PTL

\* The poller watches exactly what has a key, for the events of the key,
\* whatever it raises in the middle of register(), unregister() and modify().
THEOREM InSyncHolds == SelectorSpec => []InSync
<1>1. MapInv => InSync BY DEF MapInv
<1> QED BY <1>1, MapInvHolds, PTL

\* What is registered is found under its own key, closed or not, and so can be
\* unregistered (_fileobj_lookup).
THEOREM FindableHolds == SelectorSpec => []Findable
<1> QED BY OwnedIsFindable, MapInvHolds, PTL

-----------------------------------------------------------------------------
(* select().                                                               *)

\* The milliseconds for which the poller waits cover the timeout, in tenths of a
\* millisecond, and exceed it by less than one.
LEMMA MillisecondsCover ==
  ASSUME NEW t \in Nat
  PROVE  10 * Milliseconds(t) >= t /\ 10 * Milliseconds(t) < t + 10
<1>1. CASE t <= 0
  BY <1>1 DEF Milliseconds
<1>2. CASE t > 0
  <2> DEFINE q == (t + 9) \div 10
             r == (t + 9) % 10
  <2>1. q \in Int /\ r \in 0..9 /\ t + 9 = 10 * q + r
    OBVIOUS
  <2>2. Milliseconds(t) = q
    BY <1>2 DEF Milliseconds
  <2> HIDE DEF q, r
  <2> QED BY <2>1, <2>2
<1> QED BY <1>1, <1>2

\* What the poller signals of a handle is something that was asked for.
LEMMA FoundSomething ==
  ASSUME MapInv, NEW fd \in DOMAIN polled, NEW flags \in Flags(fd)
  PROVE  /\ fd \in DOMAIN keys
         /\ Found(flags, keys[fd]) # {}
         /\ \A e \in Found(flags, keys[fd]) : e \in flags \/ ERR \in flags
<1>1. fd \in DOMAIN keys /\ Watched(keys[fd].events) = polled[fd] /\ polled[fd] \in Events
  BY DEF MapInv, InSync, MapTypeOK
<1>2. flags # {} /\ flags \subseteq polled[fd] \cup {ERR}
  BY DEF Flags
<1>3. CASE ERR \in flags
  <2>1. Found(flags, keys[fd]) = polled[fd]
    BY <1>1, <1>3 DEF Found, Watched
  <2> QED BY <1>1, <1>3, <2>1 DEF Events
<1>4. CASE ERR \notin flags
  <2>1. Found(flags, keys[fd]) = flags
    BY <1>1, <1>2, <1>4 DEF Found, Watched
  <2> QED BY <1>1, <1>2, <2>1
<1> QED BY <1>3, <1>4

LEMMA SelectSoundStep == ASSUME MapInv, SelectSound, [SelectorNext]_selectorVars PROVE SelectSound'
<1>1. CASE UNCHANGED answer
  BY <1>1 DEF answer, SelectSound, ReportsWanted, WaitsEnough
<1>2. CASE NothingFound
  BY <1>2 DEF NothingFound, SelectSound, ReportsWanted, WaitsEnough, Empty
<1>3. ASSUME NEW timeout \in Timeouts, SelectTimesOut(timeout) PROVE SelectSound'
  <2>1. timeout \in Nat
    BY <1>3, SelectorAssumption DEF SelectTimesOut
  <2>2. WaitsEnough'
    BY <1>3, <2>1, MillisecondsCover DEF SelectTimesOut, WaitsEnough
  <2>3. ReportsWanted'
    BY <1>3 DEF SelectTimesOut, ReportsWanted, Empty
  <2> QED BY <2>2, <2>3 DEF SelectSound
<1>4. ASSUME NEW ready, SelectReady(ready) PROVE SelectSound'
  <2>1. ready \subseteq DOMAIN polled /\ ready \cap DOMAIN keys = ready
    BY <1>4 DEF SelectReady, MapInv, InSync
  <2>2. PICK s \in [ready -> UNION {Flags(fd) : fd \in ready}] :
          /\ \A fd \in ready : s[fd] \in Flags(fd)
          /\ signalled' = s
          /\ report' = [fd \in ready \cap DOMAIN keys |-> Found(s[fd], keys[fd])]
    BY <1>4 DEF SelectReady
  <2>3. /\ DOMAIN signalled' = ready /\ DOMAIN report' = ready
        /\ \A fd \in ready : report'[fd] = Found(signalled'[fd], keys[fd])
                            /\ signalled'[fd] \in Flags(fd)
    BY <2>1, <2>2
  <2>4. ReportsWanted'
    BY <2>1, <2>3, FoundSomething DEF ReportsWanted
  <2>5. WaitsEnough'
    BY <1>4 DEF SelectReady, WaitsEnough
  <2> QED BY <2>4, <2>5 DEF SelectSound
<1>5. CASE Select
  BY <1>2, <1>3, <1>4, <1>5 DEF Select, SelectFails
<1> QED BY <1>1, <1>2, <1>5
  DEF SelectorNext, selectorVars, answer, Register, Modify, Unregister, CloseSelector, Open, CloseFile, CloseSock

\* select() reports all that the poller signals, with an event that was asked for,
\* and waits no shorter than it was asked to and less than a millisecond longer.
THEOREM SelectSoundHolds == SelectorSpec => []SelectSound
<1>1. SelectorInit => SelectSound
  BY DEF SelectorInit, SelectSound, ReportsWanted, WaitsEnough, Empty
<1>2. MapInv /\ SelectSound /\ [SelectorNext]_selectorVars => SelectSound'
  BY SelectSoundStep
<1> QED BY <1>1, <1>2, MapInvHolds, PTL DEF SelectorSpec

-----------------------------------------------------------------------------
(* The policy.                                                             *)

\* The lock belongs to a thread that is past the second look, and to no other.
Locked ==
  \A t \in Threads : pc[t] \in {"create", "attachNew"} => lock = t

\* Why OneDefault holds: a thread that is about to make a watcher still owes the
\* books one, because _watcher was None when it looked, and while it holds the
\* lock nobody else makes one; and a _watcher that is None was never made or was
\* taken away since.
Owed ==
  /\ watcher = None => made <= cleared
  /\ \A t \in Threads : pc[t] = "create" => made <= cleared /\ made < MaxDefaults

PolicyInv == TypeOK /\ OneDefault /\ Locked /\ Owed

-----------------------------------------------------------------------------
(* Lemmas.                                                                 *)

\* The watchers of the policy and None are different.
LEMMA NoneIsNoWatcher == None \notin Watchers
BY PolicyAssumption DEF Watchers

\* What is counted is counted with numbers.
LEMMA CountType ==
  ASSUME TypeOK
  PROVE  made \in Nat /\ cleared \in Nat /\ MaxDefaults \in Nat /\ MaxCleared \in Nat
<1>1. MaxDefaults \in Nat /\ MaxCleared \in Nat
  BY PolicyAssumption
<1>2. made \in 0..MaxDefaults /\ cleared \in 0..MaxCleared
  BY DEF TypeOK
<1> QED BY <1>1, <1>2

\* Sending a thread to a place keeps pc a function.
LEMMA GotoType ==
  ASSUME TypeOK, NEW t \in Threads, NEW place,
         place \in {"idle", "attach", "lock", "create", "attachNew", "return",
                    "close", "write"},
         Goto(t, place)
  PROVE  /\ pc' \in [Threads -> {"idle", "attach", "lock", "create", "attachNew",
                                 "return", "close", "write"}]
         /\ pc'[t] = place
         /\ \A u \in Threads : u # t => pc'[u] = pc[u]
BY DEF TypeOK, Goto

\* Telling the watcher keeps the types.
LEMMA AttachToType ==
  ASSUME TypeOK, NEW l \in Loops \cup {NoLoop}, AttachTo(l)
  PROVE  attached' \in [Watchers -> Loops \cup {NoLoop}] /\ failed' \in BOOLEAN
<1>1. CASE watcher = None
  BY <1>1 DEF AttachTo, TypeOK
<1>2. CASE watcher # None
  BY <1>2 DEF AttachTo, TypeOK
<1> QED BY <1>1, <1>2

\* Looking at _watcher, and writing nothing that the books are about.
LEMMA CallsKeepInv ==
  ASSUME PolicyInv, NEW t \in Threads,
         \/ \E l \in Loops \cup {NoLoop} : SetEventLoop(t, l)
         \/ SetEventLoopAsserts(t) \/ Attach(t)
         \/ GetChildWatcher(t) \/ Return(t)
         \/ \E w \in Own \cup {None} : SetChildWatcher(t, w)
         \/ CloseWatcher(t),
         crossed' \in BOOLEAN
  PROVE  PolicyInv'
<1>1. UNCHANGED <<watcher, lock, countVars>>
  BY DEF SetEventLoop, SetEventLoopAsserts, Attach, GetChildWatcher, Return,
         SetChildWatcher, CloseWatcher
<1>2. /\ loop' \in [Threads -> Loops \cup {NoLoop}]
      /\ setCalled' \in [Threads -> BOOLEAN]
  BY DEF PolicyInv, TypeOK, SetEventLoop, SetEventLoopAsserts, Attach, GetChildWatcher,
         Return, SetChildWatcher, CloseWatcher, localVars
<1>3. arg' \in [Threads -> Watchers \cup {None}]
  BY DEF PolicyInv, TypeOK, SetEventLoop, SetEventLoopAsserts, Attach, GetChildWatcher,
         Return, SetChildWatcher, CloseWatcher, Watchers
<1>4. attached' \in [Watchers -> Loops \cup {NoLoop}] /\ failed' \in BOOLEAN
  <2>1. CASE UNCHANGED attached /\ failed' \in BOOLEAN
    BY <2>1 DEF PolicyInv, TypeOK
  <2>2. CASE \E l \in Loops \cup {NoLoop} : AttachTo(l)
    BY <2>2, AttachToType DEF PolicyInv
  <2>3. Attach(t) => loop[t] \in Loops \cup {NoLoop}
    BY DEF PolicyInv, TypeOK
  <2> QED BY <2>1, <2>2, <2>3
          DEF PolicyInv, TypeOK, SetEventLoop, SetEventLoopAsserts, Attach,
              GetChildWatcher, Return, SetChildWatcher, CloseWatcher
<1>5. \/ UNCHANGED pc
      \/ \E place \in {"idle", "attach", "lock", "return", "close", "write"} : Goto(t, place)
  BY DEF SetEventLoop, SetEventLoopAsserts, Attach, GetChildWatcher, Return,
         SetChildWatcher, CloseWatcher
<1>6. /\ pc' \in [Threads -> {"idle", "attach", "lock", "create", "attachNew", "return",
                              "close", "write"}]
      /\ \A u \in Threads : pc'[u] \in {"create", "attachNew"} => pc'[u] = pc[u]
  <2>1. CASE UNCHANGED pc
    BY <2>1 DEF PolicyInv, TypeOK
  <2>2. CASE \E place \in {"idle", "attach", "lock", "return", "close", "write"} :
               Goto(t, place)
    BY <2>2, GotoType DEF PolicyInv
  <2> QED BY <1>5, <2>1, <2>2
<1>7. TypeOK'
  BY <1>1, <1>2, <1>3, <1>4, <1>6 DEF PolicyInv, TypeOK, countVars
<1>8. (OneDefault /\ Locked /\ Owed)'
  BY <1>1, <1>6 DEF PolicyInv, OneDefault, Locked, Owed, countVars
<1> QED BY <1>7, <1>8 DEF PolicyInv

\* Taking the lock: nobody has it, so nobody is past it.
LEMMA LockKeepsInv ==
  ASSUME PolicyInv, NEW t \in Threads, Lock(t), crossed' \in BOOLEAN
  PROVE  PolicyInv'
<1>1. PICK place \in {"create", "return"} : Goto(t, place)
  BY DEF Lock
<1>2. /\ pc' \in [Threads -> {"idle", "attach", "lock", "create", "attachNew", "return",
                              "close", "write"}]
      /\ pc'[t] = place
      /\ \A u \in Threads : u # t => pc'[u] = pc[u]
  BY <1>1, GotoType DEF PolicyInv
<1>3. TypeOK'
  BY <1>2 DEF Lock, PolicyInv, TypeOK, localVars, countVars
<1>4. \A u \in Threads : pc[u] \notin {"create", "attachNew"}
  BY PolicyAssumption DEF Lock, PolicyInv, Locked
<1>5. pc'[t] = "create" => lock' = t /\ watcher = None
  <2>1. CASE watcher = None
    BY <2>1 DEF Lock
  <2>2. CASE watcher # None
    BY <2>2, <1>2, GotoType DEF Lock, PolicyInv
  <2> QED BY <2>1, <2>2
<1>6. Locked'
  BY <1>2, <1>4, <1>5 DEF Locked
<1>7. (OneDefault /\ Owed)'
  <2>1. made < MaxDefaults \/ pc'[t] # "create"
    BY <1>2, GotoType DEF Lock, PolicyInv
  <2> QED BY <1>2, <1>4, <1>5, <2>1 DEF Lock, PolicyInv, OneDefault, Owed, countVars
<1> QED BY <1>3, <1>6, <1>7 DEF PolicyInv

\* Making a watcher: the one that was owed.
LEMMA CreateKeepsInv ==
  ASSUME PolicyInv, NEW t \in Threads, Create(t), crossed' \in BOOLEAN
  PROVE  PolicyInv'
<1>1. PICK place \in {"attachNew", "return"} : Goto(t, place) /\ (place = "attachNew" => UNCHANGED lock)
  BY DEF Create
<1>2. /\ pc' \in [Threads -> {"idle", "attach", "lock", "create", "attachNew", "return",
                              "close", "write"}]
      /\ pc'[t] = place
      /\ \A u \in Threads : u # t => pc'[u] = pc[u]
  BY <1>1, GotoType DEF PolicyInv
<1>3. /\ made \in Nat /\ cleared \in Nat /\ MaxDefaults \in Nat
      /\ made' = made + 1 /\ cleared' = cleared
      /\ made <= cleared /\ made < MaxDefaults
  BY CountType DEF Create, PolicyInv, Owed
<1>4. lock = t /\ \A u \in Threads : u # t => pc[u] \notin {"create", "attachNew"}
  BY DEF Create, PolicyInv, Locked
<1>5. watcher' \in Watchers /\ watcher' # None
  <2>1. made' \in 1..MaxDefaults
    BY <1>3
  <2> QED BY <2>1, NoneIsNoWatcher DEF Create, Watchers
<1>6. TypeOK'
  BY <1>2, <1>3, <1>5 DEF Create, PolicyInv, TypeOK, localVars
<1>7. Locked'
  BY <1>1, <1>2, <1>4 DEF Locked
<1>8. OneDefault'
  BY <1>3 DEF OneDefault
<1>9. Owed'
  BY <1>1, <1>2, <1>4, <1>5 DEF Owed
<1> QED BY <1>6, <1>7, <1>8, <1>9 DEF PolicyInv

\* Attaching the new watcher ends the critical section.
LEMMA AttachNewKeepsInv ==
  ASSUME PolicyInv, NEW t \in Threads, AttachNew(t), crossed' \in BOOLEAN
  PROVE  PolicyInv'
<1>1. PICK place \in {"idle", "return"} : Goto(t, place)
  BY DEF AttachNew
<1>2. /\ pc' \in [Threads -> {"idle", "attach", "lock", "create", "attachNew", "return",
                              "close", "write"}]
      /\ pc'[t] = place
      /\ \A u \in Threads : u # t => pc'[u] = pc[u]
  BY <1>1, GotoType DEF PolicyInv
<1>3. attached' \in [Watchers -> Loops \cup {NoLoop}] /\ failed' \in BOOLEAN
  <2>1. loop[t] \in Loops \cup {NoLoop}
    BY DEF PolicyInv, TypeOK
  <2> QED BY <2>1, AttachToType DEF AttachNew, PolicyInv
<1>4. TypeOK'
  BY <1>2, <1>3 DEF AttachNew, PolicyInv, TypeOK, localVars, countVars
<1>5. lock = t /\ \A u \in Threads : u # t => pc[u] \notin {"create", "attachNew"}
  BY DEF AttachNew, PolicyInv, Locked
<1>6. (OneDefault /\ Locked /\ Owed)'
  BY <1>1, <1>2, <1>5 DEF AttachNew, PolicyInv, OneDefault, Locked, Owed, countVars
<1> QED BY <1>4, <1>6 DEF PolicyInv

\* Replacing the watcher: one that is taken away is counted.
LEMMA WriteKeepsInv ==
  ASSUME PolicyInv, NEW t \in Threads, WriteWatcher(t), crossed' \in BOOLEAN
  PROVE  PolicyInv'
<1>1. /\ pc' \in [Threads -> {"idle", "attach", "lock", "create", "attachNew", "return",
                              "close", "write"}]
      /\ pc'[t] = "idle"
      /\ \A u \in Threads : u # t => pc'[u] = pc[u]
  BY GotoType DEF WriteWatcher, PolicyInv
<1>2. made \in Nat /\ cleared \in Nat /\ made' = made /\ made <= 1 + cleared
  BY CountType DEF WriteWatcher, PolicyInv, OneDefault
<1>3. cleared' \in 0..MaxCleared /\ cleared' = IF arg[t] = None THEN cleared + 1 ELSE cleared
  BY CountType DEF WriteWatcher, PolicyInv, TypeOK
<1>4. watcher' = arg[t] /\ arg[t] \in Watchers \cup {None}
  BY DEF WriteWatcher, PolicyInv, TypeOK
<1>5. TypeOK'
  BY <1>1, <1>2, <1>3, <1>4 DEF WriteWatcher, PolicyInv, TypeOK, localVars
<1>6. (OneDefault /\ Owed)'
  BY <1>1, <1>2, <1>3, <1>4 DEF PolicyInv, OneDefault, Owed
<1>7. Locked'
  BY <1>1 DEF WriteWatcher, PolicyInv, Locked
<1> QED BY <1>5, <1>6, <1>7 DEF PolicyInv

-----------------------------------------------------------------------------
(* The books.                                                              *)

LEMMA PolicyInvHolds == Spec => []PolicyInv
<1>1. Init => PolicyInv
  <2> SUFFICES ASSUME Init PROVE PolicyInv
    OBVIOUS
  <2>1. TypeOK
    <3>1. {failed, crossed} \subseteq BOOLEAN
      BY DEF Init
    <3>2. made \in 0..MaxDefaults /\ cleared \in 0..MaxCleared
      BY PolicyAssumption DEF Init
    <3>3. loop \in [Threads -> Loops \cup {NoLoop}] /\ setCalled \in [Threads -> BOOLEAN]
      BY DEF Init
    <3> QED BY <3>1, <3>2, <3>3 DEF Init, TypeOK
  <2> QED BY <2>1 DEF Init, PolicyInv, OneDefault, Locked, Owed
<1>2. PolicyInv /\ [Next]_vars => PolicyInv'
  <2> SUFFICES ASSUME PolicyInv, [Next]_vars PROVE PolicyInv'
    OBVIOUS
  <2>1. CASE UNCHANGED vars
    BY <2>1 DEF vars, localVars, countVars, PolicyInv, TypeOK, OneDefault, Locked, Owed
  <2>2. CASE Next
    <3>1. PICK t \in Threads : Step(t) /\ crossed' = (crossed \/ Crossing')
      BY <2>2 DEF Next
    <3>2. crossed' \in BOOLEAN
      BY <3>1 DEF Crossing
    <3>3. CASE Lock(t)
      BY <3>2, <3>3, LockKeepsInv
    <3>4. CASE Create(t)
      BY <3>2, <3>4, CreateKeepsInv
    <3>5. CASE AttachNew(t)
      BY <3>2, <3>5, AttachNewKeepsInv
    <3>6. CASE WriteWatcher(t)
      BY <3>2, <3>6, WriteKeepsInv
    <3>7. CASE ~(Lock(t) \/ Create(t) \/ AttachNew(t) \/ WriteWatcher(t))
      <4>1. \/ \E l \in Loops \cup {NoLoop} : SetEventLoop(t, l)
            \/ SetEventLoopAsserts(t) \/ Attach(t)
            \/ GetChildWatcher(t) \/ Return(t)
            \/ \E w \in Own \cup {None} : SetChildWatcher(t, w)
            \/ CloseWatcher(t)
        BY <3>1, <3>7 DEF Step, GetEventLoop
      <4> QED BY <3>2, <4>1, CallsKeepInv
    <3> QED BY <3>3, <3>4, <3>5, <3>6, <3>7
  <2> QED BY <2>1, <2>2
<1> QED BY <1>1, <1>2, PTL DEF Spec

\* The variables keep their types, and the policy makes a watcher of its own
\* once for every time there was none to find: however many threads ask for it
\* at the same time (get_child_watcher, _init_watcher).
THEOREM PolicyBooksHold == Spec => []Books
<1>1. PolicyInv => Books
  BY DEF PolicyInv, Books
<1> QED BY <1>1, PolicyInvHolds, PTL

-----------------------------------------------------------------------------
(* The watchers.                                                           *)

\* Only the main thread attaches, and a thread that replaces the watcher while
\* another is in the middle of a call is noticed.
MainAttaches == \A t \in Threads : pc[t] \in {"attach", "attachNew"} => t = Main
Noticed == Crossing => crossed

Orderly == LooksHold /\ WatchersKept /\ ~failed

OrderInv == MainAttaches /\ Noticed /\ WatchersInOrder

\* Nobody else has looked at the watcher when it is replaced, as long as no calls
\* crossed.
LEMMA Alone ==
  ASSUME Noticed, ~crossed, NEW t \in Threads, NEW u \in Threads,
         pc[t] \in {"close", "write"}, u # t
  PROVE  pc[u] \in {"idle", "lock"}
BY DEF Noticed, Crossing

\* set_event_loop(): a watcher that is there is owed to the new loop.
LEMMA SetEventLoopKeepsOrder ==
  ASSUME TypeOK, MainAttaches, Orderly, NEW t \in Threads,
         NEW l \in Loops \cup {NoLoop}, SetEventLoop(t, l)
  PROVE  MainAttaches' /\ Orderly'
<1>1. /\ watcher' = watcher /\ attached' = attached /\ failed' = failed
      /\ loop' = [loop EXCEPT ![t] = l]
      /\ Goto(t, IF watcher # None /\ t = Main THEN "attach" ELSE "idle")
  BY DEF SetEventLoop
<1>2. /\ pc'[t] = IF watcher # None /\ t = Main THEN "attach" ELSE "idle"
      /\ \A u \in Threads : u # t => pc'[u] = pc[u]
  BY <1>1 DEF TypeOK, Goto
<1>3. MainAttaches' /\ LooksHold'
  BY <1>1, <1>2 DEF MainAttaches, Orderly, LooksHold
<1>4. WatchersKept'
  <2>1. watcher # None /\ pc'[Main] # "attach" => pc[Main] # "attach" /\ loop'[Main] = loop[Main]
    BY <1>1, <1>2, PolicyAssumption DEF TypeOK, SetEventLoop
  <2> QED BY <1>1, <1>2, <2>1 DEF Orderly, WatchersKept
<1> QED BY <1>1, <1>3, <1>4 DEF Orderly

\* Calls that only look at _watcher.
LEMMA LooksKeepOrder ==
  ASSUME TypeOK, MainAttaches, Orderly, Locked, NEW t \in Threads,
         \/ SetEventLoopAsserts(t) \/ GetChildWatcher(t) \/ Lock(t) \/ Return(t)
         \/ \E w \in Own \cup {None} : SetChildWatcher(t, w)
  PROVE  MainAttaches' /\ Orderly'
<1>1. UNCHANGED <<watcher, attached, loop>>
  BY DEF SetEventLoopAsserts, GetChildWatcher, Lock, Return, SetChildWatcher, localVars
<1>2. failed' = failed
  BY DEF SetEventLoopAsserts, GetChildWatcher, Lock, Return, SetChildWatcher,
         Orderly, LooksHold, TypeOK
<1>3. \/ UNCHANGED pc
      \/ /\ pc[t] # "attach"
         /\ \/ \E place \in {"idle", "lock"} : Goto(t, place)
            \/ watcher = None /\ \E place \in {"create", "write"} : Goto(t, place)
            \/ watcher # None /\ \E place \in {"return", "close"} : Goto(t, place)
  BY DEF SetEventLoopAsserts, GetChildWatcher, Lock, Return, SetChildWatcher
<1>4. CASE UNCHANGED pc
  BY <1>1, <1>2, <1>4 DEF MainAttaches, Orderly, LooksHold, WatchersKept
<1>5. ASSUME NEW place, Goto(t, place), pc[t] # "attach",
             \/ place \in {"idle", "lock"}
             \/ watcher = None /\ place \in {"create", "write"}
             \/ watcher # None /\ place \in {"return", "close"}
      PROVE  MainAttaches' /\ Orderly'
  <2>1. pc'[t] = place /\ \A u \in Threads : u # t => pc'[u] = pc[u]
    BY <1>5 DEF TypeOK, Goto
  <2>2. MainAttaches' /\ LooksHold'
    BY <1>1, <1>5, <2>1 DEF MainAttaches, Orderly, LooksHold
  <2>3. pc'[Main] # "attach" => pc[Main] # "attach"
    BY <1>5, <2>1, PolicyAssumption
  <2>4. WatchersKept'
    BY <1>1, <1>5, <2>1, <2>3 DEF Orderly, WatchersKept
  <2> QED BY <1>2, <2>2, <2>4 DEF Orderly
<1> QED BY <1>3, <1>4, <1>5

\* Attaching: the main thread, to the loop it has.
LEMMA AttachKeepsOrder ==
  ASSUME TypeOK, MainAttaches, Orderly, Noticed, ~crossed,
         NEW t \in Threads, Attach(t) \/ AttachNew(t)
  PROVE  MainAttaches' /\ Orderly'
<1>1. t = Main /\ watcher # None
  BY DEF Attach, AttachNew, MainAttaches, Orderly, LooksHold
<1>2. PICK place \in {"idle", "return"} : Goto(t, place)
  BY DEF Attach, AttachNew
<1>3. pc'[t] = place /\ \A u \in Threads : u # t => pc'[u] = pc[u]
  BY <1>2 DEF TypeOK, Goto
<1>4. /\ watcher' = watcher /\ loop' = loop /\ failed' = failed
      /\ attached' = [attached EXCEPT ![watcher] = loop[Main]]
  BY <1>1 DEF Attach, AttachNew, AttachTo, localVars
<1>5. /\ watcher \in Watchers /\ attached'[watcher] = loop[Main]
      /\ \A w \in Watchers \ {watcher} : attached'[w] = attached[w]
  BY <1>1, <1>4 DEF TypeOK
<1>6. MainAttaches' /\ LooksHold'
  BY <1>1, <1>3, <1>4 DEF MainAttaches, Orderly, LooksHold
<1>7. \A u \in Threads : pc'[u] # "write"
  BY <1>2, <1>3, Alone DEF Attach, AttachNew
<1> QED BY <1>4, <1>5, <1>6, <1>7 DEF Orderly, WatchersKept

\* Making a watcher, which is attached to nothing yet.
LEMMA CreateKeepsOrder ==
  ASSUME TypeOK, Locked, MainAttaches, Orderly, Noticed, ~crossed,
         NEW t \in Threads, Create(t), watcher' \in Watchers
  PROVE  MainAttaches' /\ Orderly'
<1>1. watcher = None /\ watcher' # None
  BY NoneIsNoWatcher DEF Create, Orderly, LooksHold
<1>2. PICK place \in {"attachNew", "return"} :
        Goto(t, place) /\ (place = "attachNew" => t = Main)
  BY DEF Create
<1>3. pc'[t] = place /\ \A u \in Threads : u # t => pc'[u] = pc[u]
  BY <1>2 DEF TypeOK, Goto
<1>4. loop' = loop /\ failed' = failed /\ attached' = attached
  BY DEF Create, localVars
<1>5. \A w \in Watchers : attached[w] = NoLoop
  BY <1>1, NoneIsNoWatcher DEF Orderly, WatchersKept
<1>6. \A u \in Threads : u # t => pc[u] # "create"
  BY DEF Create, Locked
<1>7. MainAttaches' /\ LooksHold'
  BY <1>1, <1>2, <1>3, <1>6 DEF MainAttaches, Orderly, LooksHold
<1>8. WatchersKept'
  BY <1>4, <1>5 DEF WatchersKept
<1> QED BY <1>4, <1>7, <1>8 DEF Orderly

\* set_child_watcher() detaches what it replaces, and nobody else is about to use it.
LEMMA CloseKeepsOrder ==
  ASSUME TypeOK, MainAttaches, Orderly, Noticed, ~crossed,
         NEW t \in Threads, CloseWatcher(t)
  PROVE  MainAttaches' /\ Orderly'
<1>1. watcher # None /\ watcher \in Watchers
  BY DEF CloseWatcher, Orderly, LooksHold, TypeOK
<1>2. pc'[t] = "write" /\ \A u \in Threads : u # t => pc'[u] = pc[u] /\ pc[u] \in {"idle", "lock"}
  BY <1>1, Alone DEF TypeOK, Goto, CloseWatcher
<1>3. /\ watcher' = watcher /\ loop' = loop /\ failed' = failed
      /\ attached' = [attached EXCEPT ![watcher] = NoLoop]
  BY <1>1 DEF CloseWatcher, AttachTo, localVars
<1>4. /\ attached'[watcher] = NoLoop
      /\ \A w \in Watchers \ {watcher} : attached'[w] = attached[w]
  BY <1>1, <1>3 DEF TypeOK
<1>5. MainAttaches' /\ LooksHold'
  BY <1>1, <1>2, <1>3 DEF MainAttaches, LooksHold
<1> QED BY <1>3, <1>4, <1>5 DEF Orderly, WatchersKept

LEMMA WriteKeepsOrder ==
  ASSUME TypeOK, MainAttaches, Orderly, Noticed, ~crossed,
         NEW t \in Threads, WriteWatcher(t)
  PROVE  MainAttaches' /\ Orderly'
<1>1. \A u \in Threads : pc'[u] \in {"idle", "lock"}
  BY Alone DEF TypeOK, Goto, WriteWatcher
<1>2. \A w \in Watchers : attached[w] = NoLoop
  BY NoneIsNoWatcher DEF WriteWatcher, Orderly, WatchersKept
<1>3. watcher' \in Watchers \cup {None} /\ UNCHANGED <<loop, failed, attached>>
  BY DEF WriteWatcher, TypeOK, localVars
<1>4. MainAttaches' /\ LooksHold'
  BY <1>1 DEF MainAttaches, LooksHold
<1>5. WatchersKept'
  BY <1>1, <1>2, <1>3, NoneIsNoWatcher DEF WatchersKept
<1> QED BY <1>3, <1>4, <1>5 DEF Orderly

\* Only the main thread is ever sent to attach, whatever else went wrong.
LEMMA MainAttachesStep ==
  ASSUME TypeOK, MainAttaches, NEW t \in Threads, Step(t)
  PROVE  MainAttaches'
<1>1. \/ UNCHANGED pc
      \/ \E place \in {"idle", "lock", "create", "return", "close", "write"} : Goto(t, place)
      \/ t = Main /\ \E place \in {"attach", "attachNew"} : Goto(t, place)
  BY DEF Step, SetEventLoop, GetEventLoop, SetEventLoopAsserts, Attach, GetChildWatcher,
         Lock, Create, AttachNew, Return, SetChildWatcher, CloseWatcher, WriteWatcher
<1> QED BY <1>1 DEF TypeOK, MainAttaches, Goto

LEMMA OrderNext ==
  ASSUME PolicyInv, PolicyInv', OrderInv, [Next]_vars
  PROVE  OrderInv'
<1>1. CASE UNCHANGED vars
  BY <1>1 DEF vars, localVars, countVars, OrderInv, WatchersInOrder, MainAttaches, Noticed, Crossing,
              Orderly, LooksHold, WatchersKept
<1>2. CASE Next
  <2>1. PICK t \in Threads : Step(t) /\ crossed' = (crossed \/ Crossing')
    BY <1>2 DEF Next
  <2>2. TypeOK /\ Locked /\ TypeOK' /\ MainAttaches /\ Noticed
    BY DEF PolicyInv, OrderInv
  <2>3. MainAttaches'
    BY <2>1, <2>2, MainAttachesStep
  <2>4. Noticed'
    BY <2>1 DEF Noticed
  <2>5. ASSUME ~crossed' PROVE Orderly'
    <3>1. ~crossed /\ Orderly
      BY <2>1, <2>5 DEF OrderInv, WatchersInOrder, Orderly
    <3>2. ASSUME NEW l \in Loops \cup {NoLoop}, SetEventLoop(t, l) PROVE Orderly'
      BY <2>2, <3>1, <3>2, SetEventLoopKeepsOrder
    <3>3. CASE \/ SetEventLoopAsserts(t) \/ GetChildWatcher(t) \/ Lock(t) \/ Return(t)
               \/ \E w \in Own \cup {None} : SetChildWatcher(t, w)
      BY <2>2, <3>1, <3>3, LooksKeepOrder
    <3>4. CASE Attach(t) \/ AttachNew(t)
      BY <2>2, <3>1, <3>4, AttachKeepsOrder
    <3>5. CASE Create(t)
      <4>1. watcher' \in Watchers
        BY <2>2, <3>5, CountType DEF Create, TypeOK, Watchers
      <4> QED BY <2>2, <3>1, <3>5, <4>1, CreateKeepsOrder
    <3>6. CASE CloseWatcher(t)
      BY <2>2, <3>1, <3>6, CloseKeepsOrder
    <3>7. CASE WriteWatcher(t)
      BY <2>2, <3>1, <3>7, WriteKeepsOrder
    <3> QED BY <2>1, <3>2, <3>3, <3>4, <3>5, <3>6, <3>7 DEF Step, GetEventLoop
  <2> QED BY <2>3, <2>4, <2>5 DEF OrderInv, WatchersInOrder, Orderly
<1> QED BY <1>1, <1>2

\* However the calls of the threads interleave, and with any of them in the middle
\* of their calls, as long as no set_child_watcher() ran between another thread's
\* look at the watcher and its use: what the looks said holds, the watcher follows
\* the loop of the main thread, what was replaced is detached, and no method
\* tripped over a watcher that was gone (set_event_loop, get_child_watcher,
\* set_child_watcher).
THEOREM WatchersInOrderHolds == Spec => []WatchersInOrder
<1>1. Init => OrderInv
  BY DEF Init, OrderInv, WatchersInOrder, MainAttaches, Noticed, Crossing, Orderly, LooksHold, WatchersKept
<1>2. PolicyInv /\ PolicyInv' /\ OrderInv /\ [Next]_vars => OrderInv'
  BY OrderNext
<1>3. OrderInv => WatchersInOrder
  BY DEF OrderInv
<1> QED BY <1>1, <1>2, <1>3, PolicyInvHolds, PTL DEF Spec

=============================================================================
