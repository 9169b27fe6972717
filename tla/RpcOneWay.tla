------------------------------ MODULE RpcOneWay ------------------------------
(***************************************************************************)
(* The RPC patterns without an answer: publish-subscribe and pipeline      *)
(* (aiozmq/rpc/pubsub.py, pipeline.py).  A call is packed (Packer) and     *)
(* written, and is over for the client.  The server unpacks it, finds the  *)
(* function (Dispatch) and runs it: a plain function at once, a coroutine  *)
(* as a task in pending_waiters.  process_call_result(), a callback of the *)
(* future of either, discards the task and logs.                           *)
(*                                                                         *)
(* Unlike the RPC server, these do not guard the unpacking: a message that *)
(* cannot be unpacked raises out of msg_received().                        *)
(*                                                                         *)
(* Calls are numbered as they are written.  A peer that is no aiozmq       *)
(* client may send what does not unpack.                                   *)
(***************************************************************************)
EXTENDS Packer, Dispatch

CONSTANTS Kinds,       \* which patterns: "pubsub", "pipeline"
          MaxMessages, \* bound: messages
          Topics,
          Offers,      \* what is called: a topic, a name, and an argument
          BadTopic,    \* no str or bytes, among the topics to subscribe to
          Plans,       \* the topics serve_pubsub() is called with
          Matching,    \* a topic to the subscriptions that match it
          MaxFilters,  \* bound: instances of a subscription
          Coroutines,  \* functions among Marked
          ServerCodes  \* codes of the server's translation table

ASSUME OneWayAssumption ==
  /\ Kinds \subseteq {"pubsub", "pipeline"} /\ MaxMessages \in Nat /\ MaxFilters \in Nat \ {0}
  /\ Plans \subseteq Seq(Topics \cup {BadTopic}) /\ BadTopic \notin Topics
  /\ Matching \in [Topics -> SUBSET Topics]
  /\ Coroutines \subseteq Marked
  /\ ServerCodes \subseteq DOMAIN Table
  /\ \A o \in Offers : /\ o.topic \in Topics /\ o.name \in Seq(Parts) \ {<<>>}
                      /\ o.cls \in Classes /\ o.body \in {"sane", "misfit"}

VARIABLES kind,     \* the pattern
          cache,    \* _pack_cache of the client's packer
          client,   \* the client's transport: "open", "closing", or "None"
          sent,     \* how many messages there were
          msg,      \* what is in each
          net,      \* messages on their way, in order
          server,   \* "none", "open", "closing", or "None" after connection_lost()
          held,     \* the application has the Service
          abandoned, \* a future in done_waiters was cancelled
          subs,     \* how many instances the server's socket has of a subscription
          call,     \* how far each message has come at the server
          ran,      \* the function that was called, or the exception
          came,     \* the class the argument had for it
          pending   \* pending_waiters

clientVars == <<cache, client, sent, msg>>
serverVars == <<server, held, abandoned, subs, call, ran, came, pending>>
vars       == <<kind, clientVars, net, serverVars>>

Messages == 1..MaxMessages

\* A client's arguments fit the function, or do not; a foreign message cannot be
\* unpacked, or its name cannot be decoded.
Message == [offer : Offers, topic : Topics, code : DOMAIN Table, body : {"sane", "misfit"}]
Foreign == [topic : Topics, body : {"badargs", "badname"}]

\* A call is unknown to the server ("none"); left by an exception ("raised");
\* a task that runs ("running"), or was cancelled and still runs ("cancelling");
\* a future that is done, with its callback to come ("ended"); or over ("done").
CallState == {"none", "raised", "running", "cancelling", "ended", "done"}

Init ==
  /\ kind \in Kinds
  /\ cache = NewCache /\ client = "open" /\ sent = 0 /\ msg = <<>> /\ net = <<>>
  /\ server = "none" /\ held = FALSE /\ abandoned = FALSE /\ pending = {}
  /\ subs = [t \in Topics |-> 0]
  /\ call = [n \in Messages |-> "none"]
  /\ ran = [n \in Messages |-> "none"]
  /\ came = [n \in Messages |-> NoEntry]

-----------------------------------------------------------------------------
(* The client: connect_pubsub(), connect_pipeline().                       *)

\* A message is sent, or not.
Write(m, lost) ==
  /\ sent < MaxMessages
  /\ sent' = sent + 1
  /\ msg' = Append(msg, m)
  /\ net' = IF lost THEN net ELSE Append(net, sent')

\* publish(topic).name(value), notify.name(value): an argument that cannot be
\* packed raises TypeError, and is remembered all the same. A closing transport
\* drops the message, or sends it with its backlog.
Publish(o) ==
  /\ client # "None"
  /\ cache' = Remember(cache, o.cls)
  /\ LET code == PackHook(cache, o.cls)
     IN IF code = NoEntry
        THEN UNCHANGED <<sent, msg, net>>
        ELSE \E lost \in {FALSE, client = "closing"} :
               Write([topic |-> o.topic, offer |-> o, code |-> code, body |-> o.body], lost)
  /\ UNCHANGED <<kind, client, serverVars>>

\* Somebody else sends to the same address.
SendForeign(m) ==
  /\ Write(m, FALSE)
  /\ UNCHANGED <<kind, cache, client, serverVars>>

CloseClient ==
  /\ client = "open" /\ client' = "closing"
  /\ UNCHANGED <<kind, cache, sent, msg, net, serverVars>>

LoseClient ==
  /\ client # "None" /\ client' = "None"
  /\ UNCHANGED <<kind, cache, sent, msg, net, serverVars>>

\* The network: a publisher drops what it cannot send at once.
LoseMessage ==
  /\ kind = "pubsub" \/ server = "None"
  /\ net # <<>> /\ net' = Tail(net)
  /\ UNCHANGED <<kind, clientVars, serverVars>>

-----------------------------------------------------------------------------
(* The server.                                                             *)

\* serve_pubsub(), serve_pipeline(). After its connection is made, the first
\* subscribes to one topic after the other, once to each; a bad one raises
\* TypeError, with the transport left to itself.
Serve(topics) ==
  /\ server = "none" /\ server' = "open"
  /\ LET good == {i \in 1..Len(topics) : \A j \in 1..i : topics[j] # BadTopic}
     IN IF kind = "pubsub"
        THEN /\ subs' = [t \in Topics |-> IF \E i \in good : topics[i] = t THEN 1 ELSE 0]
             /\ held' = (Cardinality(good) = Len(topics))
        ELSE held' = TRUE /\ UNCHANGED subs
  /\ UNCHANGED <<kind, clientVars, net, abandoned, call, ran, came, pending>>

\* PubSubService.subscribe(), and setsockopt(SUBSCRIBE) of its transport: one
\* instance more. That the first does nothing for a value that the transport
\* lists is a step that changes nothing.
Subscribe(topic) ==
  /\ kind = "pubsub" /\ held /\ server \in {"open", "closing"}
  /\ subs[topic] < MaxFilters
  /\ subs' = [subs EXCEPT ![topic] = @ + 1]
  /\ UNCHANGED <<kind, clientVars, net, server, held, abandoned, call, ran, came, pending>>

\* unsubscribe(): one instance less, of a subscription the socket may not have.
Unsubscribe(topic) ==
  /\ kind = "pubsub" /\ held /\ server \in {"open", "closing"}
  /\ subs' = [subs EXCEPT ![topic] = IF @ = 0 THEN 0 ELSE @ - 1]
  /\ UNCHANGED <<kind, clientVars, net, server, held, abandoned, call, ran, came, pending>>

\* Exceptions of unpackb(), of the decoding of the name, and of a lookup that is
\* no KeyError leave msg_received().
Raises(m) == m.body \in {"badargs", "badname"} \/ Dispatch(m.offer.name) = "TypeError"

\* The task of a coroutine, kept in pending_waiters.
AddPending(n) ==
  /\ call' = [call EXCEPT ![n] = "running"]
  /\ pending' = pending \cup {n}

\* msg_received(). Of what a plain function raises, only an Exception is kept.
Handle(n, m) ==
  LET f == Dispatch(m.offer.name)
      refused == f = "NotFoundError" \/ m.body = "misfit"
  IN IF Raises(m)
     THEN call' = [call EXCEPT ![n] = "raised"] /\ UNCHANGED <<ran, came, pending>>
     ELSE /\ ran' = [ran EXCEPT ![n] = IF f = "NotFoundError" THEN f
                                       ELSE IF refused THEN "ParametersError" ELSE f]
          /\ came' = [came EXCEPT ![n] = UnpackHook(ServerCodes, m.code)]
          /\ IF ~refused /\ f \in Coroutines
             THEN AddPending(n)
             ELSE /\ \E how \in IF refused THEN {"ended"} ELSE {"ended", "raised"} :
                       call' = [call EXCEPT ![n] = how]
                  /\ UNCHANGED pending

\* A subscriber's socket takes what one of its subscriptions matches.
Matches(m) == kind = "pubsub" => \E t \in Matching[m.topic] : subs[t] > 0

Receive ==
  /\ server \in {"open", "closing"} /\ net # <<>>
  /\ net' = Tail(net)
  /\ IF Matches(msg[Head(net)])
     THEN Handle(Head(net), msg[Head(net)])
     ELSE UNCHANGED <<call, ran, came, pending>>
  /\ UNCHANGED <<kind, clientVars, server, held, abandoned, subs>>

\* The task of a coroutine is over, also by the cancellation.
EndCoroutine(n) ==
  /\ call[n] \in {"running", "cancelling"}
  /\ call' = [call EXCEPT ![n] = "ended"]
  /\ UNCHANGED <<kind, clientVars, net, server, held, abandoned, subs, ran, came, pending>>

\* process_call_result(), discard_pending(); the outcome is only logged.
ProcessCallResult(n) ==
  /\ call[n] = "ended"
  /\ call' = [call EXCEPT ![n] = "done"]
  /\ pending' = pending \ {n}
  /\ UNCHANGED <<kind, clientVars, net, server, held, abandoned, subs, ran, came>>

CloseServer ==
  /\ held /\ server = "open" /\ server' = "closing"
  /\ UNCHANGED <<kind, clientVars, net, held, abandoned, subs, call, ran, came, pending>>

\* A task that waits in wait_closed() is cancelled, and its future with it.
AbandonServer ==
  /\ held /\ server \in {"open", "closing"}
  /\ abandoned' = TRUE
  /\ UNCHANGED <<kind, clientVars, net, server, held, subs, call, ran, came, pending>>

\* Slip: the tasks are left alone.
LoseServerSilently ==
  /\ server \in {"open", "closing"} /\ server' = "None"
  /\ UNCHANGED <<kind, clientVars, net, held, abandoned, subs, call, ran, came, pending>>

\* connection_lost(): the tasks in pending_waiters are cancelled, unless a future
\* of done_waiters was: set_result() raises InvalidStateError before that.
LoseServer ==
  /\ server \in {"open", "closing"} /\ server' = "None"
  /\ call' = [n \in Messages |->
                IF ~abandoned /\ n \in pending /\ call[n] = "running"
                  THEN "cancelling" ELSE call[n]]
  /\ UNCHANGED <<kind, clientVars, net, held, abandoned, subs, ran, came, pending>>

-----------------------------------------------------------------------------
Next ==
  \/ \E o \in Offers : Publish(o)
  \/ \E m \in Foreign : SendForeign(m)
  \/ CloseClient \/ LoseClient \/ LoseMessage
  \/ \E topics \in Plans : Serve(topics)
  \/ \E t \in Topics : Subscribe(t) \/ Unsubscribe(t)
  \/ CloseServer \/ AbandonServer \/ LoseServer
  \/ Receive
  \/ \E n \in Messages : EndCoroutine(n) \/ ProcessCallResult(n)

Spec == Init /\ [][Next]_vars

-----------------------------------------------------------------------------
(* Properties.                                                             *)

TypeOK ==
  /\ kind \in Kinds /\ client \in {"open", "closing", "None"}
  /\ \A cls \in DOMAIN cache : cls \in Classes /\ cache[cls] \in DOMAIN Table \cup {NoEntry}
  /\ sent \in 0..MaxMessages /\ msg \in Seq(Message \cup Foreign) /\ Len(msg) = sent
  /\ net \in Seq(1..sent)
  /\ server \in {"none", "open", "closing", "None"} /\ held \in BOOLEAN /\ abandoned \in BOOLEAN
  /\ subs \in [Topics -> 0..MaxFilters] /\ pending \subseteq Messages
  /\ call \in [Messages -> CallState]
  /\ came \in [Messages -> Classes \cup {NoEntry}]

\* The variables have their types, and the client's cache makes no difference to what
\* is packed, in whatever order values were, unknown ones among them.
Books == TypeOK /\ CacheAgrees(cache)

\* A call runs only a function that is exposed under its name, with arguments that fit,
\* and is refused as not found only when there is none; its argument was packed by an
\* entry for a class it is an instance of, the one a new packer would have taken, and
\* comes out as the server's table says for that code, a raw ExtType where it has no
\* entry (dispatch, check_args, ext_type_pack_hook, ext_type_unpack_hook).  It need
\* not be the entry that the documents promise: AscendingSearch of Packer.
RightCall ==
  \A n \in Messages :
    ran[n] # "none" =>
      /\ ran[n] \notin {"NotFoundError", "ParametersError"} =>
           AnswersTo(msg[n].offer.name, ran[n]) /\ msg[n].body = "sane"
      /\ ran[n] = "NotFoundError" => \A f \in Marked : ~AnswersTo(msg[n].offer.name, f)
      /\ msg[n].code = FirstCode(msg[n].offer.cls)
      /\ Table[msg[n].code] \in Supers[msg[n].offer.cls]
      /\ came[n] = UnpackHook(ServerCodes, msg[n].code)

\* pending_waiters has every task that runs, and none that is over, so the end of the
\* connection cancels what still runs and nothing else; but after a wait_closed() that
\* was cancelled it cancels nothing (add_pending, discard_pending, connection_lost).
PendingKnown ==
  /\ \A n \in Messages :
       /\ call[n] \in {"running", "cancelling"} => n \in pending
       /\ n \in pending => call[n] \in {"running", "cancelling", "ended"}
  /\ server = "None" /\ ~abandoned => \A n \in Messages : call[n] # "running"
=============================================================================
