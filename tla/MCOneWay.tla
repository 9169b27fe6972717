------------------------------ MODULE MCOneWay -------------------------------
(* Instances of RpcOneWay for TLC.                                         *)
EXTENDS RpcOneWay

\* Two entries for one class, which has a subclass, and a class without any.
MCTable  == 1 :> "date" @@ 2 :> "zone" @@ 3 :> "date"
MCSupers == [c \in Classes |-> IF c = "datetime" THEN {c, "date"} ELSE {c}]

\* The root has a function, one that is not exposed, a namespace, also under the
\* blank, and a list; the namespace has a coroutine under the function's name.
MCItem == <<"root", "f">> :> "func" @@ <<"root", "g">> :> "private" @@
          <<"root", "ns">> :> "space" @@ <<"root", "">> :> "space" @@ <<"root", "l">> :> "list" @@
          <<"space", "f">> :> "coro"
MCNames == {<<"f">>, <<"">>, <<"", "f">>, <<"g">>, <<"ns", "f">>, <<"l", "f">>, <<"f", "f">>}

\* Every name, every class, arguments that do not fit, and the other topic.
Offer(topic, name, cls, body) == [topic |-> topic, name |-> name, cls |-> cls, body |-> body]
MCOffers == {Offer("t", name, "date", "sane") : name \in MCNames}
              \cup {Offer("t", <<"f">>, cls, "sane") : cls \in Classes}
              \cup {Offer("t", <<"ns", "f">>, "zone", "misfit"), Offer("tt", <<"f">>, "datetime", "sane")}

MCPlans    == {<<"t">>, <<"t", "bad", "tt">>}
MCMatching == "t" :> {"t"} @@ "tt" :> {"t", "tt"}
=============================================================================
