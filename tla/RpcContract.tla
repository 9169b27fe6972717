---------------------------- MODULE RpcContract -----------------------------
(***************************************************************************)
(* What the request-reply RPC promises to a caller (docs/rpc.rst): a       *)
(* remote call as if it had the servers to itself, without request ids,    *)
(* futures that are left behind, or answers that meet.                     *)
(*                                                                         *)
(*   - a call is handled at most once, and only after it was made;         *)
(*   - its result is what its own handler answered, a value or an error;   *)
(*   - it has one result: what was given up stays given up when the answer *)
(*     comes late, and an answer is not taken back;                        *)
(*   - a call may be lost on either way, and its handler may leave it      *)
(*     without an answer: then it ends by being given up, or not at all.   *)
(***************************************************************************)
CONSTANTS Calls,
          Answers  \* what a handler may answer, some of it a "value" or an "error"

VARIABLES asked,    \* calls on the way to a handler
          handled,  \* calls that a handler is at
          answers,  \* answers that were given and did not arrive yet
          result    \* what each call came to

contractVars == <<asked, handled, answers, result>>

Answer(n, a) == [call |-> n, answer |-> a]

Init == /\ asked = {} /\ handled = {} /\ answers = {}
        /\ result = [n \in Calls |-> "none"]

\* The request may not even leave.
Ask(n) == /\ result[n] = "none"
          /\ result' = [result EXCEPT ![n] = "pending"]
          /\ asked' \in {asked, asked \cup {n}}
          /\ UNCHANGED <<handled, answers>>

Handle(n) == /\ n \in asked
             /\ asked' = asked \ {n}
             /\ handled' = handled \cup {n}
             /\ UNCHANGED <<answers, result>>

\* A call that is answered as soon as it arrives: a plain function, or a refusal.
AnswerAtOnce(n, a) == /\ n \in asked
                      /\ asked' = asked \ {n}
                      /\ answers' = answers \cup {Answer(n, a)}
                      /\ UNCHANGED <<handled, result>>

AnswerLater(n, a) == /\ n \in handled
                     /\ handled' = handled \ {n}
                     /\ answers' = answers \cup {Answer(n, a)}
                     /\ UNCHANGED <<asked, result>>

\* Handlers that end without an answer, many at the end of a connection.
Abandon(S) == /\ S \subseteq handled
              /\ handled' = handled \ S
              /\ UNCHANGED <<asked, answers, result>>

\* Requests and answers that are lost, or that nobody waits for any more.
Lose == \/ /\ \E n \in asked : asked' = asked \ {n}
           /\ UNCHANGED <<handled, answers, result>>
        \/ /\ \E x \in answers : answers' = answers \ {x}
           /\ UNCHANGED <<asked, handled, result>>

Return(x) == /\ x \in answers /\ x.answer \in {"value", "error"}
             /\ result[x.call] = "pending"
             /\ result' = [result EXCEPT ![x.call] = x.answer]
             /\ answers' = answers \ {x}
             /\ UNCHANGED <<asked, handled>>

\* Calls given up: one by its timeout or its caller, many at the end of the
\* connection.
GiveUp(S, why) == /\ \A n \in S : result[n] = "pending"
                  /\ result' = [n \in Calls |-> IF n \in S THEN why ELSE result[n]]
                  /\ UNCHANGED <<asked, handled, answers>>

Next == \/ \E n \in Calls : \/ Ask(n) \/ Handle(n)
                            \/ \E a \in Answers : AnswerAtOnce(n, a) \/ AnswerLater(n, a)
        \/ \E S \in SUBSET handled : Abandon(S)
        \/ Lose
        \/ \E x \in answers : Return(x)
        \/ \E S \in SUBSET Calls, why \in {"timedout", "cancelled", "dropped"} : GiveUp(S, why)

Spec == Init /\ [][Next]_contractVars

=============================================================================
