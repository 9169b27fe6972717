------------------------------ MODULE Dispatch -------------------------------
(***************************************************************************)
(* dispatch() of the servers (aiozmq/rpc/base.py): from the name in a      *)
(* message to a function, through handlers that hold other handlers.       *)
(*                                                                         *)
(* A name is the sequence of its parts between the dots; the empty name is *)
(* one blank part.  handler[part] finds an entry, or raises KeyError; a    *)
(* handler that is a list, which passes for an AbstractHandler because it  *)
(* has a __getitem__, raises TypeError instead, which nobody catches.      *)
(***************************************************************************)
EXTENDS Naturals, Sequences, SequencesExt

CONSTANTS Root,      \* the handler the server was given
          Handlers,  \* objects with a __getitem__
          Strict,    \* those whose lookup does not raise KeyError
          Marked,    \* functions that were decorated with @method
          Parts,     \* what may stand between the dots of a name
          Blank,     \* the empty string, one of them
          Item       \* <<handler, part>> to the object found there

ASSUME DispatchAssumption ==
  /\ Root \in Handlers
  /\ Strict \subseteq Handlers
  /\ Blank \in Parts
  /\ Marked \cap Handlers = {}
  /\ {"NotFoundError", "TypeError"} \cap (Handlers \cup Marked) = {}

Lookup(handler, part) ==
  IF <<handler, part>> \in DOMAIN Item THEN Item[<<handler, part>>]
  ELSE IF handler \in Strict THEN "TypeError" ELSE "NotFoundError"

\* Slip: anything that was found may be called.
CalleeUnmarked(found) == found

\* The last step: only what is marked is called.
Callee(found) ==
  IF found \in Marked \cup {"TypeError"} THEN found ELSE "NotFoundError"

\* One namespace further down; what is found there must be a handler.
Enter(handler, part) ==
  IF handler \notin Handlers THEN handler
  ELSE LET found == Lookup(handler, part)
       IN IF found \in Handlers \cup {"TypeError"} THEN found ELSE "NotFoundError"

\* The handler that the namespaces lead to, or the exception that is raised.
Walk(spaces) ==
  LET walk[i \in 0..Len(spaces)] == IF i = 0 THEN Root ELSE Enter(walk[i - 1], spaces[i])
  IN walk[Len(spaces)]

\* The function for a name, or the exception that is raised. A blank in front
\* of the last part only makes no namespace: ".m" is "m".
Dispatch(name) ==
  LET handler == Walk(IF Front(name) = <<Blank>> THEN <<>> ELSE Front(name))
  IN IF name = <<Blank>> THEN "NotFoundError"
     ELSE IF handler \notin Handlers THEN handler
     ELSE Callee(Lookup(handler, Last(name)))

-----------------------------------------------------------------------------
\* What a name stands for, said without a walk: there is a chain of handlers
\* from the root to the function.
Leads(name, f) ==
  \E chain \in [0..Len(name) -> Handlers \cup Marked] :
    /\ chain[0] = Root /\ chain[Len(name)] = f /\ f \in Marked
    /\ \A i \in 1..Len(name) :
         /\ chain[i - 1] \in Handlers
         /\ <<chain[i - 1], name[i]>> \in DOMAIN Item
         /\ Item[<<chain[i - 1], name[i]>>] = chain[i]

\* A function answers to the name it is found by, with a dot in front if that is
\* a single part. The empty name has no function.
AnswersTo(name, f) ==
  IF Len(name) = 2 /\ Head(name) = Blank
  THEN Leads(Tail(name), f)
  ELSE name # <<Blank>> /\ Leads(name, f)
=============================================================================
