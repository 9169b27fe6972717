--------------------------- MODULE StreamContract ---------------------------
(***************************************************************************)
(* What a ZmqStream promises to those who read it (docs/stream.rst): a     *)
(* queue between two sides that need not know each other's pace.           *)
(*                                                                         *)
(*   - read() returns messages in the order in which they arrived, each    *)
(*     once;                                                               *)
(*   - arrival is held back only while there is something to read;         *)
(*   - read() waits only while there is nothing to read, and is woken by   *)
(*     the message that comes, or by the end of the connection;            *)
(*   - after the end only who was woken before still comes to his message, *)
(*     or loses it; who reads is told that the stream is closed.           *)
(*                                                                         *)
(* There are no lengths, no water marks and no futures.  Messages are      *)
(* numbered in the order of their arrival.                                 *)
(***************************************************************************)
EXTENDS Naturals, Sequences

CONSTANT Readers

VARIABLES arrived,   \* how many messages arrived
          unread,    \* those that were not read yet
          returned,  \* what read() returned, in order
          heldBack,  \* the transport does not hand over messages
          ended,     \* the connection is lost
          blocked,   \* who waits in read()
          due        \* who was woken and did not come to his message yet

contractVars == <<arrived, unread, returned, heldBack, ended, blocked, due>>

Init == /\ arrived = 0 /\ unread = <<>> /\ returned = <<>>
        /\ heldBack = FALSE /\ ended = FALSE
        /\ blocked = {} /\ due = {}

\* The message may be one too many.
Arrive == /\ ~ended /\ ~heldBack
          /\ arrived' = arrived + 1
          /\ unread' = Append(unread, arrived + 1)
          /\ heldBack' \in BOOLEAN
          /\ blocked' = {} /\ due' = due \cup blocked
          /\ UNCHANGED <<returned, ended>>

\* The last message to be read lets the next one arrive.
Take == /\ unread # <<>>
        /\ returned' = Append(returned, Head(unread))
        /\ unread' = Tail(unread)
        /\ heldBack' \in {heldBack, FALSE}
        /\ heldBack' => unread' # <<>>
        /\ UNCHANGED <<arrived, ended, blocked>>

ReadAtOnce(r) == ~ended /\ r \notin blocked \cup due /\ Take /\ UNCHANGED due

ReadWoken(r) == r \in due /\ Take /\ due' = due \ {r}

\* Woken, but the connection was lost in the meantime.
ReadInVain(r) == /\ ended /\ r \in due
                 /\ unread # <<>> /\ unread' = Tail(unread)
                 /\ due' = due \ {r}
                 /\ UNCHANGED <<arrived, returned, heldBack, ended, blocked>>

Block(r) == /\ ~ended /\ unread = <<>> /\ r \notin due
            /\ blocked' = blocked \cup {r}
            /\ UNCHANGED <<arrived, unread, returned, heldBack, ended, due>>

\* A timeout, for instance.
GiveUp(r) == /\ r \in blocked \cup due
             /\ blocked' = blocked \ {r} /\ due' = due \ {r}
             /\ UNCHANGED <<arrived, unread, returned, heldBack, ended>>

\* There is more room.
Relieve == /\ heldBack /\ heldBack' = FALSE
           /\ UNCHANGED <<arrived, unread, returned, ended, blocked, due>>

End == /\ ~ended /\ ended' = TRUE
       /\ heldBack' = FALSE
       /\ blocked' = {}
       /\ UNCHANGED <<arrived, unread, returned, due>>

Next == \/ Arrive \/ Relieve \/ End
        \/ \E r \in Readers : \/ ReadAtOnce(r) \/ ReadWoken(r) \/ ReadInVain(r)
                              \/ Block(r) \/ GiveUp(r)

Spec == Init /\ [][Next]_contractVars

=============================================================================
