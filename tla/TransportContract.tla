------------------------- MODULE TransportContract -------------------------
(***************************************************************************)
(* What a ZmqTransport promises to its protocol, whatever loop runs it     *)
(* (aiozmq/interface.py, class ZmqTransport):                              *)
(*                                                                         *)
(*   - messages reach the socket in the order of the write() calls, each   *)
(*     at most once, and without a gap;                                    *)
(*   - close() flushes: connection_lost() comes only after every accepted  *)
(*     message has gone out, unless an abort() or a fatal error discarded  *)
(*     the backlog;                                                        *)
(*   - connection_lost() is final: afterwards nothing is sent or received. *)
(*                                                                         *)
(* Messages are numbered by the order in which write() accepted them.      *)
(***************************************************************************)
EXTENDS Naturals, Sequences

VARIABLES accepted,   \* how many messages write() has accepted
          sent,       \* what the socket took, in wire order
          delivered,  \* how many messages the protocol was handed
          phase       \* life cycle of the transport

contractVars == <<accepted, sent, delivered, phase>>

Phases == {"open", "draining", "aborted", "lost"}

Init == /\ accepted = 0
        /\ sent = <<>>
        /\ delivered = 0
        /\ phase = "open"

\* write() that has to wait in the buffer.
Submit == /\ phase \in {"open", "draining"}
          /\ accepted' = accepted + 1
          /\ UNCHANGED <<sent, delivered, phase>>

\* write() that goes straight out: only when nothing is waiting before it.
SubmitNow == /\ phase \in {"open", "draining"}
             /\ Len(sent) = accepted
             /\ accepted' = accepted + 1
             /\ sent' = Append(sent, accepted + 1)
             /\ UNCHANGED <<delivered, phase>>

Emit == /\ phase \in {"open", "draining"}
        /\ Len(sent) < accepted
        /\ sent' = Append(sent, Len(sent) + 1)
        /\ UNCHANGED <<accepted, delivered, phase>>

Deliver == /\ phase # "lost"
           /\ delivered' = delivered + 1
           /\ UNCHANGED <<accepted, sent, phase>>

Close == /\ phase = "open"
         /\ phase' = "draining"
         /\ UNCHANGED <<accepted, sent, delivered>>

Abort == /\ phase \in {"open", "draining"}
         /\ phase' = "aborted"
         /\ UNCHANGED <<accepted, sent, delivered>>

Lose == /\ \/ phase = "draining" /\ Len(sent) = accepted
           \/ phase = "aborted"
        /\ phase' = "lost"
        /\ UNCHANGED <<accepted, sent, delivered>>

Next == \/ Submit \/ SubmitNow \/ Emit \/ Deliver
        \/ Close \/ Abort \/ Lose

Spec == Init /\ [][Next]_contractVars

=============================================================================
