----------------------------- MODULE MCSelector -----------------------------
(* An instance of Selector for TLC: two files that take turns on one or two *)
(* descriptors, and a zmq socket.                                           *)
EXTENDS Selector

\* None, no time, a part of a millisecond, a whole one, and one and a bit.
MCTimeouts == {Forever, 0, 3, 10, 11}
=============================================================================
