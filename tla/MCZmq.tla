-------------------------------- MODULE MCZmq --------------------------------
(* Instances of ZmqTransport for TLC. *)
EXTENDS ZmqTransport

\* Messages of 2, 0 and 1 bytes: an empty message counts for no water mark.
MCBytes == [k \in 0..MaxWrites |-> IF k = 0 THEN 0 ELSE IF k <= 2 THEN 2 ELSE k]

MCLimits == {[low |-> 0, high |-> 1], [low |-> 1, high |-> 2]}
OneLimit == {[low |-> 0, high |-> 1]}

\* Protocol callbacks that call nothing.
NoNesting == {}

\* msg_received() may do anything; resume_writing() does not close.
Cooperative ==
  {"msg"} \X Ops \cup {"resume"} \X {"write", "pause", "resume", "limits"}

\* Both may do anything.
Anything == {"msg", "resume"} \X Ops
=============================================================================
