----------------------------- MODULE MCLoopless -----------------------------
(* Instances of LooplessTransport for TLC. *)
EXTENDS LooplessTransport

\* Messages of 0, 2 and 1 bytes: an empty message counts for no water mark.
MCBytes == [k \in 0..MaxWrites |-> IF k <= 1 THEN 0 ELSE k]

MCLimits == {[low |-> 0, high |-> 1], [low |-> 1, high |-> 2]}
OneLimit == {[low |-> 0, high |-> 1]}

\* Protocol callbacks that call nothing.
NoNesting == {}

\* msg_received() may do anything; resume_writing() goes on writing, as a
\* protocol that keeps the transport open does.
Cooperative == {"msg"} \X Ops \cup {"resume"} \X {"write", "pause", "limits"}

\* Both may do anything: resume_writing() may close the transport, too.
Anything == {"msg", "resume"} \X Ops

NoQuirks == {}
RaiseOnly == {"raise"}
AllQuirks == {"raise", "peek", "preused"}
=============================================================================
