------------------------------ MODULE MCStream ------------------------------
(* Instances of Stream for TLC. *)
EXTENDS Stream

\* Messages of 1, 2 and 1 bytes, ...
SomeBytes == [k \in 0..MaxIn |-> IF k < 2 THEN k ELSE k + 1]

\* ... and of 1, 0 and 1 bytes.
ZeroBytes == [k \in 0..MaxIn |-> IF k < 2 THEN k ELSE k - 1]

MCLimits == {[low |-> 0, high |-> 1], [low |-> 1, high |-> 2]}
=============================================================================
