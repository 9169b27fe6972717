------------------------------ MODULE MCPolicy -------------------------------
(* LoopPolicy with the main thread and two others, for TLC.                *)
EXTENDS LoopPolicy, TLC

CONSTANTS t1, t2, t3, l1, l2, w1

\* Threads other than the main one, and loops, are alike.
Symmetry == Permutations({t2, t3}) \cup Permutations({l1, l2})
=============================================================================
