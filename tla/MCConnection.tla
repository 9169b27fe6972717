---------------------------- MODULE MCConnection ----------------------------
(* An instance of Connection for TLC.                                      *)
EXTENDS Connection

CONSTANTS e1

Step(op) == [op |-> op, endpoint |-> e1]

\* An endpoint both connections want, and a connect after it; a bad
\* argument after a good one.
MCPlans == {<<Step("bind"), Step("connect")>>, <<Step("connect"), Step("invalid")>>}
=============================================================================
