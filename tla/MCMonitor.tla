------------------------------ MODULE MCMonitor ------------------------------
(* Monitor with one reader of events, for TLC.                             *)
EXTENDS Monitor

CONSTANT r1
=============================================================================
