------------------------------- MODULE MCRpc --------------------------------
(* Instances of RpcSystem for TLC. *)
EXTENDS RpcSystem

\* Handlers that return a value or raise an exception of the error table.
Plain == {"value", "error"}

\* What leaves the client without an answer, or without one it can rebuild.
Silent == {"value", "cancelled", "unpackable"}

\* What a client can rebuild, or never sees.
Quiet == {"value", "error", "cancelled", "unpackable"}
Odd == {"value", "odd"}

NoCancels == {}
CallCancels == {"call"}
CloserCancels == {"closer", "server_closer"}
=============================================================================
