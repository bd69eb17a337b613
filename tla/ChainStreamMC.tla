--------------------------- MODULE ChainStreamMC ---------------------------
(* The RPC proxy with two slots: the stream's connection and one it closed   *)
(* before, on which the proxy may still be at work.                          *)
EXTENDS ChainStream
=============================================================================
