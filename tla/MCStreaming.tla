----------------------------- MODULE MCStreaming -----------------------------
(* A queue of three and a connection of two frames: seven chunks fill both, so  *)
(* that the worker blocks at a chunk and at the end mark.                   *)
EXTENDS Streaming
=============================================================================
