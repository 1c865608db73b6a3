--------------------------- MODULE MCBufferCache ---------------------------
(* Instances of BufferCache for TLC. *)
EXTENDS BufferCache, TLC

CONSTANTS u1, u2
=============================================================================
