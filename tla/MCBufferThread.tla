--------------------------- MODULE MCBufferThread ---------------------------
(* Instances of BufferThread for TLC. *)
EXTENDS BufferThread

CONSTANTS b1, b2, r1, r2

TwoBuffers == {b1, b2}
TwoRequesters == {r1, r2}
=============================================================================
