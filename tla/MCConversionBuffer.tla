-------------------------- MODULE MCConversionBuffer --------------------------
(* Instances of ConversionBuffer for TLC. *)
EXTENDS ConversionBuffer

CONSTANTS r1, r2

TwoReaders == {r1, r2}
=============================================================================
