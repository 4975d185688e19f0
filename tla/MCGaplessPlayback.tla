-------------------------- MODULE MCGaplessPlayback --------------------------
(* Instances of GaplessPlayback for TLC. *)
EXTENDS GaplessPlayback, TLC

CONSTANTS t1, p1, p2, p3, p4

OneThread == {t1}
ThreeProcessors == {p1, p2, p3}
FourProcessors == {p1, p2, p3, p4}
UpTo4 == 1 .. 4
Symmetry == Permutations(Processor) \cup Permutations(Thread)
=============================================================================
