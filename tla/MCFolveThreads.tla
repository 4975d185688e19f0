--------------------------- MODULE MCFolveThreads ---------------------------
(* Instances of FolveThreads for TLC. *)
EXTENDS FolveThreads, TLC

CONSTANTS p1, w1, first, second

OnePlayer == {p1}
OneThread == {w1}
OnePlayerOneThread == {p1, w1}

ThreeFiles == 1 .. 3
TwoEach == Key \X {first, second}

StartedOrNot == {NoThread, w1}

\* Players, and the two handlers of every file, are interchangeable.
Symmetry == Permutations(Player) \cup Permutations({first, second})
=============================================================================
