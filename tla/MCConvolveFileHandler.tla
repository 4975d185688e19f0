------------------------ MODULE MCConvolveFileHandler ------------------------
(* An instance of ConvolveFileHandler for TLC: FLAC files, one with its    *)
(* table of seek points last, an Ogg file that ends too early; smaller and *)
(* larger than what comes out; and one whose output cannot be opened.      *)
EXTENDS ConvolveFileHandler, TLC

CONSTANTS player, indexer, s1, s2

TwoStats == {s1, s2}
TwoBytes == {2}
QuietOrLoud == {0, 1}

info(frames) == StreamInfo(1, frames, "another", "another")
flac(frames) == <<info(frames), LastBlock(Metadata("PICTURE"))>>
tableLast(frames) ==
  <<info(frames), Metadata("PADDING"), LastBlock(Metadata("SEEKTABLE"))>>

file(format, blocks, frames, size) ==
  [format |-> format, magic |-> format = "FLAC", blocks |-> blocks,
   frames |-> frames, real |-> frames, size |-> size, workaround |-> FALSE,
   opened |-> TRUE]

Inputs == {file("FLAC", flac(2), 2, 2),
           file("FLAC", flac(3), 3, 4),
           file("FLAC", tableLast(3), 3, 12),
           [file("FLAC", flac(2), 2, 8) EXCEPT !.workaround = TRUE],
           [file("OGG", <<>>, 4, 4) EXCEPT !.real = 2],
           [file("OGG", <<>>, 2, 8) EXCEPT !.opened = FALSE]}

Symmetry == Permutations(Stats)
=============================================================================
