------------------------------ MODULE FlacHeader ------------------------------
(***************************************************************************)
(* The beginning of a converted file: what ConvolveFileHandler's           *)
(* constructor, through SetOutputSoundfile, makes of the header of the     *)
(* input, convolve-file-handler.cc, in a ConversionBuffer,                 *)
(* conversion-buffer.cc. All of it happens before anyone can read.         *)
(*                                                                         *)
(* A file is a sequence of items: the blocks of metadata, and frames of    *)
(* sound. A buffer is what has been written to the temporary file, whether *)
(* libsndfile's own writes reach it, and whether libsndfile has written    *)
(* its header yet. Output is FLAC, which is what FLAC, Ogg and WAV become. *)
(***************************************************************************)
EXTENDS Integers, Sequences

CONSTANTS Nothing  \* a field that says nothing

\* A STREAMINFO block names the channels, the number of samples, who framed the
\* sound, and the checksum of it.
StreamInfo(channels, samples, framed, md5) ==
  [type |-> "STREAMINFO", last |-> FALSE, channels |-> channels,
   samples |-> samples, framed |-> framed, md5 |-> md5]
Metadata(type) ==
  [type |-> type, last |-> FALSE, channels |-> Nothing, samples |-> Nothing,
   framed |-> Nothing, md5 |-> Nothing]
LastBlock(b) == [b EXCEPT !.last = TRUE]
Sound(n) == [type |-> "SOUND", frame |-> n]

OrNothing(S) == S \cup {Nothing}
BlockType == {"STREAMINFO", "PADDING", "APPLICATION", "SEEKTABLE", "VORBIS_COMMENT",
              "CUESHEET", "PICTURE", "RESERVED"}
Block == [type : BlockType, last : BOOLEAN, channels : OrNothing(Nat),
          samples : OrNothing(Nat), framed : OrNothing(STRING), md5 : OrNothing(STRING)]

-----------------------------------------------------------------------------
(* The buffer.                                                             *)

NewBuffer == [out |-> <<>>, writes |-> TRUE, emitted |-> FALSE, header_end |-> 0]

Appended(buf, items) == [buf EXCEPT !.out = @ \o items]

SndAppend(buf, items) == IF buf.writes THEN Appended(buf, items) ELSE buf

set_sndfile_writes_enabled(buf, b) == [buf EXCEPT !.writes = b]

\* The header goes to wherever the bytes 4..41 are. What is not there yet is
\* overwritten later.
WriteCharAt(buf, b) ==
  IF buf.out = <<>> THEN buf ELSE [buf EXCEPT !.out[1] = b]

\* A seek, except to the beginning, is for changing the header, which is ours.
\* Mutant: it is not noticed.
SeekIgnored(buf, offset) == buf
DummySeek(buf, offset) ==
  IF offset > 0 THEN set_sndfile_writes_enabled(buf, FALSE) ELSE buf

HeaderFinished(buf) == [buf EXCEPT !.header_end = Len(buf.out)]

-----------------------------------------------------------------------------
(* libsndfile, as far as it writes: the header once, when told to or before *)
(* the first sound; the rest of the sound and another header on closing.   *)

SndHeader(channels) ==
  <<StreamInfo(channels, 0, "sndfile", Nothing), LastBlock(Metadata("VORBIS_COMMENT"))>>

EmitHeader(buf, channels) ==
  IF buf.emitted THEN buf
  ELSE [SndAppend(buf, SndHeader(channels)) EXCEPT !.emitted = TRUE]

sf_writef_float(buf, channels, frames) == SndAppend(EmitHeader(buf, channels), frames)

\* Before the second header it seeks to the first block, behind the four bytes of
\* the magic number.
sf_close(buf, channels, frames) ==
  SndAppend(DummySeek(sf_writef_float(buf, channels, frames), 4), SndHeader(channels))

-----------------------------------------------------------------------------
(* ConvolveFileHandler. The input: its format, whether it begins with the  *)
(* magic number of FLAC, its blocks up to the last one, its channels.      *)

LooksLikeInputIsFlac(in) == in.format = "FLAC" /\ in.magic

\* What libsndfile opens as FLAC has its metadata in order.
IsFlac(in) ==
  /\ in.blocks # <<>>
  /\ in.blocks[1].type = "STREAMINFO" /\ in.blocks[1].samples = in.frames
  /\ \A i \in DOMAIN in.blocks : in.blocks[i].last <=> i = Len(in.blocks)

\* Blocks are copied, STREAMINFO without its checksum, and the table of seek
\* points left out. If that was the last block, an empty one takes its place.
\* Mutant: it does not.
Redacted(b) == [b EXCEPT !.md5 = Nothing]
Kept(in) ==
  LET kept[n \in 0 .. Len(in.blocks)] ==
        IF n = 0 THEN <<>>
        ELSE IF in.blocks[n].type = "SEEKTABLE" THEN kept[n - 1]
        ELSE Append(kept[n - 1], in.blocks[n])
  IN  kept[Len(in.blocks)]
Unfinished(in) == Kept(in)
Finished(in) ==
  IF in.blocks[Len(in.blocks)].type = "SEEKTABLE"
  THEN Kept(in) \o <<LastBlock(Metadata("PADDING"))>>
  ELSE Kept(in)
CopyFlacHeader(in) ==
  LET blocks == Finished(in)
  IN  [i \in DOMAIN blocks |-> Redacted(blocks[i])]

\* The first block is told who frames the sound now, and into how many
\* channels; or how many samples there are, if libsndfile wrote it.
Redact(buf, channels) ==
  WriteCharAt(buf, [buf.out[1] EXCEPT !.framed = "sndfile", !.channels = channels])
FillIn(buf, samples) ==
  IF buf.out = <<>> THEN buf ELSE WriteCharAt(buf, [buf.out[1] EXCEPT !.samples = samples])

\* With the workaround for old versions of libsndfile nothing is copied, and
\* libsndfile is not told to write its header either.
SetOutputSoundfile(in, channels, workaround) ==
  IF LooksLikeInputIsFlac(in) /\ ~workaround
  THEN LET copied  == Appended(set_sndfile_writes_enabled(NewBuffer, FALSE), CopyFlacHeader(in))
           flushed == EmitHeader(copied, channels)
       IN  HeaderFinished(set_sndfile_writes_enabled(Redact(flushed, channels), TRUE))
  ELSE LET flushed == IF workaround THEN NewBuffer ELSE EmitHeader(NewBuffer, channels)
       IN  HeaderFinished(FillIn(flushed, in.frames))

-----------------------------------------------------------------------------
(* What a header is worth: http://flac.sourceforge.net/format.html, which  *)
(* the source refers to.                                                   *)

IsHeader(blocks, channels) ==
  /\ blocks # <<>>
  /\ blocks[1].type = "STREAMINFO"
  /\ blocks[1].channels = channels
  /\ blocks[1].framed = "sndfile" /\ blocks[1].md5 = Nothing
  /\ \A i \in DOMAIN blocks :
       /\ blocks[i].type \notin {"SOUND", "SEEKTABLE"}
       /\ blocks[i].last <=> i = Len(blocks)
=============================================================================
