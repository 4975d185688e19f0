------------------------- MODULE ConvolveFileHandler -------------------------
(***************************************************************************)
(* What a handler tells its readers and the status page about a file while *)
(* it is converted: Read, Stat and GetHandlerStatus of                     *)
(* convolve-file-handler.cc, and the attributes folve-main.cc gives out    *)
(* when the file is not open. None of them waits for the others; only the  *)
(* conversion is done under the mutex of the ConversionBuffer.             *)
(*                                                                         *)
(* An item of FlacHeader is one byte. How many of the frames it was given  *)
(* libsndfile has written out is open until it is closed. Handing the      *)
(* processor to the next file is GaplessPlayback's.                        *)
(***************************************************************************)
EXTENDS FlacHeader, FiniteSets

CONSTANTS
  Input,              \* the sound files there may be
  OUT,                \* output_channels() of the processor
  FRAGM,              \* frames the processor takes at a time
  Loudness,           \* maxima of the frames of a fragment
  Player,             \* reads a file from the beginning to the end
  Indexer,            \* reads the beginning, and then the end
  Stats,              \* threads that ask for the attributes
  ReadSize,           \* bytes asked for at a time
  kFudgeOverhang,     \* how near the end a skip is not answered with sound
  Margin,             \* what Stat adds to its estimates: 65535
  INT                 \* the modulus of int

Readers == {Player, Indexer}
Nobody == Nothing

ASSUME HandlerAssumption ==
  /\ {FRAGM, INT} \subseteq Nat \ {0} /\ {kFudgeOverhang, Margin, OUT} \subseteq Nat
  /\ Loudness \subseteq Nat /\ ReadSize \subseteq Nat \ {0}
  /\ Player # Indexer /\ Nobody \notin Readers
  /\ \A in \in Input : /\ in.frames \in Nat \ {0} /\ in.real \in 0 .. in.frames
                       /\ in.size \in Nat /\ in.workaround \in BOOLEAN /\ in.opened \in BOOLEAN
                       /\ in.blocks \in Seq(Block)
                       /\ LooksLikeInputIsFlac(in) => IsFlac(in)

VARIABLES
  in,         \* in_info_ and the file behind filedes_
  buf,        \* output_buffer_ and snd_out_
  left,       \* input_frames_left_
  conv,       \* who holds mutex_, where AddMoreSoundData is, how many frames it
              \* has read and libsndfile written, and file_complete_
  reported,   \* file_stat_.st_size
  maximum,    \* of the output: in the processor, in base_stats_, and in truth
  reading,    \* reading[r]: where the Read of r is
  stat,       \* stat[s]: where the Stat of s is
  status      \* where GetHandlerStatus is

vars == <<in, buf, left, conv, reported, maximum, reading, stat, status>>

MaxOf(a, b) == IF a > b THEN a ELSE b
MinOf(a, b) == IF a < b THEN a ELSE b

\* Products of floats, cut off: the factor is 1.25, its default.
Oversized(size) == (size * 5) \div 4
StartEstimating(size) == (size * 2) \div 5

FileSize == Len(buf.out)

Init ==
  /\ in \in Input
  /\ buf = SetOutputSoundfile(in, OUT, in.workaround)
  /\ left = in.frames
  /\ conv = [owner |-> Nobody, step |-> "more", read |-> 0, written |-> 0,
             complete |-> FALSE]
  /\ reported = Oversized(in.size)
  /\ maximum = [processor |-> 0, saved |-> 0, truth |-> 0, late |-> FALSE]
  /\ reading = [r \in Readers |-> [pc |-> "idle", offset |-> 0, size |-> 0,
                                   current |-> 0, got |-> "nothing"]]
  /\ stat = [s \in Stats |-> [pc |-> "idle", current |-> 0, size |-> 0, alone |-> FALSE]]
  /\ status = "idle"

-----------------------------------------------------------------------------
(* ConversionBuffer::FillUntil and AddMoreSoundData, under mutex_.         *)

RequiredMinWritten(r) ==
  reading[r].offset + (IF reading[r].offset >= buf.header_end THEN reading[r].size ELSE 1)
MustConvert(r) == ~conv.complete /\ FileSize < RequiredMinWritten(r)

Reading(r, pc) == reading' = [reading EXCEPT ![r].pc = pc]

FillUntil(r) ==
  /\ reading[r].pc = "FillUntil" /\ conv.owner = Nobody
  /\ IF MustConvert(r)
     THEN conv' = [conv EXCEPT !.owner = r, !.step = "more"] /\ UNCHANGED reading
     ELSE Reading(r, "pread") /\ UNCHANGED conv
  /\ UNCHANGED <<in, buf, left, reported, maximum, stat, status>>

Converting(r, step) == conv.owner = r /\ conv.step = step

\* Without a frame left there is no more; without a frame where some were
\* expected the input ends too early.
Readable == MinOf(FRAGM, in.real - conv.read)
FillBuffer(r) ==
  LET n == Readable
  IN  /\ Converting(r, "more") /\ MustConvert(r) /\ left > 0
      /\ left' = IF n = 0 THEN 0 ELSE left - n
      /\ conv' = [conv EXCEPT !.read = @ + n, !.step = IF n = 0 THEN "save" ELSE "write"]
      /\ UNCHANGED <<in, buf, reported, maximum, reading, stat, status>>

Frames(n, m) == [i \in 1 .. m - n |-> Sound(n + i)]

WriteProcessed(r) ==
  /\ Converting(r, "write")
  /\ \E loud \in Loudness :
       maximum' = [maximum EXCEPT !.processor = MaxOf(@, loud), !.truth = MaxOf(@, loud)]
  /\ \E upto \in conv.written .. conv.read :
       /\ buf' = sf_writef_float(buf, OUT, Frames(conv.written, upto))
       /\ conv' = [conv EXCEPT !.written = upto, !.step = IF left = 0 THEN "save" ELSE "more"]
  /\ UNCHANGED <<in, left, reported, reading, stat, status>>

\* Close(): the maximum is saved, and forgotten by the processor, which goes
\* back to the pool; then libsndfile writes what it has kept back.
\* Mutant: it is forgotten first.
SavedAfterReset(m) == [m EXCEPT !.processor = 0, !.saved = 0]
Saved(m) == [m EXCEPT !.saved = m.processor]

SaveOutputValues(r) ==
  /\ Converting(r, "save")
  /\ maximum' = Saved(maximum)
  /\ conv' = [conv EXCEPT !.step = "reset"]
  /\ UNCHANGED <<in, buf, left, reported, reading, stat, status>>

ResetMaxValues(r) ==
  /\ Converting(r, "reset")
  /\ maximum' = [maximum EXCEPT !.processor = 0]
  /\ conv' = [conv EXCEPT !.step = "close"]
  /\ UNCHANGED <<in, buf, left, reported, reading, stat, status>>

Close(r) ==
  /\ Converting(r, "close")
  /\ buf' = sf_close(buf, OUT, Frames(conv.written, conv.read))
  /\ conv' = [conv EXCEPT !.written = conv.read, !.step = "closed"]
  /\ UNCHANGED <<in, left, reported, maximum, reading, stat, status>>

\* AddMoreSoundData has nothing to add, or there is enough.
Filled(r) ==
  /\ conv.owner = r
  /\ \/ conv.step = "closed" /\ conv' = [conv EXCEPT !.complete = TRUE, !.owner = Nobody]
     \/ conv.step = "more" /\ ~MustConvert(r) /\ conv' = [conv EXCEPT !.owner = Nobody]
  /\ Reading(r, "pread")
  /\ UNCHANGED <<in, buf, left, reported, maximum, stat, status>>

-----------------------------------------------------------------------------
(* Read.                                                                   *)

\* A reader asks for the next bytes, up to the end; the indexer looks for what
\* is at the end as well.
Ended(r) == reading[r].got \in {"end", "error"}
Offsets(r) ==
  IF r = Player THEN {reading[r].offset} ELSE {0, MaxOf(0, reported - 1)}

Read(r) ==
  /\ reading[r].pc = "idle" /\ ~Ended(r)
  /\ \E offset \in Offsets(r), size \in ReadSize :
       reading' = [reading EXCEPT ![r] =
         IF in.opened
         THEN [@ EXCEPT !.pc = "horizon", !.offset = offset, !.size = size,
                        !.current = FileSize]
         ELSE [@ EXCEPT !.got = "error"]]
  /\ UNCHANGED <<in, buf, left, conv, reported, maximum, stat, status>>

\* What int makes of an off_t.
AsInt(n) == ((n + INT \div 2) % INT) - INT \div 2

\* Mutant: at the end of what there is so far counts as beyond it.
SkipIncluding(current, offset, horizon) ==
  current <= offset /\ AsInt(horizon + kFudgeOverhang) >= reported
IsSkip(current, offset, horizon) ==
  current < offset /\ AsInt(horizon + kFudgeOverhang) >= reported

Pretend(r) ==
  LET now == reading[r]
      pretended_bytes == MinOf(now.size, reported - now.offset)
  IN  /\ now.pc = "horizon"
      /\ IF IsSkip(now.current, now.offset, now.offset + now.size)
         THEN reading' = [reading EXCEPT ![r].pc = "idle",
                                         ![r].got = IF pretended_bytes > 0
                                                    THEN "zeros" ELSE "end"]
         ELSE Reading(r, "FillUntil")
      /\ UNCHANGED <<in, buf, left, conv, reported, maximum, stat, status>>

Pread(r) ==
  LET now == reading[r]
      n   == MinOf(now.size, FileSize - now.offset)
  IN  /\ now.pc = "pread"
      /\ reading' = [reading EXCEPT ![r] =
            [now EXCEPT !.pc = "idle", !.offset = MaxOf(@, @ + n),
                        !.got = IF n > 0 THEN "sound" ELSE "end"]]
      /\ UNCHANGED <<in, buf, left, conv, reported, maximum, stat, status>>

-----------------------------------------------------------------------------
(* Stat: the size so far, the frames so far, and the estimate from both.   *)

Stating(s) == stat[s].pc # "idle"
Closed == conv.complete

\* A Stat is alone if no other overlaps it, and the file was complete before.
StatReadsSize(s) ==
  /\ ~Stating(s)
  /\ stat' = [u \in Stats |->
       IF u = s
       THEN [pc |-> IF FileSize > StartEstimating(in.size) THEN "frames" ELSE "return",
             current |-> FileSize, size |-> 0,
             alone |-> Closed /\ \A v \in Stats : ~Stating(v)]
       ELSE [stat[u] EXCEPT !.alone = FALSE]]
  /\ UNCHANGED <<in, buf, left, conv, reported, maximum, reading, status>>

\* Mutant: the size follows every estimate.
AnyEstimate(estimate) == TRUE
IsForward(estimate) == estimate > reported
Estimate(current, done) == (in.frames * current) \div done + Margin

StatReadsFrames(s) ==
  LET done == in.frames - left
      estimate == Estimate(stat[s].current, done)
  IN  /\ stat[s].pc = "frames"
      /\ stat' = [stat EXCEPT ![s].size = IF done > 0 THEN estimate ELSE 0,
                              ![s].pc = IF done > 0 /\ IsForward(estimate)
                                        THEN "store" ELSE "return"]
      /\ UNCHANGED <<in, buf, left, conv, reported, maximum, reading, status>>

StatStores(s) ==
  /\ stat[s].pc = "store"
  /\ reported' = stat[s].size
  /\ stat' = [stat EXCEPT ![s].pc = "return"]
  /\ UNCHANGED <<in, buf, left, conv, maximum, reading, status>>

StatReturns(s) ==
  /\ stat[s].pc = "return"
  /\ stat' = [stat EXCEPT ![s].pc = "idle", ![s].current = 0, ![s].size = 0,
                          ![s].alone = FALSE]
  /\ UNCHANGED <<in, buf, left, conv, reported, maximum, reading, status>>

-----------------------------------------------------------------------------
(* GetHandlerStatus looks for the processor, and then into it.             *)

HasProcessor == in.opened /\ ~(conv.step = "closed")

StatusLooks ==
  /\ status = "idle"
  /\ HasProcessor
  /\ status' = "max_output_value"
  /\ UNCHANGED <<in, buf, left, conv, reported, maximum, reading, stat>>

StatusStores ==
  /\ status = "max_output_value"
  /\ maximum' = [maximum EXCEPT !.saved = maximum.processor,
                                !.late = @ \/ conv.step \in {"close", "closed"}]
  /\ status' = "idle"
  /\ UNCHANGED <<in, buf, left, conv, reported, reading, stat>>

-----------------------------------------------------------------------------
Converts(r) ==
  \/ FillBuffer(r) \/ WriteProcessed(r) \/ SaveOutputValues(r)
  \/ ResetMaxValues(r) \/ Close(r) \/ Filled(r)

Next ==
  \/ \E r \in Readers : \/ Read(r) \/ Pretend(r) \/ FillUntil(r) \/ Pread(r)
                        \/ Converts(r)
  \/ \E s \in Stats : \/ StatReadsSize(s) \/ StatReadsFrames(s)
                      \/ StatStores(s) \/ StatReturns(s)
  \/ StatusLooks \/ StatusStores

Spec == Init /\ [][Next]_vars

-----------------------------------------------------------------------------
(* Properties.                                                             *)

\* What is between byte 0 and header_end_ is a header of FLAC for the sound that
\* follows (convolve-file-handler.cc:285-290), with the number of samples of
\* the input (307-312) - or nothing, where old versions of libsndfile write the
\* header with the first sound.
HeaderWellFormed ==
  LET header == SubSeq(buf.out, 1, buf.header_end)
  IN  IF in.workaround
      THEN header = <<>>
      ELSE IsHeader(header, OUT) /\ header[1].samples = in.frames

\* What libsndfile writes becomes one file: a header, then every frame once and
\* in order, and nothing of what it writes again on closing
\* (conversion-buffer.cc:71-82, convolve-file-handler.cc:276-280).
OneHeaderThenSound ==
  LET n == FileSize - conv.written
  IN  /\ n >= 0 /\ SubSeq(buf.out, n + 1, FileSize) = Frames(0, conv.written)
      /\ n > 0 => IsHeader(SubSeq(buf.out, 1, n), OUT)
      /\ conv.complete => conv.written = in.real

\* Answering a skip to the end with silence (convolve-file-handler.cc:106-126)
\* is for skips: "But of course only if this is really a skip, not a regular
\* approaching end-of-file." Who reads from the beginning gets everything that
\* is converted, and sees the end only there, whatever others read and ask.
SequentialReaderGetsSound ==
  /\ reading[Player].got # "zeros"
  /\ reading[Player].got = "end" => conv.complete /\ reading[Player].offset = FileSize

\* README.md: "it will only report larger sizes than shown initially (so size
\* will always be reported at least 25% larger)", and a size read for a file
\* that is complete is enough for it, unless another estimate came between.
SizeIsEnough ==
  /\ reported >= Oversized(in.size)
  /\ \A s \in Stats :
       stat[s].pc = "return" /\ stat[s].alone => reported >= FileSize

\* The maximum saved for a closed file is that of its sound, unless the status
\* page asked for it while the file was being closed.
MaximumRecorded ==
  conv.complete /\ ~maximum.late => maximum.saved = maximum.truth
=============================================================================
