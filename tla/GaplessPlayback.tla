--------------------------- MODULE GaplessPlayback ---------------------------
(***************************************************************************)
(* From input frames to output frames: ConvolveFileHandler and its         *)
(* SoundProcessor, and gapless playback, in which a file whose last frames *)
(* do not fill the filter's input passes its processor on to the next file *)
(* of the directory, which fills it up with its first frames.              *)
(*                                                                         *)
(* A thread converts a file by calling AddMoreSoundData under the mutex of *)
(* the file's conversion buffer; the file it passes the processor to is    *)
(* not protected by that mutex. A frame is a pair of file and position. The *)
(* filter itself is left out: the frame that the processor computes at some *)
(* place of its buffer stands for the frame it was given there.            *)
(***************************************************************************)
EXTENDS Integers, Sequences, FiniteSets

CONSTANTS
  Files,         \* number of files in the directory, in alphabetic order
  Fragment,      \* fragm: frames the filter takes at a time
  FrameCounts,   \* possible numbers of frames of a file
  Thread,        \* threads that convert: players, pre-buffering
  Processor,     \* processors that may exist at a time
  MaxPerConfig,  \* max_per_config_, of the pool
  None           \* NULL

File == 1 .. Files

ASSUME GaplessAssumption ==
  /\ Files \in Nat
  /\ Fragment \in Nat \ {0}
  /\ FrameCounts \subseteq Nat \ {0}
  /\ MaxPerConfig \in Nat
  /\ None \notin Processor \cup File

VARIABLES
  frames,         \* in_info_.frames: what the file's header says
  readable,       \* how many there really are: one fewer in a truncated file
  handler,        \* handler[f]: what became of the file's handler
  processor,      \* processor_ of the handlers
  sound,          \* sound[p]: the state of processor p
  pool,           \* processors in the pool
  thread          \* thread[t]: where t is in AddMoreSoundData

vars == <<frames, readable, handler, processor, sound, pool, thread>>
input_vars == <<frames, readable>>

Silence == <<0, 0>>
Frame == (File \X Nat) \cup {Silence}

\* Of a handler: the position in the input, input_frames_left_, what was
\* written to the output, and whether the conversion buffer was told that
\* there is no more.
Handler == [exists   : BOOLEAN,
            position : Nat,
            left     : Int,
            output   : Seq(Frame),
            complete : BOOLEAN]

\* Of a processor: the input it has collected, buffer_ up to input_pos_, and
\* output_pos_, which is -1 before the input is processed.
Sound == [input : Seq(Frame), output_pos : -1 .. Fragment]

Local == [pc     : {"idle", "fill", "next", "passover", "assign", "fill_next", "write"},
          file   : File \cup {None},
          count  : Nat,
          passed : BOOLEAN]

TypeOK ==
  /\ frames \in [File -> FrameCounts]
  /\ readable \in [File -> Nat]
  /\ handler \in [File -> Handler]
  /\ processor \in [File -> Processor \cup {None}]
  /\ sound \in [Processor -> Sound]
  /\ pool \subseteq Processor
  /\ thread \in [Thread -> Local]

NoHandler == [exists |-> FALSE, position |-> 0, left |-> 0, output |-> <<>>,
              complete |-> FALSE]
NewHandler(f) == [exists |-> TRUE, position |-> 0, left |-> frames[f],
                  output |-> <<>>, complete |-> FALSE]
Fresh == [input |-> <<>>, output_pos |-> -1]      \* Reset()
Resting == [pc |-> "idle", file |-> None, count |-> 0, passed |-> FALSE]

Init ==
  /\ frames \in [File -> FrameCounts]
  /\ \E truncated \in SUBSET {f \in File : frames[f] > 1} :
       readable = [f \in File |-> IF f \in truncated THEN frames[f] - 1 ELSE frames[f]]
  /\ handler = [f \in File |-> NoHandler]
  /\ processor = [f \in File |-> None]
  /\ sound = [p \in Processor |-> Fresh]
  /\ pool = {}
  /\ thread = [t \in Thread |-> Resting]

-----------------------------------------------------------------------------
(* SoundProcessor: what an operation makes of the state s of a processor.  *)

InputPos(s) == Len(s.input)
is_input_buffer_complete(s) == InputPos(s) = Fragment
\* Mutant: input that was not processed yet counts as pending.
pending_writes_unprocessed(s) == Fragment - s.output_pos
pending_writes(s) == IF s.output_pos >= 0 THEN Fragment - s.output_pos ELSE 0

\* FillBuffer reads as many frames as fit and the file has.
FillCount(s, f, position) ==
  LET room == Fragment - InputPos(s)
      rest == readable[f] - position
  IN  IF room < rest THEN room ELSE rest
Filled(s, f, position) ==
  [input |-> s.input \o [i \in 1 .. FillCount(s, f, position) |-> <<f, position + i>>],
   output_pos |-> -1]

\* WriteProcessed processes the input unless that was done, after which what
\* was missing is silence; and starts over when everything is written.
\* Mutant: writing always begins at the start of the buffer.
WriteFromStart(s) == 0
WriteFrom(s) == IF s.output_pos < 0 THEN 0 ELSE s.output_pos
Written(s, count) ==
  [i \in 1 .. count |-> IF WriteFrom(s) + i <= InputPos(s)
                        THEN s.input[WriteFrom(s) + i]
                        ELSE Silence]
\* Mutants: the input is never cleared, or too early.
AfterWritingKeepInput(s, count) ==
  [input |-> s.input, output_pos |-> WriteFrom(s) + count]
AfterWritingClearInput(s, count) ==
  [input |-> <<>>, output_pos |-> WriteFrom(s) + count]
AfterWriting(s, count) ==
  [input      |-> IF WriteFrom(s) + count = Fragment THEN <<>> ELSE s.input,
   output_pos |-> WriteFrom(s) + count]

-----------------------------------------------------------------------------
(* ProcessorPool.                                                          *)

Used == {processor[f] : f \in File} \ {None}

\* GetOrCreate: one from the pool, where outdated ones are deleted, or a new
\* one if nothing is left there.
\* Mutant: the processor stays in the pool.
CheckOutCopy(p) == p \in pool \cup (Processor \ Used) /\ UNCHANGED pool
CheckOut(p) ==
  \E outdated \in SUBSET pool :
    LET rest == pool \ outdated
    IN  /\ IF rest = {} THEN p \notin Used ELSE p \in rest
        /\ pool' = rest \ {p}

\* Return resets a processor to pool it, or deletes it: because the pool is
\* full, or because the configuration file has changed.
Return(s, p) ==
  IF p = None
  THEN UNCHANGED pool /\ sound' = s
  ELSE \/ /\ Cardinality(pool) < MaxPerConfig
          /\ pool' = pool \cup {p}
          /\ sound' = [s EXCEPT ![p] = Fresh]
       \/ UNCHANGED pool /\ sound' = [s EXCEPT ![p] = Fresh]

-----------------------------------------------------------------------------
(* Opening and closing.                                                    *)

Create(f) ==
  /\ ~handler[f].exists
  /\ \E p \in Processor :
       /\ CheckOut(p)
       /\ processor' = [processor EXCEPT ![f] = p]
  /\ handler' = [handler EXCEPT ![f] = NewHandler(f)]
  /\ UNCHANGED <<input_vars, sound>>

Open(f) == Create(f) /\ UNCHANGED thread

\* A handler in use, by a thread that converts it or opened it to pass its
\* processor on, is not destroyed.
InUse(f) ==
  \E t \in Thread :
    \/ thread[t].file = f
    \/ thread[t].file = f - 1 /\ thread[t].pc \in {"passover", "assign", "fill_next", "write"}

\* The destructor closes the file if that was not done yet.
Destroy(f) ==
  /\ handler[f].exists
  /\ ~InUse(f)
  /\ handler' = [handler EXCEPT ![f] = NoHandler]
  /\ processor' = [processor EXCEPT ![f] = None]
  /\ Return(sound, processor[f])
  /\ UNCHANGED <<input_vars, thread>>

-----------------------------------------------------------------------------
(* AddMoreSoundData.                                                       *)

At(t, pc) == thread[t].pc = pc
Goto(t, pc) == thread' = [thread EXCEPT ![t].pc = pc]
Convert(t) == thread[t].file
Rest(t) == thread' = [thread EXCEPT ![t] = Resting]

\* FillUntil: the buffer is locked and not complete.
MayConvert(t, f) ==
  /\ At(t, "idle")
  /\ handler[f].exists
  /\ ~handler[f].complete
  /\ \A u \in Thread : thread[u].file # f

NothingLeft(t, f) ==
  /\ MayConvert(t, f)
  /\ handler[f].left = 0
  /\ handler' = [handler EXCEPT ![f].complete = TRUE]
  /\ UNCHANGED <<input_vars, processor, sound, pool, thread>>

Pending(f) == pending_writes(sound[processor[f]])

WritePending(t, f) ==
  /\ MayConvert(t, f)
  /\ handler[f].left # 0
  /\ Pending(f) > 0
  /\ handler' = [handler EXCEPT
                   ![f].output = @ \o Written(sound[processor[f]], Pending(f))]
  /\ sound' = [sound EXCEPT ![processor[f]] = AfterWriting(@, Pending(f))]
  /\ UNCHANGED <<input_vars, processor, pool, thread>>

BeginFill(t, f) ==
  /\ MayConvert(t, f)
  /\ handler[f].left # 0
  /\ Pending(f) = 0
  /\ thread' = [thread EXCEPT ![t] = [Resting EXCEPT !.pc = "fill", !.file = f]]
  /\ UNCHANGED <<input_vars, handler, processor, sound, pool>>

\* assert(samples_needed)
HasRoom(t) == ~is_input_buffer_complete(sound[processor[Convert(t)]])

Fill(t) ==
  LET f     == Convert(t)
      p     == processor[f]
      count == FillCount(sound[p], f, handler[f].position)
      left  == handler[f].left - count
      full  == is_input_buffer_complete(Filled(sound[p], f, handler[f].position))
  IN
  /\ At(t, "fill")
  /\ HasRoom(t)
  /\ count > 0
  /\ sound' = [sound EXCEPT ![p] = Filled(@, f, handler[f].position)]
  /\ handler' = [handler EXCEPT ![f].position = @ + count, ![f].left = left]
  /\ thread' = [thread EXCEPT ![t].count = count,
                              ![t].pc = IF left = 0 /\ ~full THEN "next" ELSE "write"]
  /\ UNCHANGED <<input_vars, processor, pool>>

\* "Premature EOF in input file."
PrematureEOF(t) ==
  LET f == Convert(t) IN
  /\ At(t, "fill")
  /\ HasRoom(t)
  /\ FillCount(sound[processor[f]], f, handler[f].position) = 0
  /\ handler' = [handler EXCEPT ![f].left = 0, ![f].complete = TRUE]
  /\ Return(sound, processor[f])
  /\ processor' = [processor EXCEPT ![f] = None]
  /\ Rest(t)
  /\ UNCHANGED input_vars

\* There is no next file, it cannot be opened, or is not a sound file.
NoNextFile(t) ==
  /\ At(t, "next")
  /\ Goto(t, "write")
  /\ UNCHANGED <<input_vars, handler, processor, sound, pool>>

\* A handler that is there may be idle and not gapless, and then is replaced: it
\* is destroyed while the thread is here, and created again.
NextFile(t) ==
  LET next == Convert(t) + 1 IN
  /\ At(t, "next")
  /\ next \in File
  /\ \/ handler[next].exists /\ UNCHANGED <<input_vars, handler, processor, sound, pool>>
     \/ Create(next)
  /\ Goto(t, "passover")

HasStarted(f) == frames[f] # handler[f].left

\* It has started, or the configuration has changed.
PassoverRefused(t) ==
  /\ At(t, "passover")
  /\ Goto(t, "write")
  /\ UNCHANGED <<input_vars, handler, processor, sound, pool>>

PassoverAccepted(t) ==
  /\ At(t, "passover")
  /\ ~HasStarted(Convert(t) + 1)
  /\ Goto(t, "assign")
  /\ UNCHANGED <<input_vars, handler, processor, sound, pool>>

Assign(t) ==
  LET next == Convert(t) + 1 IN
  /\ At(t, "assign")
  /\ Return(sound, processor[next])
  /\ processor' = [processor EXCEPT ![next] = processor[Convert(t)]]
  /\ Goto(t, "fill_next")
  /\ UNCHANGED <<input_vars, handler>>

FillNext(t) ==
  LET next  == Convert(t) + 1
      p     == processor[next]
      count == FillCount(sound[p], next, handler[next].position)
  IN
  /\ At(t, "fill_next")
  /\ IF is_input_buffer_complete(sound[p])
     THEN UNCHANGED <<handler, sound>>
     ELSE /\ sound' = [sound EXCEPT ![p] = Filled(@, next, handler[next].position)]
          /\ handler' = [handler EXCEPT ![next].position = @ + count,
                                        ![next].left = @ - count]
  /\ thread' = [thread EXCEPT ![t].pc = "write", ![t].passed = TRUE]
  /\ UNCHANGED <<input_vars, processor, pool>>

\* WriteProcessed, and Close if that was the end, which returns the processor
\* unless it was passed on.
Write(t) ==
  LET f    == Convert(t)
      p    == processor[f]
      done == handler[f].left = 0
      after == [sound EXCEPT ![p] = AfterWriting(@, thread[t].count)]
  IN
  /\ At(t, "write")
  /\ handler' = [handler EXCEPT
                   ![f].output = @ \o Written(sound[p], thread[t].count),
                   ![f].complete = done]
  /\ Return(after, IF done /\ ~thread[t].passed THEN p ELSE None)
  /\ processor' = [processor EXCEPT ![f] = IF done THEN None ELSE p]
  /\ Rest(t)
  /\ UNCHANGED input_vars

AddMoreSoundData(t) ==
  \/ \E f \in File : NothingLeft(t, f) \/ WritePending(t, f) \/ BeginFill(t, f)
  \/ Fill(t) \/ PrematureEOF(t)
  \/ NoNextFile(t) \/ NextFile(t)
  \/ PassoverRefused(t) \/ PassoverAccepted(t) \/ Assign(t) \/ FillNext(t)
  \/ Write(t)

Next ==
  \/ \E f \in File : Open(f) \/ Destroy(f)
  \/ \E t \in Thread : AddMoreSoundData(t)

Spec == Init /\ [][Next]_vars

-----------------------------------------------------------------------------
(* Properties.                                                             *)

\* What belongs into the first n places of the output of f.
Own(f, n) == [i \in 1 .. n |-> <<f, i>>]

\* "the result is split between these two files" (README.md:291): through any
\* chain of handovers each file gets its own frames, in order, none twice;
\* what follows them in a file that ends early is silence.
OutputIsOwnInput ==
  \A f \in File :
    LET out == handler[f].output
    IN  \A i \in 1 .. Len(out) :
          \/ out[i] = <<f, i>>
          \/ i > readable[f] /\ out[i] = Silence

\* A file that is as long as its header says is converted to the last frame
\* by the time its buffer is complete, and to no more, if it is not so short
\* that the previous file used it up.
ConvertedToTheEnd ==
  \A f \in File :
    handler[f].complete /\ readable[f] = frames[f] /\ frames[f] >= Fragment
    => handler[f].output = Own(f, frames[f])

\* The same without the exception: "the gap is bridged by including the first
\* samples of the alphabetically next file" (README.md:289).
ShortFilesToo ==
  \A f \in File :
    handler[f].complete /\ readable[f] = frames[f]
    => handler[f].output = Own(f, frames[f])

\* A processor is used by one file, unless it is just being passed on, and not
\* while it is in the pool, where the next open would find it.
HandingOver(f) ==
  \E t \in Thread :
    /\ Convert(t) = f
    /\ At(t, "fill_next") \/ (At(t, "write") /\ thread[t].passed)
OneUserPerProcessor ==
  /\ Used \cap pool = {}
  /\ \A f, g \in File :
       f < g /\ processor[f] = processor[g] /\ processor[f] # None
       => g = f + 1 /\ HandingOver(f)

\* assert(samples_needed) (sound-processor.cc:78) and
\* assert(sample_count <= ...) (sound-processor.cc:90).
ProcessorAssertions ==
  \A t \in Thread :
    /\ At(t, "fill") => HasRoom(t)
    /\ At(t, "write") =>
         thread[t].count <= Fragment - WriteFrom(sound[processor[Convert(t)]])
=============================================================================
