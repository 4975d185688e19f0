----------------------- MODULE GaplessPlayback_proofs -----------------------
(***************************************************************************)
(* Proofs that every file gets its own frames, once and in order, however  *)
(* often its processor is handed on, and that no two files use a processor *)
(* at a time, for any number of files, of any length, processors, threads  *)
(* and sizes of the filter, provided that nobody converts a file while it  *)
(* is being handed a processor.                                            *)
(***************************************************************************)
EXTENDS GaplessPlayback, SequenceTheorems, TLAPS

Passed(t) == At(t, "fill_next") \/ (At(t, "write") /\ thread[t].passed)
HandsOver(t) == At(t, "assign") \/ Passed(t)

\* Nobody converts a file while another thread hands it the processor of the
\* file before. The code does not prevent it: the mutex of the receiver is not
\* taken (convolve-file-handler.cc:344). So this is what the theorems assume;
\* it holds if one thread converts (OneThreadIsUndisturbed).
Undisturbed ==
  \A t, u \in Thread :
    HandsOver(t) /\ Convert(t) \in File => Convert(u) # Convert(t) + 1

\* The mutex of the conversion buffer.
Locked == \A t, u \in Thread : Convert(t) = Convert(u) /\ Convert(t) \in File => t = u

FilesOK ==
  \A f \in File :
    frames[f] >= 1 /\ readable[f] >= 1 /\ readable[f] \in {frames[f], frames[f] - 1}

Out(f) == Len(handler[f].output)
Input(f) == sound[processor[f]].input
OutputPos(f) == sound[processor[f]].output_pos
Position(f) == handler[f].position

\* Behind its first n frames, input holds those of f that follow the first o.
HoldsFrom(input, n, f, o) ==
  \A j \in 1 .. Len(input) : j > n => input[j] = <<f, o + j - n>>

\* The input holds as many frames as fit or f has.
AsFullAsCanBe(f) == Len(Input(f)) = Fragment \/ Position(f) = readable[f]

\* Between two calls, either all that was read is written, and more if the file
\* ended early,
NothingPending(f) ==
  /\ Input(f) = <<>>
  /\ OutputPos(f) \in {-1, Fragment}
  /\ \/ Out(f) = Position(f)
     \/ Out(f) > Position(f) /\ Position(f) = readable[f]

\* or what was read and not written is behind output_pos_.
Half(f) ==
  /\ OutputPos(f) \in 0 .. Len(Input(f))
  /\ OutputPos(f) < Fragment /\ Len(Input(f)) <= Fragment
  /\ Position(f) = Out(f) + Len(Input(f)) - OutputPos(f)
  /\ HoldsFrom(Input(f), OutputPos(f), f, Out(f))
  /\ AsFullAsCanBe(f)

Live(f) == handler[f].exists /\ ~handler[f].complete
Busy(f) == \E t \in Thread : Convert(t) = f
Receiving(f) == \E t \in Thread : Convert(t) \in File /\ f = Convert(t) + 1 /\ Passed(t)

HandlerOK(f) ==
  /\ ~handler[f].exists => handler[f] = NoHandler /\ processor[f] = None
  /\ handler[f].complete => handler[f].left = 0
  /\ Live(f) => /\ processor[f] # None
                /\ handler[f].left = frames[f] - Position(f)
                /\ Position(f) <= readable[f]
  /\ Live(f) /\ handler[f].left = 0 /\ ~Busy(f) => frames[f] < Fragment
  /\ Live(f) /\ ~Busy(f) /\ ~Receiving(f) => NothingPending(f) \/ Half(f)

\* What was written is the file's, and all there is of a complete file.
OutputOK(f) ==
  /\ \A i \in 1 .. Out(f) :
       \/ handler[f].output[i] = <<f, i>>
       \/ i > readable[f] /\ handler[f].output[i] = Silence
  /\ handler[f].complete /\ readable[f] = frames[f] /\ frames[f] >= Fragment
       => Out(f) = frames[f]

\* A thread that has filled the input of f has count frames to write, all there
\* are before those of the next file.
Collected(t, f) ==
  /\ thread[t].count \in 1 .. Fragment
  /\ OutputPos(f) = -1
  /\ Position(f) = Out(f) + thread[t].count
  /\ thread[t].count <= Len(Input(f)) /\ Len(Input(f)) <= Fragment
  /\ \A j \in 1 .. thread[t].count : Input(f)[j] = <<f, Out(f) + j>>
  /\ ~thread[t].passed => Len(Input(f)) = thread[t].count
  /\ thread[t].count = Fragment \/ Position(f) = readable[f]
  /\ ~At(t, "write") \/ thread[t].passed => handler[f].left = 0 /\ thread[t].count < Fragment

NextObtained(t) == At(t, "passover") \/ At(t, "assign") \/ Passed(t)

\* The next file, g, while and after it gets the processor.
Untouched(g) == ~handler[g].complete /\ Position(g) = 0 /\ Out(g) = 0
FilledUp(t, g) ==
  /\ Out(g) = 0
  /\ Position(g) = Len(Input(g)) - thread[t].count
  /\ HoldsFrom(Input(g), thread[t].count, g, 0)
  /\ AsFullAsCanBe(g)

ConvertOK(t, f) ==
  /\ f \in File /\ Live(f)
  /\ thread[t].passed => At(t, "write")
  /\ At(t, "fill") => handler[f].left # 0 /\ NothingPending(f)
  /\ ~At(t, "fill") => Collected(t, f)
  /\ NextObtained(t) => f + 1 \in File /\ handler[f + 1].exists
  /\ At(t, "assign") \/ At(t, "fill_next") => Untouched(f + 1)
  /\ Passed(t) => processor[f + 1] = processor[f]
  /\ At(t, "write") /\ thread[t].passed => FilledUp(t, f + 1)

ThreadOK(t) ==
  IF At(t, "idle") THEN thread[t] = Resting ELSE ConvertOK(t, Convert(t))

UnusedIsFresh == \A p \in Processor \ Used : sound[p] = Fresh

GInv ==
  /\ Locked
  /\ TypeOK /\ FilesOK
  /\ OneUserPerProcessor /\ UnusedIsFresh
  /\ \A f \in File : HandlerOK(f) /\ OutputOK(f)
  /\ \A t \in Thread : ThreadOK(t)

-----------------------------------------------------------------------------
(* What the operations of SoundProcessor make of input and output.         *)

LEMMA Appended ==
  ASSUME NEW out \in Seq(Frame), NEW more \in Seq(Frame)
  PROVE  /\ out \o more \in Seq(Frame) /\ Len(out \o more) = Len(out) + Len(more)
         /\ \A i \in 1 .. Len(out) : (out \o more)[i] = out[i]
         /\ \A i \in 1 .. Len(more) : (out \o more)[Len(out) + i] = more[i]
OBVIOUS

LEMMA FilledBehind ==
  ASSUME NEW s \in Sound, NEW f \in File, NEW position \in Nat, readable[f] \in Nat,
         position <= readable[f], Len(s.input) <= Fragment
  PROVE  LET count == FillCount(s, f, position)
             input == Filled(s, f, position).input
         IN  /\ count \in Nat /\ count <= Fragment - Len(s.input)
             /\ position + count <= readable[f]
             /\ Filled(s, f, position) \in Sound
             /\ Filled(s, f, position).output_pos = -1
             /\ Len(input) = Len(s.input) + count
             /\ \A j \in 1 .. Len(s.input) : input[j] = s.input[j]
             /\ \A j \in 1 .. count : input[Len(s.input) + j] = <<f, position + j>>
             /\ Len(input) = Fragment \/ position + count = readable[f]
<1> DEFINE count == FillCount(s, f, position)
           more == [i \in 1 .. count |-> <<f, position + i>>]
<1>1. s.input \in Seq(Frame) /\ Len(s.input) \in Nat
  BY DEF Sound
<1>2. /\ count \in Nat /\ count <= Fragment - Len(s.input)
      /\ position + count <= readable[f]
      /\ count = Fragment - Len(s.input) \/ position + count = readable[f]
  BY <1>1, GaplessAssumption DEF FillCount, InputPos
<1> HIDE DEF count
<1>3. more \in Seq(Frame) /\ Len(more) = count /\ \A j \in 1 .. count : more[j] = <<f, position + j>>
  BY <1>2 DEF Frame
<1>4. Filled(s, f, position) = [input |-> s.input \o more, output_pos |-> -1]
  BY DEF Filled, count
<1> HIDE DEF more
<1>5. /\ s.input \o more \in Seq(Frame) /\ Len(s.input \o more) = Len(s.input) + count
      /\ \A j \in 1 .. Len(s.input) : (s.input \o more)[j] = s.input[j]
      /\ \A j \in 1 .. count : (s.input \o more)[Len(s.input) + j] = more[j]
  BY <1>1, <1>2, <1>3, Appended
<1>6. Filled(s, f, position) \in Sound
  BY <1>4, <1>5, GaplessAssumption DEF Sound
<1>7. count = FillCount(s, f, position)
  BY DEF count
<1>8. Filled(s, f, position).input = s.input \o more /\ Filled(s, f, position).output_pos = -1
  BY <1>4
<1>9. Len(s.input) + count = Fragment \/ position + count = readable[f]
  BY <1>1, <1>2, GaplessAssumption
<1> QED BY <1>2, <1>3, <1>5, <1>6, <1>7, <1>8, <1>9

LEMMA WrittenFrames ==
  ASSUME NEW s \in Sound, NEW count \in Nat
  PROVE  /\ Written(s, count) \in Seq(Frame) /\ Len(Written(s, count)) = count
         /\ WriteFrom(s) \in Nat
         /\ \A j \in 1 .. count :
              Written(s, count)[j] = IF WriteFrom(s) + j <= Len(s.input)
                                     THEN s.input[WriteFrom(s) + j] ELSE Silence
<1>1. s.input \in Seq(Frame) /\ Len(s.input) \in Nat
  BY DEF Sound
<1>2. WriteFrom(s) \in Nat
  BY GaplessAssumption DEF WriteFrom, Sound
<1>3. \A j \in 1 .. count :
        (IF WriteFrom(s) + j <= Len(s.input) THEN s.input[WriteFrom(s) + j] ELSE Silence)
          \in Frame
  BY <1>1, <1>2 DEF Frame
<1> QED BY <1>1, <1>2, <1>3 DEF Written, InputPos

LEMMA AfterWritingIsSound ==
  ASSUME NEW s \in Sound, NEW count \in Nat, WriteFrom(s) + count <= Fragment
  PROVE  /\ AfterWriting(s, count) \in Sound
         /\ AfterWriting(s, count).output_pos = WriteFrom(s) + count
         /\ AfterWriting(s, count).input = IF WriteFrom(s) + count = Fragment
                                           THEN <<>> ELSE s.input
<1> DEFINE input == IF WriteFrom(s) + count = Fragment THEN <<>> ELSE s.input
<1>1. s.input \in Seq(Frame) /\ <<>> \in Seq(Frame)
  BY DEF Sound
<1>2. input \in Seq(Frame)
  BY <1>1
<1>3. WriteFrom(s) + count \in -1 .. Fragment
  BY WrittenFrames, GaplessAssumption
<1>4. AfterWriting(s, count) = [input |-> input, output_pos |-> WriteFrom(s) + count]
  BY DEF AfterWriting
<1> HIDE DEF input
<1>5. AfterWriting(s, count) \in Sound
  BY <1>2, <1>3, <1>4 DEF Sound
<1> QED BY <1>4, <1>5 DEF input
-----------------------------------------------------------------------------
(* The invariant, looked at from a thread.                                 *)

LEMMA InitGInv == Init => GInv
<1> SUFFICES ASSUME Init PROVE GInv
  OBVIOUS
<1>1. FrameCounts \subseteq Nat \ {0} /\ None \notin Processor
  BY GaplessAssumption
<1>2. \A f \in File : frames[f] \in Nat /\ frames[f] >= 1
  <2>1. frames \in [File -> FrameCounts]
    BY DEF Init
  <2>2. \A n \in FrameCounts : n \in Nat /\ n >= 1
    BY <1>1
  <2> QED BY <2>1, <2>2
<1>3. PICK truncated \in SUBSET {f \in File : frames[f] > 1} :
        readable = [f \in File |-> IF f \in truncated THEN frames[f] - 1 ELSE frames[f]]
  BY DEF Init
<1>4. \A f \in File :
        /\ readable[f] = frames[f] \/ (frames[f] > 1 /\ readable[f] = frames[f] - 1)
        /\ readable[f] \in Nat
  BY <1>2, <1>3
<1>5. TypeOK
  <2>1. readable \in [File -> Nat]
    BY <1>3, <1>4
  <2>2. NoHandler \in Handler /\ Resting \in Local /\ Fresh \in Sound
    BY GaplessAssumption DEF NoHandler, Handler, Resting, Local, Fresh, Sound
  <2> QED BY <2>1, <2>2 DEF Init, TypeOK
<1>6. FilesOK
  BY <1>2, <1>4 DEF FilesOK
<1>7. Used = {}
  BY DEF Used, Init
<1>8. OneUserPerProcessor /\ UnusedIsFresh
  BY <1>7 DEF OneUserPerProcessor, UnusedIsFresh, Init
<1>9. ASSUME NEW f \in File PROVE HandlerOK(f) /\ OutputOK(f)
  BY DEF HandlerOK, OutputOK, Live, Out, NoHandler, Init
<1>10. ASSUME NEW t \in Thread PROVE ThreadOK(t)
  BY DEF ThreadOK, At, Resting, Init
<1>11. Locked
  <2>1. \A t \in Thread : Convert(t) = None
    BY DEF Init, Convert, Resting
  <2> QED BY <2>1, GaplessAssumption DEF Locked
<1> QED BY <1>5, <1>6, <1>8, <1>9, <1>10, <1>11 DEF GInv

LEMMA WhileIdle ==
  ASSUME GInv, NEW t \in Thread, At(t, "idle")
  PROVE  thread[t] = Resting /\ Convert(t) \notin File /\ ~Passed(t) /\ ~NextObtained(t)
<1>1. thread[t] = Resting
  BY DEF GInv, ThreadOK
<1> QED BY <1>1, GaplessAssumption DEF Resting, Convert, Passed, NextObtained, At

LEMMA InCall ==
  ASSUME GInv, NEW t \in Thread, ~At(t, "idle")
  PROVE  LET f == Convert(t) IN
         /\ ConvertOK(t, f)
         /\ f \in File /\ f \in Int /\ Live(f) /\ handler[f] \in Handler
         /\ processor[f] \in Processor /\ sound[processor[f]] \in Sound
         /\ handler[f].left = frames[f] - Position(f)
         /\ Position(f) <= readable[f]
         /\ Position(f) \in Nat /\ readable[f] \in Nat /\ frames[f] \in Nat
         /\ thread[t] \in Local
<1> DEFINE f == Convert(t)
<1>1. ConvertOK(t, f) /\ f \in File /\ Live(f)
  BY DEF GInv, ThreadOK, ConvertOK
<1>2. HandlerOK(f)
  BY <1>1 DEF GInv
<1>3. /\ handler[f] \in Handler /\ processor[f] \in Processor \cup {None}
      /\ readable[f] \in Nat /\ frames[f] \in FrameCounts /\ thread[t] \in Local
  BY <1>1 DEF GInv, TypeOK
<1>4. processor[f] \in Processor
  BY <1>1, <1>2, <1>3 DEF HandlerOK
<1>5. sound[processor[f]] \in Sound
  BY <1>4 DEF GInv, TypeOK
<1>6. Position(f) \in Nat
  BY <1>3 DEF Position, Handler
<1>7. f \in Int /\ frames[f] \in Nat
  <2>1. \A g \in File : g \in Int
    BY DEF File
  <2>2. FrameCounts \subseteq Nat
    BY GaplessAssumption
  <2> QED BY <1>1, <1>3, <2>1, <2>2
<1> QED BY <1>1, <1>2, <1>3, <1>4, <1>5, <1>6, <1>7 DEF HandlerOK

\* Two files that have one processor: the thread is handing it over.
LEMMA SharedIsHandedOver ==
  ASSUME GInv, NEW f \in File, NEW g \in File, f # g,
         processor[f] = processor[g], processor[f] # None
  PROVE  \E t \in Thread :
           /\ Passed(t) /\ Convert(t) \in File
           /\ \/ Convert(t) = f /\ g = f + 1
              \/ Convert(t) = g /\ f = g + 1
<1>1. f < g \/ g < f
  BY DEF File
<1>2. ASSUME NEW a \in File, NEW b \in File, a < b, processor[a] = processor[b],
             processor[a] # None
      PROVE  \E t \in Thread : Passed(t) /\ Convert(t) = a /\ b = a + 1
  BY <1>2 DEF GInv, OneUserPerProcessor, HandingOver, Passed
<1> QED BY <1>1, <1>2

\* Only the file that it is handed to has the processor that a thread uses,
LEMMA OnlyUser ==
  ASSUME GInv, Undisturbed, NEW t \in Thread, ~At(t, "idle"),
         NEW g \in File, g # Convert(t), processor[g] = processor[Convert(t)]
  PROVE  Passed(t) /\ g = Convert(t) + 1
<1> PICK f : f = Convert(t)
  OBVIOUS
<1>1. f \in File /\ processor[f] # None
  BY InCall, GaplessAssumption
<1>2. PICK v \in Thread :
        /\ Passed(v) /\ Convert(v) \in File
        /\ \/ Convert(v) = f /\ g = f + 1
           \/ Convert(v) = g /\ f = g + 1
  BY <1>1, SharedIsHandedOver
<1>3. CASE Convert(v) = f /\ g = f + 1
  BY <1>1, <1>2, <1>3 DEF GInv, Locked
<1>4. CASE Convert(v) = g /\ f = g + 1
  BY <1>2, <1>4 DEF Undisturbed, HandsOver
<1> QED BY <1>2, <1>3, <1>4

\* and only the receiver the processor that it is about to lose.
LEMMA OnlyUserOfNext ==
  ASSUME GInv, Undisturbed, NEW t \in Thread, HandsOver(t),
         NEW g \in File, g # Convert(t), g # Convert(t) + 1, processor[g] # None
  PROVE  processor[g] # processor[Convert(t) + 1]
<1> PICK f : f = Convert(t)
  OBVIOUS
<1>1. f \in File /\ f \in Int /\ f + 1 \in File
  BY InCall DEF ConvertOK, NextObtained, HandsOver, Passed, At
<1> SUFFICES ASSUME processor[g] = processor[f + 1] PROVE FALSE
  OBVIOUS
<1>2. PICK v \in Thread :
        /\ Passed(v) /\ Convert(v) \in File
        /\ \/ Convert(v) = g /\ f + 1 = g + 1
           \/ Convert(v) = f + 1 /\ g = f + 1 + 1
  BY <1>1, SharedIsHandedOver
<1> QED BY <1>1, <1>2 DEF Undisturbed, File

-----------------------------------------------------------------------------
(* What a step leaves as it is.                                            *)

LEMMA CheckedOut ==
  ASSUME GInv, NEW p \in Processor, CheckOut(p)
  PROVE  p \notin Used /\ pool' \subseteq pool \ {p} /\ sound[p] = Fresh
<1>1. p \notin Used /\ pool' \subseteq pool \ {p}
  BY DEF CheckOut, GInv, OneUserPerProcessor
<1> QED BY <1>1 DEF GInv, UnusedIsFresh

LEMMA Returned ==
  ASSUME NEW s, NEW p, Return(s, p)
  PROVE  /\ pool' \subseteq pool \cup ({p} \ {None})
         /\ sound' = IF p = None THEN s ELSE [s EXCEPT ![p] = Fresh]
BY DEF Return

\* The files are locked as before.
LEMMA LockKept ==
  ASSUME GInv, \A u \in Thread : thread'[u].file \in {thread[u].file, None}
  PROVE  Locked'
BY GaplessAssumption DEF GInv, Locked, Convert

\* The other threads convert and hand over what they did.
LEMMA OthersGoOn ==
  ASSUME NEW t \in Thread, \A u \in Thread : u # t => thread'[u] = thread[u]
  PROVE  \A f : /\ Busy(f) /\ f # Convert(t) => Busy(f)'
                /\ HandingOver(f) /\ (f # Convert(t) \/ ~Passed(t)) => HandingOver(f)'
                /\ Receiving(f) /\ (f # Convert(t) + 1 \/ ~Passed(t)) => Receiving(f)'
BY DEF Busy, Receiving, HandingOver, Passed, At, Convert

\* The thread goes on with the file it converts.
LEMMA GoesOn ==
  ASSUME NEW t \in Thread, \A u \in Thread : u # t => thread'[u] = thread[u],
         thread'[t].file = thread[t].file, Passed(t) => Passed(t)'
  PROVE  \A f : /\ Busy(f) => Busy(f)'
                /\ Receiving(f) => Receiving(f)'
                /\ HandingOver(f) => HandingOver(f)'
<1>1. ASSUME NEW u \in Thread, u # t
      PROVE  Convert(u)' = Convert(u) /\ (Passed(u) <=> Passed(u)')
  BY <1>1 DEF Convert, Passed, At
<1>2. Convert(t)' = Convert(t)
  BY DEF Convert
<1>3. \A u \in Thread : Convert(u)' = Convert(u) /\ (Passed(u) => Passed(u)')
  BY <1>1, <1>2
<1>4. \A f : HandingOver(f) <=> \E u \in Thread : Convert(u) = f /\ Passed(u)
  BY DEF HandingOver, Passed
<1>5. \A f : HandingOver(f)' <=> \E u \in Thread : Convert(u)' = f /\ Passed(u)'
  BY DEF HandingOver, Passed
<1> QED BY <1>3, <1>4, <1>5 DEF Busy, Receiving

LEMMA FileKept ==
  ASSUME GInv, NEW f \in File, UNCHANGED input_vars,
         handler'[f] = handler[f], processor'[f] = processor[f],
         processor[f] # None => sound'[processor[f]] = sound[processor[f]],
         Busy(f) => Busy(f)', Receiving(f) => Receiving(f)'
  PROVE  HandlerOK(f)' /\ OutputOK(f)'
<1>1. HandlerOK(f) /\ OutputOK(f)
  BY DEF GInv
<1>2. OutputOK(f)'
  BY <1>1 DEF OutputOK, Out, input_vars
<1>3. processor[f] # None /\ (NothingPending(f) \/ Half(f)) =>
        (NothingPending(f) \/ Half(f))'
  BY DEF NothingPending, Half, AsFullAsCanBe, HoldsFrom, Input, OutputPos, Out, Position,
         input_vars
<1>4. HandlerOK(f)'
  BY <1>1, <1>3 DEF HandlerOK, Live, Position, input_vars
<1> QED BY <1>2, <1>4

\* The thread stays where it is, with the file it converts and, while that one
\* gets the processor, with the next.
LEMMA ThreadKept ==
  ASSUME GInv, NEW t \in Thread, UNCHANGED input_vars, thread'[t] = thread[t],
         ~At(t, "idle") =>
           /\ handler'[Convert(t)] = handler[Convert(t)]
           /\ processor'[Convert(t)] = processor[Convert(t)]
           /\ sound'[processor[Convert(t)]] = sound[processor[Convert(t)]],
         NextObtained(t) => handler'[Convert(t) + 1].exists,
         HandsOver(t) =>
           /\ processor'[Convert(t) + 1] = processor[Convert(t) + 1]
           /\ handler'[Convert(t) + 1].position = handler[Convert(t) + 1].position
           /\ handler'[Convert(t) + 1].output = handler[Convert(t) + 1].output
           /\ ~At(t, "write") =>
                handler'[Convert(t) + 1].complete = handler[Convert(t) + 1].complete
  PROVE  ThreadOK(t)'
<1>1. CASE At(t, "idle")
  BY <1>1 DEF GInv, ThreadOK, At
<1>2. CASE ~At(t, "idle")
  <2> PICK f : f = Convert(t)
    OBVIOUS
  <2>1. ConvertOK(t, f)
    BY <1>2, InCall
  <2>2. At(t, "fill") => NothingPending(f)'
    BY <1>2, <2>1 DEF ConvertOK, NothingPending, Input, OutputPos, Out, Position, input_vars
  <2>3. ~At(t, "fill") => Collected(t, f)'
    <3>1. /\ Input(f)' = Input(f) /\ OutputPos(f)' = OutputPos(f) /\ Out(f)' = Out(f)
          /\ Position(f)' = Position(f) /\ handler'[f].left = handler[f].left
          /\ readable'[f] = readable[f]
      BY <1>2 DEF Input, OutputPos, Out, Position, input_vars
    <3> QED BY <2>1, <3>1 DEF ConvertOK, Collected, At
  <2>4. At(t, "assign") \/ At(t, "fill_next") => Untouched(f + 1)'
    BY <2>1 DEF ConvertOK, HandsOver, Passed, Untouched, Out, Position, At
  <2>5. At(t, "write") /\ thread[t].passed => FilledUp(t, f + 1)'
    BY <1>2, <2>1 DEF ConvertOK, HandsOver, Passed, FilledUp, AsFullAsCanBe, HoldsFrom,
                      Input, Out, Position, input_vars
  <2>6. ConvertOK(t, f)'
    BY <1>2, <2>1, <2>2, <2>3, <2>4, <2>5
       DEF ConvertOK, Live, NextObtained, HandsOver, Passed, At
  <2> QED BY <1>2, <2>6 DEF ThreadOK, At, Convert
<1> QED BY <1>1, <1>2

\* A thread changes what it converts and, while it hands over, the next file: the
\* other threads do not notice.
LEMMA OthersKept ==
  ASSUME GInv, Undisturbed, NEW t \in Thread, ~At(t, "idle"), UNCHANGED input_vars,
         \A u \in Thread : u # t => thread'[u] = thread[u],
         \A g \in File :
           /\ handler[g].exists => handler'[g].exists
           /\ handler[g].exists /\ g # Convert(t) /\ (g = Convert(t) + 1 => ~HandsOver(t)) =>
                handler'[g] = handler[g] /\ processor'[g] = processor[g],
         \A q \in Processor :
           q # processor[Convert(t)] /\ (HandsOver(t) => q # processor[Convert(t) + 1]) =>
             sound'[q] = sound[q]
  PROVE  \A u \in Thread : u # t => ThreadOK(u)'
<1> SUFFICES ASSUME NEW u \in Thread, u # t PROVE ThreadOK(u)'
  OBVIOUS
<1>1. CASE At(u, "idle")
  BY <1>1, WhileIdle, ThreadKept DEF HandsOver, At
<1>2. CASE ~At(u, "idle")
  <2> PICK f : f = Convert(t)
    OBVIOUS
  <2> PICK g : g = Convert(u)
    OBVIOUS
  <2>1. f \in File /\ f \in Int /\ g \in File /\ g \in Int /\ Live(g) /\ processor[g] \in Processor
    BY <1>2, InCall
  <2>2. g # f
    BY <2>1 DEF GInv, Locked
  <2>3. HandsOver(t) => g # f + 1
    BY <2>1 DEF Undisturbed
  <2>4. HandsOver(u) => f # g + 1
    BY <2>1 DEF Undisturbed
  <2>5. processor[g] # processor[f]
    BY <2>1, <2>2, <2>3, OnlyUser DEF HandsOver
  <2>6. HandsOver(t) => processor[g] # processor[f + 1]
    BY <2>1, <2>2, <2>3, OnlyUserOfNext, GaplessAssumption
  <2>7. handler'[g] = handler[g] /\ processor'[g] = processor[g]
    BY <2>1, <2>2, <2>3 DEF Live
  <2>8. sound'[processor[g]] = sound[processor[g]]
    BY <2>1, <2>5, <2>6
  <2>9. NextObtained(u) => g + 1 \in File /\ handler[g + 1].exists
    BY <1>2, InCall DEF ConvertOK
  <2>10. HandsOver(u) => handler'[g + 1] = handler[g + 1] /\ processor'[g + 1] = processor[g + 1]
    BY <2>1, <2>2, <2>4, <2>9 DEF HandsOver, NextObtained
  <2> QED BY <1>2, <2>7, <2>8, <2>9, <2>10, ThreadKept
<1> QED BY <1>1, <1>2

\* Who has which processor does not change, nor any processor that nobody has.
LEMMA OwnersKept ==
  ASSUME GInv, UNCHANGED <<processor, pool>>,
         \A p \in Processor \ Used : sound'[p] = sound[p],
         \A f \in File : HandingOver(f) => HandingOver(f)'
  PROVE  OneUserPerProcessor' /\ UnusedIsFresh'
<1>1. Used' = Used
  BY DEF Used
<1> QED BY <1>1 DEF GInv, OneUserPerProcessor, UnusedIsFresh

\* A file gives up the processor that only it has, if any.
LEMMA OwnerGone ==
  ASSUME GInv, NEW f \in File, NEW s, DOMAIN s = Processor,
         processor' = [processor EXCEPT ![f] = None],
         pool' \subseteq pool \cup ({processor[f]} \ {None}),
         sound' = IF processor[f] = None THEN s ELSE [s EXCEPT ![processor[f]] = Fresh],
         \A p \in Processor : p # processor[f] => s[p] = sound[p],
         \A g \in File : g # f /\ processor[f] # None => processor[g] # processor[f],
         \A g \in File : g # f /\ HandingOver(g) => HandingOver(g)'
  PROVE  /\ OneUserPerProcessor' /\ UnusedIsFresh'
         /\ \A p \in Processor : p # processor[f] => sound'[p] = sound[p]
<1>1. processor \in [File -> Processor \cup {None}] /\ pool \subseteq Processor
  BY DEF GInv, TypeOK
<1>2. \A p \in Processor : sound'[p] = IF p = processor[f] /\ p # None THEN Fresh ELSE s[p]
  BY <1>1
<1>3. Used' = Used \ {processor[f]}
  BY <1>1 DEF Used
<1>4. \A p \in Processor : p # processor[f] => sound'[p] = sound[p]
  BY <1>2
<1>5. UnusedIsFresh'
  <2> SUFFICES ASSUME NEW p \in Processor, p \notin Used' PROVE sound'[p] = Fresh
    BY DEF UnusedIsFresh
  <2>1. CASE p = processor[f]
    BY <1>2, <2>1, GaplessAssumption
  <2>2. CASE p # processor[f]
    BY <1>3, <1>4, <2>2 DEF GInv, UnusedIsFresh
  <2> QED BY <2>1, <2>2
<1>6. Used' \cap pool' = {}
  BY <1>2, <1>3 DEF GInv, OneUserPerProcessor
<1>7. ASSUME NEW a \in File, NEW b \in File, a < b, processor'[a] = processor'[b],
             processor'[a] # None
      PROVE  b = a + 1 /\ HandingOver(a)'
  <2>1. a # f /\ b # f /\ processor[a] = processor[b] /\ processor[a] # None
    BY <1>1, <1>7
  <2> QED BY <1>7, <2>1 DEF GInv, OneUserPerProcessor
<1> QED BY <1>2, <1>4, <1>5, <1>6, <1>7 DEF OneUserPerProcessor
-----------------------------------------------------------------------------
(* Opening and closing.                                                    *)

LEMMA CreateKeepsFiles ==
  ASSUME GInv, NEW f \in File, Create(f),
         \A g \in File : /\ Busy(g) => Busy(g)'
                         /\ Receiving(g) => Receiving(g)'
                         /\ HandingOver(g) => HandingOver(g)'
  PROVE  /\ handler' \in [File -> Handler] /\ pool' \subseteq Processor
         /\ processor' \in [File -> Processor \cup {None}]
         /\ UNCHANGED <<input_vars, sound>>
         /\ handler'[f].exists
         /\ \A g \in File : handler[g].exists =>
              handler'[g] = handler[g] /\ processor'[g] = processor[g]
         /\ OneUserPerProcessor' /\ UnusedIsFresh'
         /\ \A g \in File : HandlerOK(g)' /\ OutputOK(g)'
<1>1. PICK p \in Processor : CheckOut(p) /\ processor' = [processor EXCEPT ![f] = p]
  BY DEF Create
<1>2. /\ ~handler[f].exists /\ UNCHANGED <<input_vars, sound>>
      /\ handler' = [handler EXCEPT ![f] = NewHandler(f)]
  BY DEF Create
<1>3. /\ handler \in [File -> Handler] /\ processor \in [File -> Processor \cup {None}]
      /\ pool \subseteq Processor
  BY DEF GInv, TypeOK
<1>4. p \notin Used /\ pool' \subseteq pool \ {p} /\ sound[p] = Fresh /\ p # None
  BY <1>1, CheckedOut, GaplessAssumption
<1>5. frames[f] \in Nat /\ frames[f] >= 1 /\ readable[f] >= 1 /\ readable[f] \in Nat
  BY GaplessAssumption DEF GInv, TypeOK, FilesOK
<1>6. NewHandler(f) \in Handler
  BY <1>5 DEF NewHandler, Handler
<1>7. processor[f] = None
  BY <1>2 DEF GInv, HandlerOK
<1>8. \A g \in File : g # f => handler'[g] = handler[g] /\ processor'[g] = processor[g]
  BY <1>1, <1>2, <1>3
<1>9. processor'[f] = p /\ handler'[f] = NewHandler(f)
  BY <1>1, <1>2, <1>3
<1>10. Used' = Used \cup {p}
  BY <1>1, <1>3, <1>4, <1>7 DEF Used
<1>11. OneUserPerProcessor'
  <2>1. Used' \cap pool' = {}
    BY <1>4, <1>10 DEF GInv, OneUserPerProcessor
  <2>2. ASSUME NEW a \in File, NEW b \in File, a < b, processor'[a] = processor'[b],
               processor'[a] # None
        PROVE  b = a + 1 /\ HandingOver(a)'
    <3>1. \A g \in File : g # f => processor[g] # p
      BY <1>4 DEF Used
    <3>2. a # f /\ b # f
      BY <1>8, <1>9, <2>2, <3>1 DEF File
    <3> QED BY <1>8, <2>2, <3>2 DEF GInv, OneUserPerProcessor
  <2> QED BY <2>1, <2>2 DEF OneUserPerProcessor
<1>12. UnusedIsFresh'
  BY <1>2, <1>10 DEF GInv, UnusedIsFresh
<1>13. HandlerOK(f)' /\ OutputOK(f)'
  <2>1. NothingPending(f)'
    BY <1>2, <1>4, <1>9 DEF NothingPending, Fresh, NewHandler, Input, OutputPos, Out, Position
  <2>2. HandlerOK(f)'
    BY <1>2, <1>4, <1>5, <1>9, <2>1 DEF HandlerOK, Live, NewHandler, Position, input_vars
  <2>3. OutputOK(f)'
    BY <1>9 DEF OutputOK, NewHandler, Out
  <2> QED BY <2>2, <2>3
<1>14. \A g \in File : g # f => HandlerOK(g)' /\ OutputOK(g)'
  BY <1>2, <1>8, FileKept
<1>15. handler' \in [File -> Handler] /\ processor' \in [File -> Processor \cup {None}]
  BY <1>1, <1>2, <1>3, <1>6
<1>16. handler'[f].exists
  BY <1>9 DEF NewHandler
<1> QED BY <1>2, <1>3, <1>4, <1>8, <1>11, <1>12, <1>13, <1>14, <1>15, <1>16

LEMMA OpenKeeps ==
  ASSUME GInv, NEW f \in File, Open(f)
  PROVE  GInv'
<1>1. UNCHANGED thread /\ Create(f)
  BY DEF Open
<1>2. \A g \in File : /\ Busy(g) => Busy(g)'
                      /\ Receiving(g) => Receiving(g)'
                      /\ HandingOver(g) => HandingOver(g)'
  BY <1>1 DEF Busy, Receiving, HandingOver, Passed, At, Convert
<1>3. /\ handler' \in [File -> Handler] /\ pool' \subseteq Processor
      /\ processor' \in [File -> Processor \cup {None}]
      /\ UNCHANGED <<input_vars, sound>>
      /\ \A g \in File : handler[g].exists =>
           handler'[g] = handler[g] /\ processor'[g] = processor[g]
      /\ OneUserPerProcessor' /\ UnusedIsFresh'
      /\ \A g \in File : HandlerOK(g)' /\ OutputOK(g)'
  BY <1>1, <1>2, CreateKeepsFiles
<1>4. TypeOK' /\ FilesOK'
  BY <1>1, <1>3 DEF GInv, TypeOK, FilesOK, input_vars
<1>5. ASSUME NEW t \in Thread PROVE ThreadOK(t)'
  <2>1. ~At(t, "idle") => Convert(t) \in File /\ handler[Convert(t)].exists
    BY InCall DEF Live
  <2>2. NextObtained(t) => Convert(t) + 1 \in File /\ handler[Convert(t) + 1].exists
    BY InCall DEF ConvertOK, NextObtained, Passed, At
  <2>3. HandsOver(t) => NextObtained(t)
    BY DEF HandsOver, NextObtained
  <2> QED BY <1>1, <1>3, <2>1, <2>2, <2>3, ThreadKept
<1>6. Locked'
  BY <1>1, LockKept
<1> QED BY <1>3, <1>4, <1>5, <1>6 DEF GInv

LEMMA DestroyKeeps ==
  ASSUME GInv, NEW f \in File, Destroy(f)
  PROVE  GInv'
<1>1. /\ ~InUse(f) /\ UNCHANGED <<input_vars, thread>>
      /\ handler' = [handler EXCEPT ![f] = NoHandler]
      /\ processor' = [processor EXCEPT ![f] = None]
      /\ Return(sound, processor[f])
  BY DEF Destroy
<1>2. /\ handler \in [File -> Handler] /\ processor \in [File -> Processor \cup {None}]
      /\ sound \in [Processor -> Sound] /\ pool \subseteq Processor
  BY DEF GInv, TypeOK
<1>3. \A g \in File : g # f => handler'[g] = handler[g] /\ processor'[g] = processor[g]
  BY <1>1, <1>2
<1>4. handler'[f] = NoHandler /\ processor'[f] = None
  BY <1>1, <1>2
<1>5. \A t \in Thread : /\ ~At(t, "idle") => Convert(t) # f
                        /\ NextObtained(t) => Convert(t) + 1 # f
  <2> SUFFICES ASSUME NEW t \in Thread, ~At(t, "idle")
               PROVE  Convert(t) # f /\ (NextObtained(t) => Convert(t) + 1 # f)
    BY DEF NextObtained, Passed, At
  <2>1. Convert(t) \in Int /\ f \in Int
    BY InCall DEF File
  <2> QED BY <1>1, <2>1 DEF InUse, NextObtained, Passed, At, Convert
<1>6. \A g \in File : g # f /\ processor[f] # None => processor[g] # processor[f]
  <2> SUFFICES ASSUME NEW g \in File, g # f, processor[f] # None, processor[g] = processor[f]
               PROVE  FALSE
    OBVIOUS
  <2>1. PICK t \in Thread :
          Passed(t) /\ (Convert(t) = f \/ f = Convert(t) + 1)
    BY SharedIsHandedOver
  <2> QED BY <1>5, <2>1 DEF NextObtained, Passed, At
<1>7. \A g \in File : /\ Busy(g) => Busy(g)'
                      /\ Receiving(g) => Receiving(g)'
                      /\ HandingOver(g) => HandingOver(g)'
  BY <1>1 DEF Busy, Receiving, HandingOver, Passed, At, Convert
<1>8. /\ pool' \subseteq pool \cup ({processor[f]} \ {None})
      /\ sound' = IF processor[f] = None THEN sound ELSE [sound EXCEPT ![processor[f]] = Fresh]
  BY <1>1, Returned
<1>9. /\ OneUserPerProcessor' /\ UnusedIsFresh'
      /\ \A p \in Processor : p # processor[f] => sound'[p] = sound[p]
  BY <1>1, <1>2, <1>6, <1>7, <1>8, OwnerGone
<1>10. sound' \in [Processor -> Sound] /\ NoHandler \in Handler
  <2>1. Fresh \in Sound /\ NoHandler \in Handler
    BY GaplessAssumption DEF Fresh, Sound, NoHandler, Handler
  <2> QED BY <1>1, <1>2, <2>1, Returned
<1>11. TypeOK' /\ FilesOK'
  <2>1. pool' \subseteq Processor
    BY <1>2, <1>8
  <2> QED BY <1>1, <1>2, <1>10, <2>1 DEF GInv, TypeOK, FilesOK, input_vars
<1>12. HandlerOK(f)' /\ OutputOK(f)'
  BY <1>4 DEF HandlerOK, OutputOK, Live, Out, NoHandler
<1>13. ASSUME NEW g \in File, g # f PROVE HandlerOK(g)' /\ OutputOK(g)'
  <2>1. processor[g] # None => processor[g] \in Processor /\ processor[g] # processor[f]
    BY <1>2, <1>6, <1>13
  <2> QED BY <1>1, <1>3, <1>7, <1>9, <1>13, <2>1, FileKept
<1>14. ASSUME NEW t \in Thread PROVE ThreadOK(t)'
  <2>1. ~At(t, "idle") =>
          /\ Convert(t) \in File /\ Convert(t) # f /\ processor[Convert(t)] \in Processor
          /\ processor[Convert(t)] # processor[f]
    BY <1>5, <1>6, InCall, GaplessAssumption
  <2>2. NextObtained(t) => Convert(t) + 1 \in File /\ Convert(t) + 1 # f
    BY <1>5, InCall DEF ConvertOK, NextObtained, Passed, At
  <2>3. HandsOver(t) => NextObtained(t)
    BY DEF HandsOver, NextObtained
  <2>4. NextObtained(t) => handler[Convert(t) + 1].exists
    BY InCall DEF ConvertOK, NextObtained, Passed, At
  <2> QED BY <1>1, <1>3, <1>9, <2>1, <2>2, <2>3, <2>4, ThreadKept
<1>15. Locked'
  BY <1>1, LockKept
<1> QED BY <1>9, <1>11, <1>12, <1>13, <1>14, <1>15 DEF GInv
-----------------------------------------------------------------------------
(* A call with nothing to read.                                            *)

\* Whoever may convert finds the file as calls leave it.
LEMMA AtRest ==
  ASSUME GInv, NEW t \in Thread, NEW f \in File, MayConvert(t, f)
  PROVE  /\ Live(f) /\ handler[f] \in Handler
         /\ processor[f] \in Processor /\ sound[processor[f]] \in Sound
         /\ ~Receiving(f) => NothingPending(f) \/ Half(f)
         /\ handler[f].left = frames[f] - Position(f)
         /\ Position(f) \in Nat /\ Position(f) <= readable[f]
         /\ readable[f] \in Nat /\ frames[f] \in Nat
         /\ handler[f].left = 0 => frames[f] < Fragment
         /\ Out(f) \in Nat /\ handler[f].output \in Seq(Frame)
<1>1. Live(f) /\ ~Busy(f)
  BY DEF MayConvert, Live, Busy, Convert
<1>2. HandlerOK(f)
  BY DEF GInv
<1>3. /\ handler[f] \in Handler /\ processor[f] \in Processor \cup {None}
      /\ readable[f] \in Nat /\ frames[f] \in FrameCounts
  BY DEF GInv, TypeOK
<1>4. processor[f] \in Processor
  BY <1>1, <1>2, <1>3 DEF HandlerOK
<1>5. sound[processor[f]] \in Sound
  BY <1>4 DEF GInv, TypeOK
<1>6. Position(f) \in Nat /\ handler[f].output \in Seq(Frame)
  BY <1>3 DEF Position, Handler
<1>7. frames[f] \in Nat
  BY <1>3, GaplessAssumption
<1>8. Out(f) \in Nat
  BY <1>6 DEF Out
<1> QED BY <1>1, <1>2, <1>3, <1>4, <1>5, <1>6, <1>7, <1>8 DEF HandlerOK

LEMMA NothingLeftKeeps ==
  ASSUME GInv, NEW t \in Thread, NEW f \in File, NothingLeft(t, f)
  PROVE  GInv'
<1>1. /\ MayConvert(t, f) /\ handler[f].left = 0
      /\ handler' = [handler EXCEPT ![f].complete = TRUE]
      /\ UNCHANGED <<input_vars, processor, sound, pool, thread>>
  BY DEF NothingLeft
<1>2. handler \in [File -> Handler] /\ handler[f] \in Handler
  BY DEF GInv, TypeOK
<1>3. /\ handler' = [handler EXCEPT ![f] = [handler[f] EXCEPT !.complete = TRUE]]
      /\ [handler[f] EXCEPT !.complete = TRUE] \in Handler
  BY <1>1, <1>2 DEF Handler
<1>4. /\ handler'[f].exists = handler[f].exists /\ handler'[f].left = handler[f].left
      /\ handler'[f].output = handler[f].output /\ handler'[f].complete
      /\ handler'[f].position = handler[f].position
      /\ handler' \in [File -> Handler]
      /\ \A g \in File : g # f => handler'[g] = handler[g]
  BY <1>2, <1>3 DEF Handler
<1>5. \A g \in File : /\ Busy(g) => Busy(g)'
                      /\ Receiving(g) => Receiving(g)'
                      /\ HandingOver(g) => HandingOver(g)'
  BY <1>1 DEF Busy, Receiving, HandingOver, Passed, At, Convert
<1>6. TypeOK' /\ FilesOK'
  BY <1>1, <1>4 DEF GInv, TypeOK, FilesOK, input_vars
<1>7. OneUserPerProcessor' /\ UnusedIsFresh'
  BY <1>1, <1>5, OwnersKept
<1>8. HandlerOK(f)' /\ OutputOK(f)'
  <2>1. HandlerOK(f) /\ OutputOK(f) /\ handler[f].exists /\ frames[f] < Fragment
    BY <1>1, AtRest DEF GInv, Live
  <2>2. HandlerOK(f)'
    BY <1>1, <1>4, <2>1 DEF HandlerOK, Live
  <2>3. frames[f] \in Nat
    BY <1>1, AtRest
  <2>4. OutputOK(f)'
    BY <1>1, <1>4, <2>1, <2>3, GaplessAssumption DEF OutputOK, Out, input_vars
  <2> QED BY <2>2, <2>4
<1>9. \A g \in File : g # f => HandlerOK(g)' /\ OutputOK(g)'
  BY <1>1, <1>4, <1>5, FileKept
<1>10. \A u \in Thread : ThreadOK(u)'
  <2> SUFFICES ASSUME NEW u \in Thread PROVE ThreadOK(u)'
    OBVIOUS
  <2>1. Convert(u) # f
    BY <1>1 DEF MayConvert, Convert
  <2>2. ~At(u, "idle") => Convert(u) \in File /\ ConvertOK(u, Convert(u))
    BY InCall
  <2>3. NextObtained(u) => Convert(u) + 1 \in File /\ handler[Convert(u) + 1].exists
    BY <2>2 DEF ConvertOK, NextObtained, Passed, At
  <2>4. ~(HandsOver(u) /\ ~At(u, "write") /\ Convert(u) + 1 = f)
    <3> SUFFICES ASSUME HandsOver(u), ~At(u, "write"), Convert(u) + 1 = f PROVE FALSE
      OBVIOUS
    <3>1. Untouched(f)
      BY <2>2 DEF ConvertOK, HandsOver, Passed, At
    <3>2. handler[f].left = frames[f] /\ frames[f] >= 1
      BY <1>1, <3>1, AtRest DEF Untouched, GInv, FilesOK
    <3> QED BY <1>1, <3>2
  <2>5. HandsOver(u) => NextObtained(u)
    BY DEF HandsOver, NextObtained
  <2>6. NextObtained(u) =>
          /\ handler'[Convert(u) + 1].exists
          /\ handler'[Convert(u) + 1].position = handler[Convert(u) + 1].position
          /\ handler'[Convert(u) + 1].output = handler[Convert(u) + 1].output
    BY <1>4, <2>3
  <2>7. Convert(u) + 1 # f /\ NextObtained(u) => handler'[Convert(u) + 1] = handler[Convert(u) + 1]
    BY <1>4, <2>3
  <2> QED BY <1>1, <1>4, <2>1, <2>2, <2>4, <2>5, <2>6, <2>7, ThreadKept
<1>11. Locked'
  BY <1>1, LockKept
<1> QED BY <1>6, <1>7, <1>8, <1>9, <1>10, <1>11 DEF GInv

\* A file that just gets its processor has no output to write.
LEMMA NotReceivingWhilePending ==
  ASSUME GInv, NEW t \in Thread, NEW f \in File, WritePending(t, f)
  PROVE  ~Receiving(f) /\ \A u \in Thread : HandsOver(u) => Convert(u) + 1 # f
<1>1. MayConvert(t, f) /\ Pending(f) > 0
  BY DEF WritePending
<1>2. OutputPos(f) \in Int /\ OutputPos(f) >= 0 /\ OutputPos(f) # Fragment
  <2>1. OutputPos(f) \in Int
    BY <1>1, AtRest DEF OutputPos, Sound
  <2> QED BY <1>1, <2>1, GaplessAssumption DEF Pending, pending_writes, OutputPos
<1>3. ASSUME NEW u \in Thread, HandsOver(u), Convert(u) + 1 = f PROVE ~Passed(u)
  <2>1. ConvertOK(u, Convert(u))
    BY <1>3, InCall DEF HandsOver, Passed, At
  <2>2. Passed(u) => processor[f] = processor[Convert(u)] /\ OutputPos(Convert(u)) = -1
    BY <1>3, <2>1 DEF ConvertOK, Collected, Passed, At
  <2> QED BY <1>2, <2>2 DEF OutputPos
<1>4. ~Receiving(f)
  BY <1>3 DEF Receiving, HandsOver
<1>5. ASSUME NEW u \in Thread, HandsOver(u), Convert(u) + 1 = f PROVE FALSE
  <2>1. At(u, "assign")
    BY <1>3, <1>5 DEF HandsOver
  <2>2. Untouched(f)
    BY <1>5, <2>1, InCall DEF ConvertOK, At
  <2>3. Half(f)
    BY <1>1, <1>2, <1>4, AtRest DEF NothingPending
  <2>4. Len(Input(f)) \in Nat /\ readable[f] >= 1 /\ readable[f] \in Nat
    BY <1>1, AtRest DEF Input, Sound, GInv, FilesOK
  <2>5. Position(f) = 0 /\ Out(f) = 0
    BY <2>2 DEF Untouched
  <2>6. Position(f) = Out(f) + Len(Input(f)) - OutputPos(f) /\ AsFullAsCanBe(f)
    BY <2>3 DEF Half
  <2>7. Len(Input(f)) = OutputPos(f)
    BY <1>2, <2>4, <2>5, <2>6
  <2>8. Position(f) # readable[f]
    BY <2>4, <2>5
  <2> QED BY <1>2, <2>6, <2>7, <2>8 DEF AsFullAsCanBe
<1> QED BY <1>4, <1>5

LEMMA WritePendingKeeps ==
  ASSUME GInv, NEW t \in Thread, NEW f \in File, WritePending(t, f)
  PROVE  GInv'
<1> DEFINE p == processor[f]
           s == sound[processor[f]]
           n == Pending(f)
           q == Len(Input(f))
<1>1. /\ MayConvert(t, f) /\ n > 0
      /\ handler' = [handler EXCEPT ![f].output = @ \o Written(s, n)]
      /\ sound' = [sound EXCEPT ![p] = AfterWriting(@, n)]
      /\ UNCHANGED <<input_vars, processor, pool, thread>>
  BY DEF WritePending
<1>2. /\ handler \in [File -> Handler] /\ handler[f] \in Handler
      /\ sound \in [Processor -> Sound] /\ p \in Processor /\ s \in Sound
      /\ Live(f) /\ Out(f) \in Nat /\ handler[f].output \in Seq(Frame)
      /\ Position(f) \in Nat /\ readable[f] \in Nat /\ Position(f) <= readable[f]
  BY <1>1, AtRest DEF GInv, TypeOK
<1>3. q \in Nat /\ OutputPos(f) \in Int /\ Fragment \in Nat
  BY <1>2, GaplessAssumption DEF Input, OutputPos, Sound
<1>4. Half(f) /\ n = Fragment - OutputPos(f) /\ OutputPos(f) \in Nat
  <2>1. OutputPos(f) >= 0 /\ n = Fragment - OutputPos(f)
    BY <1>1, <1>3 DEF Pending, pending_writes, OutputPos
  <2>2. ~NothingPending(f)
    BY <1>1, <1>3, <2>1 DEF NothingPending
  <2>3. NothingPending(f) \/ Half(f)
    BY <1>1, NotReceivingWhilePending, AtRest
  <2> QED BY <1>3, <2>1, <2>2, <2>3
<1>5. n \in Nat /\ WriteFrom(s) = OutputPos(f)
  BY <1>1, <1>3, <1>4 DEF WriteFrom, OutputPos
<1> HIDE DEF n
<1>6. /\ Written(s, n) \in Seq(Frame) /\ Len(Written(s, n)) = n
      /\ \A j \in 1 .. n : Written(s, n)[j] =
           IF OutputPos(f) + j <= q THEN Input(f)[OutputPos(f) + j] ELSE Silence
  BY <1>2, <1>5, WrittenFrames DEF Input
<1>7. /\ AfterWriting(s, n) \in Sound
      /\ AfterWriting(s, n).input = <<>> /\ AfterWriting(s, n).output_pos = Fragment
  BY <1>2, <1>3, <1>4, <1>5, AfterWritingIsSound
<1> DEFINE out == handler[f].output \o Written(s, n)
<1>8. /\ out \in Seq(Frame) /\ Len(out) = Out(f) + n
      /\ \A i \in 1 .. Out(f) : out[i] = handler[f].output[i]
      /\ \A j \in 1 .. n : out[Out(f) + j] = Written(s, n)[j]
  <2> DEFINE old == handler[f].output
             more == Written(s, n)
  <2>1. old \in Seq(Frame) /\ more \in Seq(Frame) /\ Len(more) = n /\ Len(old) = Out(f)
    BY <1>2, <1>6 DEF Out
  <2>2. out = old \o more
    OBVIOUS
  <2> HIDE DEF old, more, out
  <2>3. /\ old \o more \in Seq(Frame) /\ Len(old \o more) = Len(old) + Len(more)
        /\ \A i \in 1 .. Len(old) : (old \o more)[i] = old[i]
        /\ \A j \in 1 .. Len(more) : (old \o more)[Len(old) + j] = more[j]
    BY <2>1, Appended, Zenon
  <2>4. /\ out \in Seq(Frame) /\ Len(out) = Out(f) + n
        /\ \A i \in 1 .. Out(f) : out[i] = old[i]
        /\ \A j \in 1 .. n : out[Out(f) + j] = more[j]
    BY <2>1, <2>2, <2>3, Zenon
  <2> QED BY <2>4 DEF old, more
<1> HIDE DEF out
<1>9. handler' = [handler EXCEPT ![f] = [handler[f] EXCEPT !.output = out]]
  BY <1>1, <1>2 DEF out
<1>10. [handler[f] EXCEPT !.output = out] \in Handler
  BY <1>2, <1>8 DEF Handler
<1>11. /\ handler'[f].exists = handler[f].exists /\ handler'[f].left = handler[f].left
       /\ handler'[f].output = out /\ handler'[f].complete = handler[f].complete
       /\ handler'[f].position = handler[f].position
       /\ handler' \in [File -> Handler]
       /\ \A g \in File : g # f => handler'[g] = handler[g]
  BY <1>2, <1>9, <1>10 DEF Handler
<1>12. /\ sound' \in [Processor -> Sound] /\ sound'[p] = AfterWriting(s, n)
       /\ \A r \in Processor : r # p => sound'[r] = sound[r]
  BY <1>1, <1>2, <1>7
<1>13. \A g \in File : /\ Busy(g) => Busy(g)'
                       /\ Receiving(g) => Receiving(g)'
                       /\ HandingOver(g) => HandingOver(g)'
  BY <1>1 DEF Busy, Receiving, HandingOver, Passed, At, Convert
<1>14. TypeOK' /\ FilesOK'
  BY <1>1, <1>11, <1>12 DEF GInv, TypeOK, FilesOK, input_vars
<1>15. p \in Used
  BY <1>2, GaplessAssumption DEF Used
<1>16. OneUserPerProcessor' /\ UnusedIsFresh'
  BY <1>1, <1>12, <1>13, <1>15, OwnersKept
<1>17. OutputOK(f)'
  <2>1. ASSUME NEW i \in 1 .. Len(out)
        PROVE  out[i] = <<f, i>> \/ (i > readable[f] /\ out[i] = Silence)
    <3>1. CASE i \in 1 .. Out(f)
      BY <1>8, <3>1 DEF GInv, OutputOK
    <3>2. CASE i \notin 1 .. Out(f)
      <4> DEFINE j == i - Out(f)
      <4>1. j \in 1 .. n /\ i = Out(f) + j
        BY <1>2, <1>5, <1>8, <3>2
      <4>2. out[i] = IF OutputPos(f) + j <= q THEN Input(f)[OutputPos(f) + j] ELSE Silence
        BY <1>6, <1>8, <4>1
      <4>3. CASE OutputPos(f) + j <= q
        <5>1. OutputPos(f) + j \in 1 .. q /\ OutputPos(f) + j > OutputPos(f)
          BY <1>3, <1>4, <4>1, <4>3
        <5>2. Input(f)[OutputPos(f) + j] = <<f, Out(f) + (OutputPos(f) + j) - OutputPos(f)>>
          BY <1>4, <5>1 DEF Half, HoldsFrom
        <5> QED BY <1>2, <1>3, <4>1, <4>2, <4>3, <5>2
      <4>4. CASE OutputPos(f) + j > q
        <5>1. q # Fragment
          BY <1>3, <1>4, <4>1, <4>4
        <5>2. Position(f) = readable[f] /\ Position(f) = Out(f) + q - OutputPos(f)
          BY <1>4, <5>1 DEF Half, AsFullAsCanBe
        <5>3. i > readable[f]
          BY <1>2, <1>3, <1>4, <4>1, <4>4, <5>2
        <5> QED BY <1>3, <4>1, <4>2, <4>4, <5>3
      <4> QED BY <1>3, <4>1, <4>3, <4>4
    <3> QED BY <3>1, <3>2
  <2> QED BY <1>1, <1>2, <1>11, <2>1 DEF OutputOK, Out, Live, input_vars
<1>18. NothingPending(f)'
  <2>1. Out(f)' = Out(f) + n /\ Position(f)' = Position(f)
    BY <1>8, <1>11 DEF Out, Position
  <2>2. Input(f)' = <<>> /\ OutputPos(f)' = Fragment
    BY <1>1, <1>7, <1>12 DEF Input, OutputPos
  <2>3. Position(f) = Out(f) + q - OutputPos(f) /\ q <= Fragment
    BY <1>4 DEF Half
  <2>4. CASE q = Fragment
    BY <1>2, <1>3, <1>4, <2>1, <2>2, <2>3, <2>4 DEF NothingPending
  <2>5. CASE q # Fragment
    <3>1. Position(f) = readable[f]
      BY <1>4, <2>5 DEF Half, AsFullAsCanBe
    <3>2. Out(f) + n > Position(f)
      BY <1>2, <1>3, <1>4, <2>3, <2>5
    <3> QED BY <1>1, <2>1, <2>2, <3>1, <3>2 DEF NothingPending, input_vars
  <2> QED BY <2>4, <2>5
<1>19. HandlerOK(f)'
  <2>1. HandlerOK(f)
    BY DEF GInv
  <2> QED BY <1>1, <1>2, <1>11, <1>13, <1>18, <2>1 DEF HandlerOK, Live, Position, input_vars
<1>20. \A g \in File : g # f => processor[g] # p
  <2> SUFFICES ASSUME NEW g \in File, g # f, processor[g] = p PROVE FALSE
    OBVIOUS
  <2>1. PICK v \in Thread :
          Passed(v) /\ Convert(v) \in File /\ (Convert(v) = f \/ f = Convert(v) + 1)
    BY <1>2, SharedIsHandedOver, GaplessAssumption
  <2> QED BY <1>1, <2>1, NotReceivingWhilePending DEF HandsOver, MayConvert, Convert, WritePending
<1>21. ASSUME NEW g \in File, g # f PROVE HandlerOK(g)' /\ OutputOK(g)'
  <2>1. processor[g] # None => processor[g] \in Processor /\ processor[g] # p
    <3> SUFFICES ASSUME processor[g] = p PROVE FALSE
      BY DEF GInv, TypeOK
    <3> QED BY <1>2, <1>21, <1>20
  <2> QED BY <1>1, <1>11, <1>12, <1>13, <1>21, <2>1, FileKept
<1>22. \A u \in Thread : ThreadOK(u)'
  <2> SUFFICES ASSUME NEW u \in Thread PROVE ThreadOK(u)'
    OBVIOUS
  <2>1. Convert(u) # f
    BY <1>1 DEF MayConvert, Convert
  <2>2. ~At(u, "idle") =>
          /\ Convert(u) \in File /\ ConvertOK(u, Convert(u))
          /\ processor[Convert(u)] \in Processor /\ processor[Convert(u)] # p
    BY <1>20, <2>1, InCall
  <2>3. NextObtained(u) => Convert(u) + 1 \in File /\ handler[Convert(u) + 1].exists
    BY <2>2 DEF ConvertOK, NextObtained, Passed, At
  <2>4. HandsOver(u) => NextObtained(u) /\ Convert(u) + 1 # f
    BY <1>1, NotReceivingWhilePending DEF HandsOver, NextObtained, WritePending
  <2>5. NextObtained(u) => handler'[Convert(u) + 1].exists
    BY <1>11, <2>3
  <2>6. HandsOver(u) => handler'[Convert(u) + 1] = handler[Convert(u) + 1]
    BY <1>11, <2>3, <2>4
  <2> QED BY <1>1, <1>11, <1>12, <2>1, <2>2, <2>4, <2>5, <2>6, ThreadKept
<1>23. Locked'
  BY <1>1, LockKept
<1> QED BY <1>14, <1>16, <1>17, <1>19, <1>21, <1>22, <1>23 DEF GInv


LEMMA BeginFillKeeps ==
  ASSUME GInv, Undisturbed', NEW t \in Thread, NEW f \in File, BeginFill(t, f)
  PROVE  GInv'
<1> DEFINE filling == [Resting EXCEPT !.pc = "fill", !.file = f]
<1>1. /\ MayConvert(t, f) /\ handler[f].left # 0 /\ Pending(f) = 0
      /\ thread' = [thread EXCEPT ![t] = filling]
      /\ UNCHANGED <<input_vars, handler, processor, sound, pool>>
  BY DEF BeginFill
<1>2. thread \in [Thread -> Local]
  BY DEF GInv, TypeOK
<1>3. /\ thread'[t].pc = "fill" /\ thread'[t].file = f /\ ~thread'[t].passed
      /\ thread' \in [Thread -> Local]
  BY <1>1, <1>2 DEF Resting, Local
<1>4. /\ \A u \in Thread : u # t => thread'[u] = thread[u]
      /\ Convert(t) \notin File /\ ~Passed(t)
  BY <1>1, <1>2, WhileIdle DEF MayConvert
<1> HIDE DEF filling
<1>5. \A g \in File : /\ Busy(g) => Busy(g)'
                      /\ Receiving(g) => Receiving(g)'
                      /\ HandingOver(g) => HandingOver(g)'
  BY <1>4, OthersGoOn
<1>6. TypeOK' /\ FilesOK'
  BY <1>1, <1>3 DEF GInv, TypeOK, FilesOK, input_vars
<1>7. OneUserPerProcessor' /\ UnusedIsFresh'
  <2>1. \A g \in File : HandingOver(g) => HandingOver(g)'
    BY <1>5
  <2>2. UNCHANGED <<processor, pool, sound>>
    BY <1>1
  <2> QED BY <2>1, <2>2, OwnersKept
<1>8. \A g \in File : HandlerOK(g)' /\ OutputOK(g)'
  <2>1. UNCHANGED <<input_vars, handler, processor, sound>>
    BY <1>1
  <2> QED BY <1>5, <2>1, FileKept
<1>9. ~Receiving(f)
  <2> SUFFICES ASSUME Receiving(f) PROVE FALSE
    OBVIOUS
  <2>1. PICK u \in Thread : Convert(u) \in File /\ f = Convert(u) + 1 /\ Passed(u)
    BY DEF Receiving
  <2>2. u # t
    BY <1>4, <2>1
  <2>3. HandsOver(u)' /\ Convert(u)' = Convert(u) /\ Convert(t)' = f
    BY <1>3, <1>4, <2>1, <2>2 DEF HandsOver, Passed, At, Convert
  <2> QED BY <2>1, <2>3 DEF Undisturbed
<1>10. NothingPending(f)
  <2>1. NothingPending(f) \/ Half(f)
    BY <1>1, <1>9, AtRest
  <2>2. OutputPos(f) \in Int
    BY <1>1, AtRest DEF OutputPos, Sound
  <2> QED BY <1>1, <2>1, <2>2, GaplessAssumption DEF Half, Pending, pending_writes, OutputPos
<1>11. NothingPending(f)'
  BY <1>1, <1>10 DEF NothingPending, Input, OutputPos, Out, Position, input_vars
<1>12. ThreadOK(t)'
  <2>1. ConvertOK(t, f)'
    BY <1>1, <1>3, <1>11 DEF ConvertOK, At, NextObtained, Passed, Live, MayConvert
  <2> QED BY <1>3, <2>1 DEF ThreadOK, At, Convert
<1>13. ASSUME NEW u \in Thread, u # t PROVE ThreadOK(u)'
  <2>1. NextObtained(u) => handler[Convert(u) + 1].exists
    BY InCall DEF ConvertOK, NextObtained, Passed, At
  <2> QED BY <1>1, <1>4, <1>13, <2>1, ThreadKept
<1>14. Locked'
  <2>1. \A u \in Thread : Convert(u) # f
    BY <1>1 DEF MayConvert, Convert
  <2>2. Convert(t)' = f /\ \A u \in Thread : u # t => Convert(u)' = Convert(u)
    BY <1>3, <1>4 DEF Convert
  <2> QED BY <2>1, <2>2 DEF GInv, Locked
<1> QED BY <1>6, <1>7, <1>8, <1>12, <1>13, <1>14 DEF GInv

-----------------------------------------------------------------------------
(* Reading input.                                                          *)

LEMMA Progressed ==
  ASSUME NEW h \in Handler, NEW n \in Nat, NEW left \in Int
  PROVE  [h EXCEPT !.position = n, !.left = left] \in Handler
BY DEF Handler

LEMMA Ended ==
  ASSUME NEW h \in Handler
  PROVE  [h EXCEPT !.left = 0, !.complete = TRUE] \in Handler
<1>1. [h EXCEPT !.left = 0] \in Handler
  BY DEF Handler
<1>2. \A g \in Handler : [g EXCEPT !.complete = TRUE] \in Handler
  BY DEF Handler
<1>3. [h EXCEPT !.left = 0, !.complete = TRUE] = [[h EXCEPT !.left = 0] EXCEPT !.complete = TRUE]
  OBVIOUS
<1> QED BY <1>1, <1>2, <1>3

LEMMA FillKeeps ==
  ASSUME GInv, Undisturbed, NEW t \in Thread, Fill(t)
  PROVE  GInv'
<1> PICK f : f = Convert(t)
  OBVIOUS
<1> DEFINE p == processor[f]
           s == sound[processor[f]]
           n == FillCount(s, f, Position(f))
           rest == handler[f].left - n
           full == is_input_buffer_complete(Filled(s, f, Position(f)))
           after == IF rest = 0 /\ ~full THEN "next" ELSE "write"
<1>1. /\ At(t, "fill") /\ n > 0
      /\ sound' = [sound EXCEPT ![p] = Filled(@, f, Position(f))]
      /\ handler' = [handler EXCEPT ![f].position = @ + n, ![f].left = rest]
      /\ thread' = [thread EXCEPT ![t].count = n, ![t].pc = after]
      /\ UNCHANGED <<input_vars, processor, pool>>
  BY DEF Fill, Position
<1>2. /\ ConvertOK(t, f) /\ f \in File /\ Live(f) /\ handler[f] \in Handler
      /\ p \in Processor /\ s \in Sound
      /\ handler[f].left = frames[f] - Position(f) /\ Position(f) <= readable[f]
      /\ Position(f) \in Nat /\ readable[f] \in Nat /\ frames[f] \in Nat
      /\ thread[t] \in Local
  BY <1>1, InCall DEF At
<1>3. /\ handler \in [File -> Handler] /\ sound \in [Processor -> Sound]
      /\ thread \in [Thread -> Local]
  BY DEF GInv, TypeOK
<1>4. /\ NothingPending(f) /\ handler[f].left # 0 /\ ~thread[t].passed
      /\ Len(s.input) = 0 /\ ~Passed(t) /\ ~HandsOver(t)
  BY <1>1, <1>2 DEF ConvertOK, NothingPending, Input, At, Passed, HandsOver
<1>5. Fragment \in Nat /\ Fragment > 0
  BY GaplessAssumption
<1>6. /\ n \in Nat /\ n <= Fragment /\ Position(f) + n <= readable[f]
      /\ Filled(s, f, Position(f)) \in Sound
      /\ Filled(s, f, Position(f)).output_pos = -1
      /\ Len(Filled(s, f, Position(f)).input) = n
      /\ \A j \in 1 .. n : Filled(s, f, Position(f)).input[j] = <<f, Position(f) + j>>
      /\ n = Fragment \/ Position(f) + n = readable[f]
  <2>1. Len(s.input) <= Fragment
    BY <1>4, <1>5
  <2>2. /\ n \in Nat /\ n <= Fragment - Len(s.input) /\ Position(f) + n <= readable[f]
        /\ Filled(s, f, Position(f)) \in Sound
        /\ Filled(s, f, Position(f)).output_pos = -1
        /\ Len(Filled(s, f, Position(f)).input) = Len(s.input) + n
        /\ \A j \in 1 .. n :
             Filled(s, f, Position(f)).input[Len(s.input) + j] = <<f, Position(f) + j>>
        /\ \/ Len(Filled(s, f, Position(f)).input) = Fragment
           \/ Position(f) + n = readable[f]
    <3>1. /\ s \in Sound /\ f \in File /\ Position(f) \in Nat /\ readable[f] \in Nat
          /\ Position(f) <= readable[f]
      BY <1>2
    <3> HIDE DEF p, s
    <3> QED BY <2>1, <3>1, FilledBehind, Zenon DEF n
  <2> HIDE DEF n
  <2>3. Len(s.input) + n = n /\ \A j \in 1 .. n : Len(s.input) + j = j
    BY <1>4, <2>2
  <2> QED BY <1>4, <1>5, <2>2, <2>3
<1> DEFINE filled == Filled(s, f, Position(f))
<1>7. full <=> n = Fragment
  BY <1>6 DEF is_input_buffer_complete, InputPos
<1>8. Out(f) = Position(f)
  BY <1>1, <1>2, <1>6 DEF ConvertOK, NothingPending
<1> HIDE DEF n, full, filled
<1>9. /\ sound' \in [Processor -> Sound] /\ sound'[p] = filled
      /\ \A r \in Processor : r # p => sound'[r] = sound[r]
  BY <1>1, <1>2, <1>3, <1>6 DEF filled
<1>10. rest \in Int
  BY <1>2, <1>6
<1> HIDE DEF rest
<1>11. /\ handler'[f].exists /\ handler'[f].left = rest
       /\ handler'[f].output = handler[f].output /\ ~handler'[f].complete
       /\ handler'[f].position = Position(f) + n
       /\ handler' \in [File -> Handler]
       /\ \A g \in File : g # f => handler'[g] = handler[g]
  <2>1. handler' = [handler EXCEPT ![f] =
                      [handler[f] EXCEPT !.position = @ + n, !.left = rest]]
    BY <1>1, <1>2, <1>3
  <2>2. [handler[f] EXCEPT !.position = @ + n, !.left = rest] \in Handler
    <3>1. handler[f].position + n \in Nat
      BY <1>2, <1>6 DEF Position
    <3> QED BY <1>2, <1>10, <3>1, Progressed
  <2> QED BY <1>2, <1>3, <2>1, <2>2 DEF Handler, Live, Position
<1>12. /\ thread'[t].file = f /\ thread'[t].count = n /\ ~thread'[t].passed
       /\ thread'[t].pc = after /\ thread' \in [Thread -> Local]
       /\ \A u \in Thread : u # t => thread'[u] = thread[u]
  <2>1. after \in {"next", "write"}
    OBVIOUS
  <2> HIDE DEF after
  <2> QED BY <1>1, <1>2, <1>3, <1>4, <1>6, <2>1 DEF Local, Convert
<1>13. \A g : /\ Busy(g) => Busy(g)'
              /\ Receiving(g) => Receiving(g)'
              /\ HandingOver(g) => HandingOver(g)'
  BY <1>4, <1>12, GoesOn DEF Convert
<1>14. TypeOK' /\ FilesOK'
  BY <1>1, <1>9, <1>11, <1>12 DEF GInv, TypeOK, FilesOK, input_vars
<1>15. p \in Used
  BY <1>2, GaplessAssumption DEF Used
<1>16. OneUserPerProcessor' /\ UnusedIsFresh'
  BY <1>1, <1>9, <1>13, <1>15, OwnersKept
<1>17. HandlerOK(f)' /\ OutputOK(f)'
  <2>1. Busy(f)'
    BY <1>12 DEF Busy, Convert
  <2>2. HandlerOK(f) /\ OutputOK(f)
    BY <1>2 DEF GInv
  <2>3. rest = frames[f] - (Position(f) + n)
    BY <1>2, <1>6 DEF rest
  <2>4. HandlerOK(f)'
    BY <1>1, <1>2, <1>6, <1>11, <2>1, <2>2, <2>3 DEF HandlerOK, Live, Position, input_vars
  <2>5. OutputOK(f)'
    BY <1>1, <1>11, <2>2 DEF OutputOK, Out, input_vars
  <2> QED BY <2>4, <2>5
<1>18. ASSUME NEW g \in File, g # f PROVE HandlerOK(g)' /\ OutputOK(g)'
  <2>1. processor[g] # None => processor[g] \in Processor /\ processor[g] # p
    <3> SUFFICES ASSUME processor[g] = p PROVE FALSE
      BY DEF GInv, TypeOK
    <3> QED BY <1>1, <1>4, <1>18, OnlyUser DEF At
  <2> QED BY <1>1, <1>9, <1>11, <1>13, <1>18, <2>1, FileKept
<1>19. Collected(t, f)'
  <2>1. Position(f)' = Position(f) + n /\ Out(f)' = Out(f)
    BY <1>11 DEF Position, Out
  <2>2. Input(f)' = filled.input /\ OutputPos(f)' = -1
    BY <1>1, <1>6, <1>9 DEF Input, OutputPos, filled
  <2>3. Len(filled.input) = n /\ \A j \in 1 .. n : filled.input[j] = <<f, Out(f) + j>>
    BY <1>6, <1>8 DEF filled
  <2>4. ~At(t, "write")' => handler'[f].left = 0 /\ n < Fragment
    BY <1>5, <1>6, <1>7, <1>11, <1>12 DEF At
  <2>5. n \in 1 .. Fragment
    BY <1>1, <1>5, <1>6
  <2>6. n = Fragment \/ Position(f)' = readable'[f]
    BY <1>1, <1>6, <2>1 DEF input_vars
  <2> QED BY <1>5, <1>8, <1>12, <2>1, <2>2, <2>3, <2>4, <2>5, <2>6 DEF Collected
<1>20. ThreadOK(t)'
  <2>1. At(t, "next")' \/ At(t, "write")'
    BY <1>12 DEF At
  <2>2. ConvertOK(t, f)'
    BY <1>2, <1>11, <1>12, <1>19, <2>1 DEF ConvertOK, At, NextObtained, Passed, Live
  <2> QED BY <1>12, <2>1, <2>2 DEF ThreadOK, At, Convert
<1>21. \A u \in Thread : u # t => ThreadOK(u)'
  <2>1. ~At(t, "idle") /\ UNCHANGED <<input_vars, processor>>
    BY <1>1 DEF At
  <2>2. \A g \in File : /\ handler[g].exists => handler'[g].exists
                        /\ g # f => handler'[g] = handler[g]
    BY <1>11
  <2> QED BY <1>4, <1>9, <1>12, <2>1, <2>2, OthersKept
<1>22. Locked'
  BY <1>12, LockKept DEF Convert
<1> QED BY <1>14, <1>16, <1>17, <1>18, <1>20, <1>21, <1>22 DEF GInv

LEMMA PrematureEOFKeeps ==
  ASSUME GInv, Undisturbed, NEW t \in Thread, PrematureEOF(t)
  PROVE  GInv'
<1> PICK f : f = Convert(t)
  OBVIOUS
<1> DEFINE p == processor[f]
<1>1. /\ At(t, "fill") /\ FillCount(sound[p], f, Position(f)) = 0
      /\ handler' = [handler EXCEPT ![f].left = 0, ![f].complete = TRUE]
      /\ processor' = [processor EXCEPT ![f] = None]
      /\ thread' = [thread EXCEPT ![t] = Resting]
      /\ Return(sound, p) /\ UNCHANGED input_vars
  BY DEF PrematureEOF, Rest, Position
<1>2. /\ ConvertOK(t, f) /\ f \in File /\ Live(f) /\ handler[f] \in Handler
      /\ p \in Processor /\ sound[p] \in Sound
      /\ handler[f].left = frames[f] - Position(f) /\ Position(f) <= readable[f]
      /\ Position(f) \in Nat /\ readable[f] \in Nat /\ frames[f] \in Nat
  BY <1>1, InCall DEF At
<1>3. /\ handler \in [File -> Handler] /\ sound \in [Processor -> Sound]
      /\ thread \in [Thread -> Local] /\ processor \in [File -> Processor \cup {None}]
      /\ pool \subseteq Processor
  BY DEF GInv, TypeOK
<1>4. /\ NothingPending(f) /\ handler[f].left # 0
      /\ Len(sound[p].input) = 0 /\ ~Passed(t) /\ ~HandsOver(t)
  BY <1>1, <1>2 DEF ConvertOK, NothingPending, Input, At, Passed, HandsOver
<1>5. readable[f] # frames[f]
  BY <1>1, <1>2, <1>4, GaplessAssumption DEF FillCount, InputPos
<1>6. /\ handler'[f].exists /\ handler'[f].left = 0
      /\ handler'[f].output = handler[f].output /\ handler'[f].complete
      /\ handler' \in [File -> Handler]
      /\ \A g \in File : g # f => handler'[g] = handler[g]
  <2>1. handler' = [handler EXCEPT ![f] = [handler[f] EXCEPT !.left = 0, !.complete = TRUE]]
    BY <1>1, <1>2, <1>3
  <2>2. [handler[f] EXCEPT !.left = 0, !.complete = TRUE] \in Handler
    BY <1>2, Ended
  <2> QED BY <1>2, <1>3, <2>1, <2>2 DEF Handler, Live
<1>7. /\ \A u \in Thread : u # t => thread'[u] = thread[u]
      /\ thread'[t] = Resting
  BY <1>1, <1>3
<1>8. \A g \in File : /\ Busy(g) /\ g # f => Busy(g)'
                      /\ Receiving(g) => Receiving(g)'
                      /\ HandingOver(g) => HandingOver(g)'
  BY <1>4, <1>7, OthersGoOn
<1>9. \A g \in File : g # f => processor[g] # p
  BY <1>1, <1>4, OnlyUser DEF At
<1>10. /\ pool' \subseteq pool \cup ({p} \ {None})
       /\ sound' = IF p = None THEN sound ELSE [sound EXCEPT ![p] = Fresh]
  BY <1>1, Returned
<1>11. /\ OneUserPerProcessor' /\ UnusedIsFresh'
       /\ \A r \in Processor : r # p => sound'[r] = sound[r]
  BY <1>1, <1>2, <1>3, <1>9, <1>10, <1>8, OwnerGone
<1>12. sound' \in [Processor -> Sound] /\ thread' \in [Thread -> Local]
  <2>1. Fresh \in Sound /\ Resting \in Local
    BY GaplessAssumption DEF Fresh, Sound, Resting, Local
  <2> QED BY <1>1, <1>3, <2>1, Returned
<1>13. TypeOK' /\ FilesOK'
  <2>1. pool' \subseteq Processor /\ processor' \in [File -> Processor \cup {None}]
    BY <1>1, <1>2, <1>3, <1>10
  <2> QED BY <1>1, <1>6, <1>12, <2>1 DEF GInv, TypeOK, FilesOK, input_vars
<1>14. HandlerOK(f)' /\ OutputOK(f)'
  <2>1. OutputOK(f)
    BY <1>2 DEF GInv
  <2>2. HandlerOK(f)'
    BY <1>6 DEF HandlerOK, Live
  <2>3. OutputOK(f)'
    BY <1>1, <1>5, <1>6, <2>1 DEF OutputOK, Out, input_vars
  <2> QED BY <2>2, <2>3
<1>15. ASSUME NEW g \in File, g # f PROVE HandlerOK(g)' /\ OutputOK(g)'
  <2>1. processor[g] # None => processor[g] \in Processor /\ processor[g] # p
    BY <1>3, <1>9, <1>15
  <2>2. processor'[g] = processor[g]
    BY <1>1, <1>3, <1>15
  <2> QED BY <1>1, <1>6, <1>11, <1>15, <1>8, <2>1, <2>2, FileKept
<1>16. ThreadOK(t)'
  BY <1>7 DEF ThreadOK, At, Resting
<1>17. \A u \in Thread : u # t => ThreadOK(u)'
  <2>1. ~At(t, "idle")
    BY <1>1 DEF At
  <2>2. \A g \in File : /\ handler[g].exists => handler'[g].exists
                        /\ g # f => handler'[g] = handler[g] /\ processor'[g] = processor[g]
    BY <1>1, <1>3, <1>6
  <2> QED BY <1>1, <1>4, <1>7, <1>11, <2>1, <2>2, OthersKept
<1>18. Locked'
  BY <1>7, LockKept DEF Resting
<1> QED BY <1>11, <1>13, <1>14, <1>15, <1>16, <1>17, <1>18 DEF GInv
-----------------------------------------------------------------------------
(* Looking for the next file.                                              *)

LEMMA GotoFacts ==
  ASSUME GInv, NEW t \in Thread, NEW place \in {"write", "passover", "assign", "fill_next"},
         Goto(t, place)
  PROVE  /\ thread' \in [Thread -> Local]
         /\ thread'[t].file = thread[t].file /\ thread'[t].count = thread[t].count
         /\ thread'[t].passed = thread[t].passed /\ thread'[t].pc = place
         /\ \A u \in Thread : u # t => thread'[u] = thread[u]
         /\ Locked'
<1>1. thread \in [Thread -> Local] /\ thread[t] \in Local
  BY DEF GInv, TypeOK
<1>2. thread' = [thread EXCEPT ![t] = [thread[t] EXCEPT !.pc = place]]
  BY <1>1 DEF Goto
<1>3. [thread[t] EXCEPT !.pc = place] \in Local
  BY <1>1 DEF Local
<1>4. \A u \in Thread : thread'[u].file = thread[u].file
  BY <1>1, <1>2
<1> QED BY <1>1, <1>2, <1>3, <1>4, LockKept DEF Local

\* The thread takes what it collected on to the next step, with the next file
\* if it has one.
LEMMA GoesOnWithFile ==
  ASSUME GInv, NEW t \in Thread, NEW f, f = Convert(t),
         NEW place \in {"write", "passover", "assign"},
         At(t, "next") \/ At(t, "passover"), Goto(t, place), UNCHANGED input_vars,
         /\ handler'[f] = handler[f] /\ processor'[f] = processor[f]
         /\ sound'[processor[f]] = sound[processor[f]],
         place # "write" => f + 1 \in File /\ handler'[f + 1].exists,
         place = "assign" => Untouched(f + 1)'
  PROVE  ThreadOK(t)'
<1>1. /\ thread'[t].file = thread[t].file /\ thread'[t].count = thread[t].count
      /\ thread'[t].passed = thread[t].passed /\ thread'[t].pc = place
  BY GotoFacts
<1>2. ConvertOK(t, f)
  BY InCall DEF At
<1>3. ~thread[t].passed /\ Collected(t, f)
  BY <1>2 DEF ConvertOK, At
<1>4. handler[f].left = 0 /\ thread[t].count < Fragment
  BY <1>3 DEF Collected, At
<1>5. Collected(t, f)'
  BY <1>1, <1>3, <1>4 DEF Collected, Input, OutputPos, Out, Position, input_vars
<1>6. ConvertOK(t, f)'
  BY <1>1, <1>2, <1>3, <1>5 DEF ConvertOK, Live, NextObtained, Passed, At
<1> QED BY <1>1, <1>6 DEF ThreadOK, At, Convert

\* A step that only moves the thread on.
LEMMA MovesOn ==
  ASSUME GInv, Undisturbed, NEW t \in Thread, NEW place \in {"write", "passover", "assign"},
         At(t, "next") \/ At(t, "passover"), Goto(t, place),
         UNCHANGED <<input_vars, handler, processor, sound, pool>>,
         place # "write" => Convert(t) + 1 \in File /\ handler[Convert(t) + 1].exists,
         place = "assign" => Untouched(Convert(t) + 1)
  PROVE  GInv'
<1> PICK f : f = Convert(t)
  OBVIOUS
<1>1. /\ thread' \in [Thread -> Local] /\ thread'[t].file = thread[t].file
      /\ \A u \in Thread : u # t => thread'[u] = thread[u]
      /\ Locked'
  BY GotoFacts
<1>2. ~Passed(t)
  <2>1. ConvertOK(t, f)
    BY InCall DEF At
  <2> QED BY <2>1 DEF Passed, At
<1>3. \A g : /\ Busy(g) => Busy(g)'
             /\ Receiving(g) => Receiving(g)'
             /\ HandingOver(g) => HandingOver(g)'
  BY <1>1, <1>2, GoesOn
<1>4. TypeOK' /\ FilesOK'
  BY <1>1 DEF GInv, TypeOK, FilesOK, input_vars
<1>5. OneUserPerProcessor' /\ UnusedIsFresh'
  BY <1>3, OwnersKept
<1>6. \A g \in File : HandlerOK(g)' /\ OutputOK(g)'
  BY <1>3, FileKept
<1>7. place = "assign" => Untouched(f + 1)'
  BY DEF Untouched, Out, Position
<1>8. ThreadOK(t)'
  BY <1>7, GoesOnWithFile
<1>9. \A u \in Thread : u # t => ThreadOK(u)'
  BY <1>1, OthersKept DEF At
<1> QED BY <1>1, <1>4, <1>5, <1>6, <1>8, <1>9 DEF GInv

LEMMA NoNextFileKeeps ==
  ASSUME GInv, Undisturbed, NEW t \in Thread, NoNextFile(t)
  PROVE  GInv'
BY MovesOn DEF NoNextFile

LEMMA NextFileKeeps ==
  ASSUME GInv, Undisturbed, NEW t \in Thread, NextFile(t)
  PROVE  GInv'
<1> PICK f : f = Convert(t)
  OBVIOUS
<1>1. At(t, "next") /\ f + 1 \in File /\ Goto(t, "passover")
  BY DEF NextFile
<1>2. CASE handler[f + 1].exists /\ UNCHANGED <<input_vars, handler, processor, sound, pool>>
  BY <1>1, <1>2, MovesOn
<1>3. CASE Create(f + 1)
  <2>1. /\ thread' \in [Thread -> Local]
        /\ thread'[t].file = thread[t].file
        /\ \A u \in Thread : u # t => thread'[u] = thread[u]
        /\ Locked'
    BY <1>1, GotoFacts
  <2>2. ConvertOK(t, f) /\ f \in File /\ Live(f) /\ processor[f] \in Processor
    BY <1>1, InCall DEF At
  <2>3. ~Passed(t)
    BY <1>1, <2>2 DEF ConvertOK, Passed, At
  <2>4. \A g : /\ Busy(g) => Busy(g)'
               /\ Receiving(g) => Receiving(g)'
               /\ HandingOver(g) => HandingOver(g)'
    BY <2>1, <2>3, GoesOn
  <2>5. /\ handler' \in [File -> Handler] /\ pool' \subseteq Processor
        /\ processor' \in [File -> Processor \cup {None}]
        /\ UNCHANGED <<input_vars, sound>>
        /\ handler'[f + 1].exists
        /\ handler'[f] = handler[f] /\ processor'[f] = processor[f]
        /\ \A g \in File : handler[g].exists =>
             handler'[g] = handler[g] /\ processor'[g] = processor[g]
        /\ OneUserPerProcessor' /\ UnusedIsFresh'
        /\ \A g \in File : HandlerOK(g)' /\ OutputOK(g)'
    BY <1>1, <1>3, <2>2, <2>4, CreateKeepsFiles DEF Live
  <2>6. TypeOK' /\ FilesOK'
    BY <2>1, <2>5 DEF GInv, TypeOK, FilesOK, input_vars
  <2>7. ThreadOK(t)'
    BY <1>1, <2>5, GoesOnWithFile
  <2>8. \A u \in Thread : u # t => ThreadOK(u)'
    BY <1>1, <2>1, <2>5, OthersKept DEF At
  <2> QED BY <2>1, <2>5, <2>6, <2>7, <2>8 DEF GInv
<1> QED BY <1>2, <1>3 DEF NextFile

LEMMA PassoverRefusedKeeps ==
  ASSUME GInv, Undisturbed, NEW t \in Thread, PassoverRefused(t)
  PROVE  GInv'
BY MovesOn DEF PassoverRefused

\* A file that has not started was neither read nor written.
LEMMA PassoverAcceptedKeeps ==
  ASSUME GInv, Undisturbed, Undisturbed', NEW t \in Thread, PassoverAccepted(t)
  PROVE  GInv'
<1> PICK f : f = Convert(t)
  OBVIOUS
<1> DEFINE g == f + 1
<1>1. /\ At(t, "passover") /\ ~HasStarted(g) /\ Goto(t, "assign")
      /\ UNCHANGED <<input_vars, handler, processor, sound, pool>>
  BY DEF PassoverAccepted
<1>2. ConvertOK(t, f) /\ f \in File /\ f \in Int
  BY <1>1, InCall DEF At
<1>3. g \in File /\ handler[g].exists /\ ~Passed(t) /\ g # f
  BY <1>1, <1>2 DEF ConvertOK, NextObtained, Passed, At
<1> HIDE DEF g
<1>4. /\ HandlerOK(g) /\ handler[g] \in Handler /\ handler[g].left = frames[g]
      /\ frames[g] >= 1 /\ readable[g] >= 1 /\ frames[g] \in Nat /\ readable[g] \in Nat
      /\ processor[g] \in Processor \cup {None}
  BY <1>1, <1>3, GaplessAssumption DEF GInv, TypeOK, FilesOK, HasStarted
<1>5. Live(g) /\ Position(g) \in Nat /\ Position(g) = 0
  BY <1>3, <1>4 DEF HandlerOK, Live, Position, Handler
<1>6. ~Busy(g)
  <2>1. /\ thread'[t].file = f /\ thread'[t].pc = "assign"
        /\ \A u \in Thread : u # t => thread'[u] = thread[u]
    BY <1>1, GotoFacts DEF Convert
  <2>2. \A u \in Thread : Convert(u)' = Convert(u)
    BY <2>1 DEF Convert
  <2>3. HandsOver(t)' /\ Convert(t)' = f
    BY <2>1 DEF HandsOver, At, Convert
  <2> QED BY <1>2, <2>2, <2>3 DEF Undisturbed, Busy, g
<1>7. ~Receiving(g)
  <2> SUFFICES ASSUME NEW u \in Thread, Convert(u) \in File, g = Convert(u) + 1, Passed(u)
               PROVE  FALSE
    BY DEF Receiving
  <2>1. Convert(u) = f
    BY <1>2 DEF g, File
  <2> QED BY <1>2, <1>3, <2>1 DEF GInv, Locked
<1>8. NothingPending(g) \/ Half(g)
  BY <1>4, <1>5, <1>6, <1>7 DEF HandlerOK
<1>9. sound[processor[g]] \in Sound /\ handler[g].output \in Seq(Frame)
  BY <1>4, <1>5 DEF HandlerOK, Handler, GInv, TypeOK
<1>10. Len(Input(g)) \in Nat /\ Out(g) \in Nat
  BY <1>9 DEF Input, Out, Sound
<1>11. Untouched(g)
  BY <1>4, <1>5, <1>8, <1>10, GaplessAssumption DEF Untouched, NothingPending, Half, Live
<1> QED BY <1>1, <1>3, <1>11, MovesOn DEF g
-----------------------------------------------------------------------------
(* Handing over.                                                           *)

LEMMA AssignKeeps ==
  ASSUME GInv, Undisturbed, NEW t \in Thread, Assign(t)
  PROVE  GInv'
<1> PICK f : f = Convert(t)
  OBVIOUS
<1> DEFINE next == f + 1
           p == processor[f]
           old == processor[f + 1]
<1>1. /\ At(t, "assign") /\ Goto(t, "fill_next")
      /\ Return(sound, old)
      /\ processor' = [processor EXCEPT ![next] = p]
      /\ UNCHANGED <<input_vars, handler>>
  BY DEF Assign
<1>2. ConvertOK(t, f) /\ f \in File /\ f \in Int /\ Live(f) /\ p \in Processor
  BY <1>1, InCall DEF At
<1>3. /\ next \in File /\ handler[next].exists /\ Untouched(next) /\ ~Passed(t) /\ HandsOver(t)
      /\ next # f /\ ~thread[t].passed /\ Collected(t, f)
  BY <1>1, <1>2 DEF ConvertOK, NextObtained, HandsOver, Passed, At
<1>4. /\ handler \in [File -> Handler] /\ sound \in [Processor -> Sound]
      /\ processor \in [File -> Processor \cup {None}] /\ pool \subseteq Processor
  BY DEF GInv, TypeOK
<1>5. HandlerOK(next) /\ OutputOK(next) /\ Live(next) /\ old \in Processor /\ old # None
  BY <1>3, <1>4, GaplessAssumption DEF GInv, HandlerOK, Live, Untouched
<1>6. /\ thread' \in [Thread -> Local]
      /\ thread'[t].file = f /\ thread'[t].count = thread[t].count
      /\ ~thread'[t].passed /\ thread'[t].pc = "fill_next"
      /\ \A u \in Thread : u # t => thread'[u] = thread[u]
      /\ Locked'
  BY <1>1, <1>3, GotoFacts DEF Convert
<1>7. Passed(t)' /\ Convert(t)' = f
  BY <1>6 DEF Passed, At, Convert
<1>8. \A g \in File : /\ Busy(g) => Busy(g)'
                      /\ Receiving(g) => Receiving(g)'
                      /\ HandingOver(g) => HandingOver(g)'
  BY <1>3, <1>6, GoesOn DEF Convert
<1>9. HandingOver(f)' /\ Busy(f)' /\ Receiving(next)'
  BY <1>2, <1>7 DEF HandingOver, Busy, Receiving, Passed
<1>10. \A g \in File : /\ g # f => processor[g] # p
                       /\ g # next => processor[g] # old
  <2>1. \A g \in File : g # f => processor[g] # p
    BY <1>1, <1>3, OnlyUser DEF At
  <2>2. \A g \in File : g # f /\ g # next => processor[g] # old
    BY <1>3, <1>5, OnlyUserOfNext
  <2> QED BY <1>3, <2>1, <2>2
<1>11. /\ processor'[next] = p
       /\ \A g \in File : g # next => processor'[g] = processor[g]
  BY <1>1, <1>3, <1>4
<1>12. /\ pool' \subseteq pool \cup {old}
       /\ sound' = [sound EXCEPT ![old] = Fresh]
  BY <1>1, <1>5, Returned
<1>13. old # p
  BY <1>3, <1>10
<1> HIDE DEF next, old, p
<1>14. Used' = Used \ {old}
  <2>1. \A g \in File : g # next => processor[g] # old
    BY <1>10
  <2>2. processor[next] = old /\ processor[f] = p /\ processor'[f] = p
    BY <1>2, <1>3, <1>11 DEF old, next, p
  <2> QED BY <1>2, <1>3, <1>11, <1>13, <2>1, <2>2 DEF Used
<1>15. UnusedIsFresh'
  <2> SUFFICES ASSUME NEW q \in Processor, q \notin Used' PROVE sound'[q] = Fresh
    BY DEF UnusedIsFresh
  <2>1. CASE q = old
    BY <1>4, <1>12, <2>1
  <2>2. CASE q # old
    BY <1>4, <1>12, <1>14, <2>2 DEF GInv, UnusedIsFresh
  <2> QED BY <2>1, <2>2
<1>16. OneUserPerProcessor'
  <2>1. Used' \cap pool' = {}
    BY <1>12, <1>14 DEF GInv, OneUserPerProcessor
  <2>2. ASSUME NEW a \in File, NEW b \in File, a < b, processor'[a] = processor'[b],
               processor'[a] # None
        PROVE  b = a + 1 /\ HandingOver(a)'
    <3>1. a # b
      BY <2>2 DEF File
    <3>2. CASE a # next /\ b # next
      <4>1. b = a + 1 /\ HandingOver(a)
        BY <1>11, <2>2, <3>2 DEF GInv, OneUserPerProcessor
      <4> QED BY <1>8, <4>1
    <3>3. CASE b = next
      <4>1. a = f
        BY <1>10, <1>11, <2>2, <3>1, <3>3
      <4> QED BY <1>9, <3>3, <4>1 DEF next
    <3>4. CASE a = next
      <4>1. b = f
        BY <1>10, <1>11, <2>2, <3>1, <3>4
      <4> QED BY <1>2, <2>2, <3>4, <4>1 DEF next
    <3> QED BY <3>2, <3>3, <3>4
  <2> QED BY <2>1, <2>2 DEF OneUserPerProcessor
<1>17. TypeOK' /\ FilesOK'
  <2>1. Fresh \in Sound
    BY GaplessAssumption DEF Fresh, Sound
  <2>2. sound' \in [Processor -> Sound] /\ pool' \subseteq Processor
    BY <1>4, <1>5, <1>12, <2>1
  <2>3. processor' \in [File -> Processor \cup {None}]
    BY <1>1, <1>2, <1>4
  <2> QED BY <1>1, <1>6, <2>2, <2>3 DEF GInv, TypeOK, FilesOK, input_vars
<1>18. HandlerOK(next)' /\ OutputOK(next)'
  <2>1. OutputOK(next)'
    BY <1>1, <1>5 DEF OutputOK, Out, input_vars
  <2>2. handler[next].left = frames[next] /\ frames[next] >= 1 /\ frames[next] \in Nat
    <3>1. frames[next] \in Nat /\ frames[next] >= 1
      BY <1>3, GaplessAssumption DEF GInv, FilesOK, TypeOK
    <3> QED BY <1>3, <1>5, <3>1 DEF HandlerOK, Untouched
  <2>3. p # None
    BY <1>2, GaplessAssumption
  <2> QED BY <1>1, <1>5, <1>9, <1>11, <2>1, <2>2, <2>3
      DEF HandlerOK, Live, Position, input_vars
<1>19. ASSUME NEW g \in File, g # next PROVE HandlerOK(g)' /\ OutputOK(g)'
  <2>1. processor[g] # None => processor[g] \in Processor /\ processor[g] # old
    BY <1>4, <1>10, <1>19
  <2> QED BY <1>1, <1>4, <1>8, <1>11, <1>12, <1>19, <2>1, FileKept
<1>20. ThreadOK(t)'
  <2>1. sound'[p] = sound[p] /\ processor'[f] = p /\ processor[f] = p
    BY <1>2, <1>3, <1>4, <1>11, <1>12, <1>13 DEF p
  <2>2. Collected(t, f)'
    BY <1>1, <1>3, <1>6, <2>1 DEF Collected, Input, OutputPos, Out, Position, At, input_vars
  <2>3. Untouched(next)'
    BY <1>1, <1>3 DEF Untouched, Out, Position
  <2>4. ConvertOK(t, f)'
    BY <1>1, <1>2, <1>3, <1>6, <1>11, <2>1, <2>2, <2>3
       DEF ConvertOK, Live, NextObtained, Passed, At, next
  <2> QED BY <1>6, <2>4 DEF ThreadOK, At, Convert
<1>21. \A u \in Thread : u # t => ThreadOK(u)'
  <2>1. ~At(t, "idle")
    BY <1>1 DEF At
  <2>2. \A q \in Processor : q # processor[f + 1] => sound'[q] = sound[q]
    BY <1>4, <1>12 DEF old
  <2>3. \A g \in File : g # f + 1 => processor'[g] = processor[g]
    BY <1>11 DEF next
  <2> QED BY <1>1, <1>3, <1>6, <2>1, <2>2, <2>3, OthersKept
<1> QED BY <1>6, <1>15, <1>16, <1>17, <1>18, <1>19, <1>20, <1>21 DEF GInv

LEMMA FillNextKeeps ==
  ASSUME GInv, Undisturbed, NEW t \in Thread, FillNext(t)
  PROVE  GInv'
<1> PICK f : f = Convert(t)
  OBVIOUS
<1> DEFINE next == f + 1
           p == processor[f]
           s == sound[processor[f]]
           n == FillCount(s, f + 1, 0)
           filled == Filled(s, f + 1, 0)
           count == thread[t].count
<1>1. At(t, "fill_next") /\ UNCHANGED <<input_vars, processor, pool>>
  BY DEF FillNext
<1>2. /\ ConvertOK(t, f) /\ f \in File /\ f \in Int /\ Live(f) /\ handler[f].left = 0
      /\ p \in Processor /\ s \in Sound /\ thread[t] \in Local
      /\ Collected(t, f) /\ count \in Nat /\ count < Fragment
  <2>1. ConvertOK(t, f) /\ f \in File /\ f \in Int /\ Live(f)
    BY <1>1, InCall DEF At
  <2>2. p \in Processor /\ s \in Sound /\ thread[t] \in Local
    BY <1>1, InCall DEF At
  <2>3. Collected(t, f) /\ handler[f].left = 0 /\ count < Fragment
    BY <1>1, <2>1 DEF ConvertOK, Collected, At
  <2> QED BY <2>1, <2>2, <2>3 DEF Local
<1>3. /\ next \in File /\ handler[next].exists /\ Untouched(next) /\ processor[next] = p
      /\ Passed(t) /\ HandsOver(t) /\ next # f /\ ~thread[t].passed
  BY <1>1, <1>2 DEF ConvertOK, NextObtained, HandsOver, Passed, At
<1>4. /\ handler \in [File -> Handler] /\ sound \in [Processor -> Sound]
      /\ thread \in [Thread -> Local] /\ handler[next] \in Handler
  BY <1>3 DEF GInv, TypeOK
<1>5. /\ HandlerOK(next) /\ OutputOK(next) /\ Live(next)
      /\ handler[next].left = frames[next] - 0 /\ handler[next].position = 0
      /\ frames[next] \in Nat /\ readable[next] \in Nat
  BY <1>3, GaplessAssumption DEF GInv, TypeOK, HandlerOK, Live, Untouched, Position
<1>6. Fragment \in Nat /\ Len(s.input) = count /\ count >= 1
  BY <1>2, <1>3, GaplessAssumption DEF Collected, Input
<1>7. /\ n \in Nat /\ n <= Fragment - count /\ n <= readable[next]
      /\ filled \in Sound /\ filled.output_pos = -1
      /\ Len(filled.input) = count + n
      /\ \A j \in 1 .. count : filled.input[j] = s.input[j]
      /\ \A j \in 1 .. n : filled.input[count + j] = <<next, j>>
      /\ count + n = Fragment \/ n = readable[next]
  <2> HIDE DEF p, s
  <2>1. /\ s \in Sound /\ next \in File /\ 0 \in Nat /\ readable[next] \in Nat
        /\ 0 <= readable[next] /\ Len(s.input) <= Fragment
    BY <1>2, <1>3, <1>5, <1>6
  <2>2. /\ n \in Nat /\ n <= Fragment - Len(s.input) /\ 0 + n <= readable[next]
        /\ filled \in Sound /\ filled.output_pos = -1
        /\ Len(filled.input) = Len(s.input) + n
        /\ \A j \in 1 .. Len(s.input) : filled.input[j] = s.input[j]
        /\ \A j \in 1 .. n : filled.input[Len(s.input) + j] = <<next, 0 + j>>
        /\ Len(filled.input) = Fragment \/ 0 + n = readable[next]
    BY <2>1, FilledBehind, Zenon
  <2> HIDE DEF n, filled, count
  <2>3. 0 + n = n /\ \A j \in 1 .. n : 0 + j = j
    BY <2>2
  <2> QED BY <1>5, <1>6, <2>2, <2>3
<1>8. /\ sound' = [sound EXCEPT ![p] = filled]
      /\ handler' = [handler EXCEPT ![next].position = @ + n, ![next].left = @ - n]
      /\ thread' = [thread EXCEPT ![t].pc = "write", ![t].passed = TRUE]
  BY <1>2, <1>3, <1>5, <1>6 DEF FillNext, is_input_buffer_complete, InputPos
<1> HIDE DEF n, filled, s
<1>9. /\ sound' \in [Processor -> Sound] /\ sound'[p] = filled
      /\ \A r \in Processor : r # p => sound'[r] = sound[r]
  BY <1>2, <1>4, <1>7, <1>8
<1> HIDE DEF p
<1>10. /\ handler'[next].exists /\ ~handler'[next].complete
       /\ handler'[next].left = frames[next] - n
       /\ handler'[next].output = handler[next].output
       /\ handler'[next].position = n
       /\ handler' \in [File -> Handler]
       /\ \A g \in File : g # next => handler'[g] = handler[g]
  <2> HIDE DEF next
  <2>1. handler[next].position + n \in Nat /\ handler[next].left - n \in Int
    BY <1>5, <1>7
  <2>2. handler' = [handler EXCEPT ![next] = [handler[next] EXCEPT
                      !.position = handler[next].position + n,
                      !.left = handler[next].left - n]]
    BY <1>3, <1>4, <1>8
  <2>3. [handler[next] EXCEPT !.position = handler[next].position + n,
                              !.left = handler[next].left - n] \in Handler
    BY <1>4, <2>1, Progressed
  <2> QED BY <1>3, <1>4, <1>5, <1>7, <2>2, <2>3 DEF Handler, Live
<1>11. /\ thread' \in [Thread -> Local]
       /\ thread'[t].file = f /\ thread'[t].count = count
       /\ thread'[t].passed /\ thread'[t].pc = "write"
       /\ \A u \in Thread : u # t => thread'[u] = thread[u]
  BY <1>2, <1>4, <1>8 DEF Local, Convert
<1>12. Passed(t)' /\ Convert(t)' = f
  BY <1>11 DEF Passed, At, Convert
<1>13. \A g : /\ Busy(g) => Busy(g)'
              /\ Receiving(g) => Receiving(g)'
              /\ HandingOver(g) => HandingOver(g)'
  BY <1>11, <1>12, GoesOn DEF Convert
<1>14. TypeOK' /\ FilesOK'
  BY <1>1, <1>9, <1>10, <1>11 DEF GInv, TypeOK, FilesOK, input_vars
<1>15. p \in Used
  BY <1>2, GaplessAssumption DEF Used, p
<1>16. OneUserPerProcessor' /\ UnusedIsFresh'
  BY <1>1, <1>9, <1>13, <1>15, OwnersKept
<1>17. HandlerOK(next)' /\ OutputOK(next)'
  <2>1. Receiving(next)'
    BY <1>2, <1>12 DEF Receiving
  <2>2. p # None /\ processor'[next] = p
    BY <1>1, <1>2, <1>3, GaplessAssumption
  <2>3. frames[next] - n = 0 => frames[next] < Fragment
    BY <1>5, <1>6, <1>7
  <2>4. HandlerOK(next)'
    BY <1>1, <1>7, <1>10, <2>1, <2>2, <2>3 DEF HandlerOK, Live, Position, input_vars
  <2>5. OutputOK(next)'
    BY <1>1, <1>5, <1>10 DEF OutputOK, Out, input_vars
  <2> QED BY <2>4, <2>5
<1>18. HandlerOK(f)' /\ OutputOK(f)'
  <2>1. HandlerOK(f) /\ OutputOK(f) /\ handler'[f] = handler[f] /\ Busy(f)'
    BY <1>2, <1>3, <1>10, <1>12 DEF GInv, Busy
  <2>2. HandlerOK(f)'
    BY <1>1, <2>1 DEF HandlerOK, Live, Position, input_vars
  <2>3. OutputOK(f)'
    BY <1>1, <2>1 DEF OutputOK, Out, input_vars
  <2> QED BY <2>2, <2>3
<1>19. ASSUME NEW g \in File, g # next, g # f PROVE HandlerOK(g)' /\ OutputOK(g)'
  <2>1. processor[g] # None => processor[g] \in Processor /\ processor[g] # p
    <3> SUFFICES ASSUME processor[g] = p PROVE FALSE
      BY DEF GInv, TypeOK
    <3> QED BY <1>1, <1>19, OnlyUser DEF At, p
  <2> QED BY <1>1, <1>9, <1>10, <1>13, <1>19, <2>1, FileKept
<1>20. Collected(t, f)'
  <2>1. handler'[f] = handler[f] /\ Input(f)' = filled.input /\ OutputPos(f)' = -1
    BY <1>1, <1>2, <1>3, <1>7, <1>9, <1>10 DEF Input, OutputPos, p
  <2>2. \A j \in 1 .. count : filled.input[j] = <<f, Out(f) + j>>
    BY <1>2, <1>7 DEF Collected, Input, s, p
  <2>3. Len(filled.input) <= Fragment /\ count <= Len(filled.input)
    <3> HIDE DEF count, next
    <3> QED BY <1>2, <1>6, <1>7
  <2> QED BY <1>1, <1>2, <1>11, <2>1, <2>2, <2>3 DEF Collected, Out, Position, input_vars
<1>21. FilledUp(t, next)'
  <2>1. Input(next)' = filled.input /\ Position(next)' = n /\ Out(next)' = 0
    BY <1>1, <1>3, <1>9, <1>10 DEF Input, Position, Out, Untouched
  <2>2. HoldsFrom(filled.input, count, next, 0)
    <3> SUFFICES ASSUME NEW j \in 1 .. Len(filled.input), j > count
                 PROVE  filled.input[j] = <<next, 0 + j - count>>
      BY DEF HoldsFrom
    <3> DEFINE i == j - count
    <3> HIDE DEF next, count
    <3>1. i \in 1 .. n /\ j = count + i /\ 0 + j - count = i
      BY <1>2, <1>6, <1>7
    <3> QED BY <1>7, <3>1
  <2>3. n = Len(filled.input) - count
    BY <1>2, <1>7
  <2>4. AsFullAsCanBe(next)'
    BY <1>1, <1>7, <2>1 DEF AsFullAsCanBe, input_vars
  <2> QED BY <1>10, <1>11, <2>1, <2>2, <2>3, <2>4 DEF FilledUp
<1>22. ThreadOK(t)'
  <2>1. ConvertOK(t, f)'
    BY <1>1, <1>2, <1>3, <1>10, <1>11, <1>20, <1>21
       DEF ConvertOK, Live, NextObtained, Passed, At, p
  <2> QED BY <1>11, <2>1 DEF ThreadOK, At, Convert
<1>23. \A u \in Thread : u # t => ThreadOK(u)'
  <2>1. ~At(t, "idle")
    BY <1>1 DEF At
  <2>2. \A g \in File : /\ handler[g].exists => handler'[g].exists
                        /\ g # f + 1 => handler'[g] = handler[g]
    BY <1>10
  <2>3. \A q \in Processor : q # processor[f] => sound'[q] = sound[q]
    BY <1>9 DEF p
  <2> QED BY <1>1, <1>3, <1>11, <2>1, <2>2, <2>3, OthersKept
<1>24. Locked'
  BY <1>11, LockKept DEF Convert
<1> QED BY <1>14, <1>16, <1>17, <1>18, <1>19, <1>22, <1>23, <1>24 DEF GInv
-----------------------------------------------------------------------------
(* Writing output.                                                         *)

LEMMA Wrote ==
  ASSUME NEW h \in Handler, NEW out \in Seq(Frame), NEW done \in BOOLEAN
  PROVE  [h EXCEPT !.output = out, !.complete = done] \in Handler
<1>1. [h EXCEPT !.output = out] \in Handler
  BY DEF Handler
<1>2. \A g \in Handler : [g EXCEPT !.complete = done] \in Handler
  BY DEF Handler
<1>3. [h EXCEPT !.output = out, !.complete = done]
        = [[h EXCEPT !.output = out] EXCEPT !.complete = done]
  OBVIOUS
<1> QED BY <1>1, <1>2, <1>3

LEMMA WriteKeeps ==
  ASSUME GInv, Undisturbed, NEW t \in Thread, Write(t)
  PROVE  GInv'
<1> PICK f : f = Convert(t)
  OBVIOUS
<1> DEFINE p == processor[f]
           s == sound[processor[f]]
           n == thread[t].count
           more == Written(sound[processor[f]], thread[t].count)
           out == handler[f].output \o Written(sound[processor[f]], thread[t].count)
           done == handler[f].left = 0
           written == AfterWriting(sound[processor[f]], thread[t].count)
           after == [sound EXCEPT ![processor[f]] = AfterWriting(@, thread[t].count)]
           passed == thread[t].passed
           next == f + 1
<1>1. /\ At(t, "write")
      /\ handler' = [handler EXCEPT ![f].output = @ \o more, ![f].complete = done]
      /\ Return(after, IF done /\ ~passed THEN p ELSE None)
      /\ processor' = [processor EXCEPT ![f] = IF done THEN None ELSE p]
      /\ thread' = [thread EXCEPT ![t] = Resting]
      /\ UNCHANGED input_vars
  BY DEF Write, Rest
<1>2. /\ ConvertOK(t, f) /\ f \in File /\ f \in Int /\ Live(f) /\ handler[f] \in Handler
      /\ p \in Processor /\ s \in Sound
      /\ handler[f].left = frames[f] - Position(f) /\ Position(f) <= readable[f]
      /\ Position(f) \in Nat /\ readable[f] \in Nat /\ frames[f] \in Nat
      /\ thread[t] \in Local
  BY <1>1, InCall DEF At
<1>3. /\ handler \in [File -> Handler] /\ sound \in [Processor -> Sound]
      /\ thread \in [Thread -> Local] /\ processor \in [File -> Processor \cup {None}]
      /\ pool \subseteq Processor
  BY DEF GInv, TypeOK
<1>4. Collected(t, f) /\ n \in Nat /\ Fragment \in Nat /\ passed \in BOOLEAN
  BY <1>1, <1>2, GaplessAssumption DEF ConvertOK, At, Local
<1>5. /\ n >= 1 /\ n <= Fragment /\ OutputPos(f) = -1 /\ WriteFrom(s) = 0
      /\ n <= Len(Input(f)) /\ Len(Input(f)) <= Fragment
      /\ passed => done /\ n < Fragment
  BY <1>1, <1>4 DEF Collected, WriteFrom, OutputPos, At
<1>6. /\ more \in Seq(Frame) /\ Len(more) = n
      /\ \A j \in 1 .. n : more[j] = <<f, Out(f) + j>>
  <2>1. /\ more \in Seq(Frame) /\ Len(more) = n
        /\ \A j \in 1 .. n : more[j] =
             IF 0 + j <= Len(Input(f)) THEN Input(f)[0 + j] ELSE Silence
    <3>1. /\ Written(s, n) \in Seq(Frame) /\ Len(Written(s, n)) = n
          /\ \A j \in 1 .. n : Written(s, n)[j] =
               IF WriteFrom(s) + j <= Len(s.input) THEN s.input[WriteFrom(s) + j] ELSE Silence
      <4> HIDE DEF s, n
      <4> QED BY <1>2, <1>4, WrittenFrames, Zenon
    <3>2. s.input = Input(f) /\ more = Written(s, n)
      BY DEF Input
    <3> HIDE DEF s, n, more
    <3> QED BY <1>5, <3>1, <3>2
  <2>2. Len(Input(f)) \in Nat
    BY <1>2 DEF Input, Sound
  <2> HIDE DEF more, n
  <2>3. \A j \in 1 .. n : more[j] = Input(f)[j]
    BY <1>4, <1>5, <2>1, <2>2
  <2> QED BY <1>4, <2>1, <2>3 DEF Collected, n
<1>7. /\ written \in Sound /\ written.output_pos = n
      /\ written.input = IF n = Fragment THEN <<>> ELSE Input(f)
  <2>1. WriteFrom(s) + n = n
    BY <1>4, <1>5
  <2>2. /\ written \in Sound /\ written.output_pos = WriteFrom(s) + n
        /\ written.input = IF WriteFrom(s) + n = Fragment THEN <<>> ELSE s.input
    BY <1>2, <1>4, <1>5, <2>1, AfterWritingIsSound
  <2> QED BY <2>1, <2>2 DEF Input
<1>8. /\ out \in Seq(Frame) /\ Len(out) = Out(f) + n /\ Out(f) \in Nat
      /\ \A i \in 1 .. Out(f) : out[i] = handler[f].output[i]
      /\ \A j \in 1 .. n : out[Out(f) + j] = <<f, Out(f) + j>>
  <2> DEFINE old == handler[f].output
  <2>1. old \in Seq(Frame) /\ Len(old) = Out(f) /\ out = old \o more
    BY <1>2 DEF Out, Handler
  <2> HIDE DEF old, more, out
  <2>2. /\ old \o more \in Seq(Frame) /\ Len(old \o more) = Len(old) + Len(more)
        /\ \A i \in 1 .. Len(old) : (old \o more)[i] = old[i]
        /\ \A j \in 1 .. Len(more) : (old \o more)[Len(old) + j] = more[j]
    BY <1>6, <2>1, Appended, Zenon
  <2>3. /\ out \in Seq(Frame) /\ Len(out) = Out(f) + n
        /\ \A i \in 1 .. Out(f) : out[i] = old[i]
        /\ \A j \in 1 .. n : out[Out(f) + j] = more[j]
    BY <1>6, <2>1, <2>2, Zenon
  <2>4. Out(f) \in Nat
    BY <2>1
  <2> QED BY <1>6, <2>3, <2>4 DEF old
<1>9. after = [sound EXCEPT ![p] = written] /\ DOMAIN after = Processor
  BY <1>2, <1>3
<1> HIDE DEF more, out, written, after
<1>10. /\ handler'[f].exists /\ handler'[f].left = handler[f].left
       /\ handler'[f].output = out /\ handler'[f].complete = done
       /\ handler'[f].position = Position(f)
       /\ handler' \in [File -> Handler]
       /\ \A g \in File : g # f => handler'[g] = handler[g]
  <2>1. handler' = [handler EXCEPT ![f] =
                      [handler[f] EXCEPT !.output = out, !.complete = done]]
    BY <1>1, <1>2, <1>3 DEF more, out
  <2>2. done \in BOOLEAN
    OBVIOUS
  <2> HIDE DEF done
  <2>3. [handler[f] EXCEPT !.output = out, !.complete = done] \in Handler
    BY <1>2, <1>8, <2>2, Wrote
  <2> QED BY <1>2, <1>3, <2>1, <2>3 DEF Handler, Live, Position
<1>11. /\ thread'[t] = Resting /\ thread' \in [Thread -> Local]
       /\ \A u \in Thread : u # t => thread'[u] = thread[u]
  BY <1>1, <1>3, GaplessAssumption DEF Resting, Local
<1>12. Position(f) = Out(f) + n /\ Len(out) = Position(f)
  BY <1>4, <1>8 DEF Collected
<1>13. OutputOK(f)'
  <2>1. ASSUME NEW i \in 1 .. Len(out)
        PROVE  out[i] = <<f, i>> \/ (i > readable[f] /\ out[i] = Silence)
    <3>1. CASE i \in 1 .. Out(f)
      BY <1>2, <1>8, <3>1 DEF GInv, OutputOK
    <3>2. CASE i \notin 1 .. Out(f)
      <4> DEFINE j == i - Out(f)
      <4>1. j \in 1 .. n /\ i = Out(f) + j
        BY <1>4, <1>8, <3>2
      <4> QED BY <1>8, <4>1
    <3> QED BY <3>1, <3>2
  <2>2. done => Len(out) = frames[f]
    BY <1>2, <1>12
  <2> QED BY <1>1, <1>10, <2>1, <2>2 DEF OutputOK, Out, input_vars
<1>14. \A g \in File : /\ Busy(g) /\ g # f => Busy(g)'
                       /\ HandingOver(g) /\ g # f => HandingOver(g)'
                       /\ Receiving(g) /\ ~(passed /\ g = next) => Receiving(g)'
  <2>1. Passed(t) => passed
    BY <1>1 DEF Passed, At
  <2> QED BY <1>11, <2>1, OthersGoOn
\* Nobody else has p but the file that it was passed to.
<1>15. \A g \in File : g # f /\ processor[g] = p => g = next /\ passed
  BY <1>1, OnlyUser DEF Passed, At
<1>16. passed => /\ next \in File /\ next # f /\ handler[next].exists
                 /\ processor[next] = p /\ FilledUp(t, next)
  BY <1>1, <1>2 DEF ConvertOK, NextObtained, Passed, At
<1>17. p # None /\ \A q \in Processor : q # p => after[q] = sound[q]
  BY <1>2, <1>3, <1>9, GaplessAssumption
\* What becomes of the processor: it stays, was passed on, or is returned.
<1>18. /\ OneUserPerProcessor' /\ UnusedIsFresh'
       /\ pool' \subseteq Processor /\ sound' \in [Processor -> Sound]
       /\ \A q \in Processor : q # p => sound'[q] = sound[q]
       /\ ~done \/ passed => sound'[p] = written
  <2>1. CASE done /\ ~passed
    <3>1. Return(after, p) /\ processor' = [processor EXCEPT ![f] = None]
      BY <1>1, <2>1
    <3>2. /\ \A g \in File : g # f /\ p # None => processor[g] # p
          /\ \A g \in File : g # f /\ HandingOver(g) => HandingOver(g)'
      BY <1>14, <1>15, <2>1
    <3>3. sound' = [after EXCEPT ![p] = Fresh]
      BY <1>17, <3>1, Returned
    <3>4. pool' \subseteq pool \cup ({p} \ {None})
      BY <3>1, Returned
    <3>5. /\ OneUserPerProcessor' /\ UnusedIsFresh'
          /\ \A q \in Processor : q # p => sound'[q] = sound[q]
      BY <1>2, <1>9, <1>17, <3>1, <3>2, <3>3, <3>4, OwnerGone
    <3>6. after \in [Processor -> Sound] /\ Fresh \in Sound
      BY <1>2, <1>3, <1>7, <1>9, GaplessAssumption DEF Fresh, Sound
    <3> QED BY <1>2, <1>3, <2>1, <3>5, <3>3, <3>6, <3>4
  <2>2. CASE ~done \/ passed
    <3>1. UNCHANGED pool /\ sound' = after
      BY <1>1, <2>2 DEF Return
    <3>2. sound' \in [Processor -> Sound] /\ sound'[p] = written
      BY <1>2, <1>3, <1>7, <1>9, <3>1
    <3>3. Used' = Used
      <4>1. CASE ~done
        BY <1>1, <1>2, <1>3, <4>1 DEF Used
      <4>2. CASE done /\ passed
        <5> HIDE DEF next, p
        <5>1. processor'[next] = p /\ processor[f] = p /\ processor[next] = p
          BY <1>1, <1>3, <1>16, <4>2 DEF p
        <5>2. processor'[f] = None /\ \A g \in File : g # f => processor'[g] = processor[g]
          BY <1>1, <1>2, <1>3, <4>2
        <5> QED BY <1>2, <1>16, <4>2, <5>1, <5>2 DEF Used
      <4> QED BY <2>2, <4>1, <4>2
    <3>4. p \in Used
      BY <1>2, <1>17 DEF Used
    <3>5. UnusedIsFresh'
      BY <1>17, <3>1, <3>3, <3>4 DEF GInv, UnusedIsFresh
    <3>6. ASSUME NEW a \in File, NEW b \in File, a < b, processor'[a] = processor'[b],
                 processor'[a] # None
          PROVE  b = a + 1 /\ HandingOver(a)'
      <4>1. a # b /\ processor[a] = processor[b] /\ processor[a] # None
        BY <1>1, <1>2, <1>3, <3>6 DEF File
      <4>2. a = f \/ b = f => passed /\ processor'[f] = None
        BY <1>1, <1>2, <1>3, <1>5, <1>15, <4>1
      <4>3. a # f /\ b # f
        BY <3>6, <4>2
      <4>4. b = a + 1 /\ HandingOver(a)
        BY <3>6, <4>1 DEF GInv, OneUserPerProcessor
      <4> QED BY <1>14, <4>3, <4>4
    <3>7. OneUserPerProcessor'
      BY <3>1, <3>3, <3>6 DEF GInv, OneUserPerProcessor
    <3> QED BY <1>3, <1>17, <3>1, <3>2, <3>5, <3>7
  <2> QED BY <2>1, <2>2
<1>19. TypeOK' /\ FilesOK'
  <2>1. processor' \in [File -> Processor \cup {None}]
    BY <1>1, <1>2, <1>3
  <2> QED BY <1>1, <1>10, <1>11, <1>18, <2>1 DEF GInv, TypeOK, FilesOK, input_vars
<1>20. HandlerOK(f)'
  <2>1. CASE done
    BY <1>10, <2>1 DEF HandlerOK, Live
  <2>2. CASE ~done
    <3>1. processor'[f] = p /\ ~passed
      BY <1>1, <1>2, <1>3, <1>5, <2>2
    <3>2. /\ Input(f)' = written.input /\ OutputPos(f)' = n
          /\ Out(f)' = Position(f) /\ Position(f)' = Position(f)
      BY <1>7, <1>10, <1>12, <1>18, <2>2, <3>1 DEF Input, OutputPos, Out, Position
    <3>3. Len(Input(f)) = n /\ (n = Fragment \/ Position(f) = readable[f])
      BY <1>4, <3>1 DEF Collected
    <3>4. NothingPending(f)' \/ Half(f)'
      <4>1. CASE n = Fragment
        BY <1>7, <3>2, <4>1 DEF NothingPending
      <4>2. CASE n # Fragment
        <5>1. Len(written.input) = n
          BY <1>7, <3>3, <4>2
        <5>2. HoldsFrom(written.input, n, f, Position(f))
          BY <1>4, <5>1 DEF HoldsFrom
        <5>3. AsFullAsCanBe(f)'
          BY <1>1, <3>2, <3>3, <4>2 DEF AsFullAsCanBe, input_vars
        <5>4. Position(f) = Position(f) + n - n
          BY <1>2, <1>4
        <5>5. n \in 0 .. n /\ n < Fragment /\ n <= Fragment
          BY <1>4, <1>5, <4>2
        <5> HIDE DEF n
        <5> QED BY <3>2, <5>1, <5>2, <5>3, <5>4, <5>5 DEF Half
      <4> QED BY <4>1, <4>2
    <3> QED BY <1>1, <1>2, <1>10, <1>17, <2>2, <3>1, <3>4
        DEF HandlerOK, Live, Position, input_vars
  <2> QED BY <2>1, <2>2
<1>21. ASSUME NEW g \in File, g # f, ~(passed /\ g = next)
       PROVE  HandlerOK(g)' /\ OutputOK(g)'
  <2>1. processor[g] # None => processor[g] \in Processor /\ processor[g] # p
    BY <1>3, <1>15, <1>21
  <2>2. processor'[g] = processor[g]
    BY <1>1, <1>3, <1>21
  <2>3. (Busy(g) => Busy(g)') /\ (Receiving(g) => Receiving(g)')
    BY <1>14, <1>21
  <2> QED BY <1>1, <1>10, <1>18, <1>21, <2>1, <2>2, <2>3, FileKept
<1>22. ASSUME passed PROVE HandlerOK(next)' /\ OutputOK(next)'
  <2> HIDE DEF next
  <2>1. /\ next \in File /\ next # f /\ handler[next].exists /\ processor[next] = p
        /\ FilledUp(t, next) /\ done /\ n < Fragment
    BY <1>5, <1>16, <1>22
  <2>2. HandlerOK(next) /\ OutputOK(next) /\ ~Busy(next)
    <3>1. HandsOver(t)
      BY <1>1, <1>22 DEF HandsOver, Passed
    <3> QED BY <1>2, <2>1, <3>1 DEF GInv, Undisturbed, Busy, next
  <2>3. handler'[next] = handler[next] /\ processor'[next] = p
    BY <1>1, <1>3, <1>10, <2>1
  <2>4. /\ Input(next)' = Input(next) /\ Input(next) = Input(f) /\ OutputPos(next)' = n
        /\ Out(next)' = 0 /\ Out(next) = 0 /\ Position(next)' = Position(next)
    <3>1. sound'[p] = written /\ written.input = Input(f) /\ written.output_pos = n
      BY <1>4, <1>7, <1>18, <1>22, <2>1
    <3>2. Input(next)' = written.input /\ OutputPos(next)' = n /\ Input(next) = Input(f)
      BY <2>1, <2>3, <3>1 DEF Input, OutputPos
    <3>3. Out(next) = 0
      BY <2>1 DEF FilledUp
    <3> QED BY <2>3, <3>1, <3>2, <3>3 DEF Out, Position
  <2>5. /\ Position(next) = Len(Input(next)) - n
        /\ HoldsFrom(Input(next), n, next, 0) /\ AsFullAsCanBe(next)
    BY <2>1 DEF FilledUp
  <2>6. AsFullAsCanBe(next)'
    BY <1>1, <2>4, <2>5 DEF AsFullAsCanBe, input_vars
  <2>7. Len(Input(next)) \in Nat /\ n \in 0 .. Len(Input(next))
    BY <1>2, <1>4, <1>5, <2>4 DEF Input, Sound
  <2>8. Half(next)'
    <3> HIDE DEF n
    <3>1. Len(Input(next)) - n = 0 + Len(Input(next)) - n /\ Len(Input(next)) <= Fragment
      BY <1>5, <2>4, <2>7
    <3> QED BY <2>1, <2>4, <2>5, <2>6, <2>7, <3>1 DEF Half
  <2>9. HandlerOK(next)'
    <3>1. Live(next)' = Live(next) /\ Position(next)' = Position(next)
      BY <2>3 DEF Live, Position
    <3>2. frames' = frames /\ readable' = readable /\ processor'[next] # None
      BY <1>1, <1>17, <2>3 DEF input_vars
    <3> QED BY <2>1, <2>2, <2>3, <2>8, <3>1, <3>2 DEF HandlerOK
  <2>10. OutputOK(next)'
    BY <1>1, <2>2, <2>3 DEF OutputOK, Out, input_vars
  <2> QED BY <2>9, <2>10
<1>23. ThreadOK(t)'
  BY <1>11 DEF ThreadOK, At, Resting
<1>24. \A u \in Thread : u # t => ThreadOK(u)'
  <2>1. ~At(t, "idle")
    BY <1>1 DEF At
  <2>2. \A g \in File : /\ handler[g].exists => handler'[g].exists
                        /\ g # f => handler'[g] = handler[g] /\ processor'[g] = processor[g]
    BY <1>1, <1>3, <1>10
  <2> QED BY <1>1, <1>11, <1>18, <2>1, <2>2, OthersKept
<1>25. Locked'
  BY <1>11, LockKept DEF Resting
<1> QED BY <1>2, <1>13, <1>18, <1>19, <1>20, <1>21, <1>22, <1>23, <1>24, <1>25 DEF GInv
-----------------------------------------------------------------------------
(* Theorems.                                                               *)

LEMMA NextKeepsGInv == GInv /\ Undisturbed /\ Undisturbed' /\ [Next]_vars => GInv'
<1> SUFFICES ASSUME GInv, Undisturbed, Undisturbed', [Next]_vars PROVE GInv'
  OBVIOUS
<1>1. CASE UNCHANGED vars
  <2>1. UNCHANGED <<frames, readable, input_vars, handler, processor, sound, pool, thread>>
    BY <1>1 DEF vars, input_vars
  <2>2. TypeOK' /\ FilesOK'
    BY <2>1 DEF GInv, TypeOK, FilesOK
  <2>3. \A g : /\ Busy(g) => Busy(g)'
               /\ Receiving(g) => Receiving(g)'
               /\ HandingOver(g) => HandingOver(g)'
    BY <2>1 DEF Busy, Receiving, HandingOver, Passed, At, Convert
  <2>4. OneUserPerProcessor' /\ UnusedIsFresh'
    BY <2>1, <2>3, OwnersKept
  <2>5. \A f \in File : HandlerOK(f)' /\ OutputOK(f)'
    BY <2>1, <2>3, FileKept
  <2>6. ASSUME NEW t \in Thread PROVE ThreadOK(t)'
    <3>1. NextObtained(t) => handler[Convert(t) + 1].exists
      BY InCall DEF ConvertOK, NextObtained, Passed, At
    <3> QED BY <2>1, <3>1, ThreadKept
  <2>7. Locked'
    BY <2>1, LockKept
  <2> QED BY <2>2, <2>4, <2>5, <2>6, <2>7 DEF GInv
<1>2. ASSUME NEW f \in File, Open(f) \/ Destroy(f) PROVE GInv'
  BY <1>2, OpenKeeps, DestroyKeeps
<1>3. ASSUME NEW t \in Thread, AddMoreSoundData(t) PROVE GInv'
  <2>1. ASSUME NEW f \in File, NothingLeft(t, f) \/ WritePending(t, f) \/ BeginFill(t, f)
        PROVE  GInv'
    BY <2>1, NothingLeftKeeps, WritePendingKeeps, BeginFillKeeps
  <2>2. CASE Fill(t) \/ PrematureEOF(t)
    BY <2>2, FillKeeps, PrematureEOFKeeps
  <2>3. CASE \/ NoNextFile(t) \/ NextFile(t)
             \/ PassoverRefused(t) \/ PassoverAccepted(t)
    BY <2>3, NoNextFileKeeps, NextFileKeeps, PassoverRefusedKeeps, PassoverAcceptedKeeps
  <2>4. CASE Assign(t) \/ FillNext(t) \/ Write(t)
    BY <2>4, AssignKeeps, FillNextKeeps, WriteKeeps
  <2> QED BY <1>3, <2>1, <2>2, <2>3, <2>4 DEF AddMoreSoundData
<1> QED BY <1>1, <1>2, <1>3 DEF Next

\* GInv is inductive as long as nobody disturbs a handover.
THEOREM GaplessInvariant == Spec /\ []Undisturbed => []GInv
<1>1. Init => GInv
  BY InitGInv
<1>2. GInv /\ Undisturbed /\ Undisturbed' /\ [Next]_vars => GInv'
  BY NextKeepsGInv
<1> QED BY <1>1, <1>2, PTL DEF Spec

\* One thread that converts does not disturb itself.
LEMMA OneThreadIsUndisturbed ==
  ASSUME \A t, u \in Thread : t = u
  PROVE  Undisturbed
BY DEF Undisturbed, File

\* The positions in the buffer, input_pos_ and output_pos_, and in the file stay
\* where they belong.
THEOREM GaplessTypeCorrect == Spec /\ []Undisturbed => []TypeOK
<1>1. GInv => TypeOK
  BY DEF GInv
<1> QED BY <1>1, GaplessInvariant, PTL

\* "the result is split between these two files" (README.md:291): whatever chain
\* of files hands a processor on, what AddMoreSoundData writes to the output of
\* a file is its own frames, each once and in order.
THEOREM GaplessOutputIsOwnInput == Spec /\ []Undisturbed => []OutputIsOwnInput
<1>1. GInv => OutputIsOwnInput
  BY DEF GInv, OutputOK, OutputIsOwnInput, Out
<1> QED BY <1>1, GaplessInvariant, PTL

\* Of a file that is neither truncated nor shorter than a fragment no frame is
\* missing when its conversion ends.
THEOREM GaplessConvertedToTheEnd == Spec /\ []Undisturbed => []ConvertedToTheEnd
<1>1. ASSUME GInv PROVE ConvertedToTheEnd
  <2> SUFFICES ASSUME NEW f \in File, handler[f].complete, readable[f] = frames[f],
                      frames[f] >= Fragment
               PROVE  handler[f].output = Own(f, frames[f])
    BY DEF ConvertedToTheEnd
  <2> DEFINE out == handler[f].output
             own == Own(f, frames[f])
  <2>1. out \in Seq(Frame) /\ frames[f] \in Nat
    BY <1>1, GaplessAssumption DEF GInv, TypeOK, Handler
  <2>2. Len(out) = frames[f]
    BY <1>1 DEF GInv, OutputOK, Out
  <2>3. \A i \in 1 .. frames[f] : out[i] = <<f, i>>
    BY <1>1, <2>1, <2>2 DEF GInv, OutputOK, Out
  <2>4. /\ own \in Seq(Frame) /\ Len(own) = frames[f]
        /\ \A i \in 1 .. frames[f] : own[i] = <<f, i>>
    BY <2>1 DEF Own, Frame
  <2> HIDE DEF out, own
  <2>5. out = own
    BY <2>1, <2>2, <2>3, <2>4, SeqEqual
  <2> QED BY <2>5 DEF out, own
<1> QED BY <1>1, GaplessInvariant, PTL

\* While a processor is handed on, two files have it, and else one
\* (convolve-file-handler.cc:344); what is in the pool nobody has.
THEOREM GaplessOneUserPerProcessor == Spec /\ []Undisturbed => []OneUserPerProcessor
<1>1. GInv => OneUserPerProcessor
  BY DEF GInv
<1> QED BY <1>1, GaplessInvariant, PTL

\* Neither assertion of SoundProcessor fails (sound-processor.cc:78, 90).
THEOREM GaplessProcessorAssertions == Spec /\ []Undisturbed => []ProcessorAssertions
<1>1. ASSUME GInv, NEW t \in Thread, At(t, "fill") PROVE HasRoom(t)
  <2>1. Input(Convert(t)) = <<>>
    BY <1>1, InCall DEF ConvertOK, NothingPending, At
  <2> QED BY <2>1, GaplessAssumption DEF HasRoom, is_input_buffer_complete, InputPos, Input
<1>2. ASSUME GInv, NEW t \in Thread, At(t, "write")
      PROVE  thread[t].count <= Fragment - WriteFrom(sound[processor[Convert(t)]])
  <2>1. Collected(t, Convert(t))
    BY <1>2, InCall DEF ConvertOK, At
  <2>2. WriteFrom(sound[processor[Convert(t)]]) = 0 /\ thread[t].count \in 1 .. Fragment
    BY <2>1 DEF Collected, WriteFrom, OutputPos
  <2> QED BY <2>2, GaplessAssumption
<1>3. GInv => ProcessorAssertions
  BY <1>1, <1>2 DEF ProcessorAssertions
<1> QED BY <1>3, GaplessInvariant, PTL

\* With one thread that converts nothing is assumed: the result is "split between
\* these two files" (README.md:291) with no frame doubled or out of place, and
\* none lost of a file that is not shorter than a fragment.
THEOREM GaplessOnePlayer ==
  ASSUME \A t, u \in Thread : t = u
  PROVE  Spec => [](OutputIsOwnInput /\ ConvertedToTheEnd)
<1>1. Undisturbed
  BY OneThreadIsUndisturbed
<1> QED BY <1>1, GaplessOutputIsOwnInput, GaplessConvertedToTheEnd, PTL
=============================================================================
