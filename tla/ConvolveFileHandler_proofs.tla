---------------------- MODULE ConvolveFileHandler_proofs ----------------------
(***************************************************************************)
(* Proofs that who reads a file from the beginning gets all of it, that    *)
(* the maximum of the output is recorded, and that a file is one header    *)
(* and its sound, for any sound files and sizes of reads, and any number   *)
(* of threads that ask for the size.                                       *)
(***************************************************************************)
EXTENDS ConvolveFileHandler, SequenceTheorems, WellFoundedInduction, TLAPS

\* Of whatever.
IsSequence(s) == \E S : s \in Seq(S)

BufferTypes ==
  /\ in \in Input
  /\ DOMAIN buf = {"out", "writes", "emitted", "header_end"}
  /\ IsSequence(buf.out)

ConvTypes ==
  /\ DOMAIN conv = {"owner", "step", "read", "written", "complete"}
  /\ conv.read \in 0 .. in.real /\ conv.written \in 0 .. conv.read
  /\ conv.complete => conv.owner = Nobody

ReadingTypes ==
  /\ DOMAIN reading = Readers
  /\ \A r \in Readers : DOMAIN reading[r] = {"pc", "offset", "size", "current", "got"}

\* Where the player is: never beyond what there is, never found to skip, and
\* reading only behind enough of a conversion.
PlayerInv ==
  LET now == reading[Player]
  IN  /\ now.offset \in 0 .. FileSize
      /\ now.pc # "idle" => now.size \in Nat \ {0}
      /\ now.pc = "horizon" => now.current \in Nat /\ now.current >= now.offset
      /\ now.pc = "pread" => conv.complete \/ FileSize > now.offset
      /\ now.got # "zeros"
      /\ now.got = "end" => now.pc = "idle" /\ conv.complete /\ now.offset = FileSize
      /\ conv.owner = Player => now.pc = "FillUntil"

HInv == BufferTypes /\ ConvTypes /\ ReadingTypes /\ PlayerInv

\* Where the maximum is while a file is being closed.
MInv ==
  /\ DOMAIN conv = {"owner", "step", "read", "written", "complete"}
  /\ DOMAIN maximum = {"processor", "saved", "truth", "late"}
  /\ conv.step \in {"more", "write", "save", "reset", "close", "closed"}
  /\ conv.step \in {"more", "write", "save", "reset"} => maximum.processor = maximum.truth
  /\ conv.step = "reset" => maximum.saved = maximum.truth
  /\ conv.step \in {"close", "closed"} => maximum.late \/ maximum.saved = maximum.truth
  /\ conv.complete => conv.step = "closed" /\ conv.owner = Nobody
  /\ conv.owner = Nobody /\ ~conv.complete => conv.step = "more"

-----------------------------------------------------------------------------
(* The buffer.                                                             *)

LEMMA ConcatIsSequence ==
  ASSUME NEW s, NEW t, IsSequence(s), IsSequence(t)
  PROVE  /\ IsSequence(s \o t) /\ Len(s \o t) = Len(s) + Len(t)
         /\ Len(s) \in Nat /\ Len(t) \in Nat
<1>1. PICK S, T : s \in Seq(S) /\ t \in Seq(T)
  BY DEF IsSequence
<1>2. s \in Seq(S \cup T) /\ t \in Seq(S \cup T)
  BY <1>1, SeqMonotonic
<1>3. /\ s \o t \in Seq(S \cup T) /\ Len(s \o t) = Len(s) + Len(t)
      /\ Len(s) \in Nat /\ Len(t) \in Nat
  BY ONLY <1>2, ConcatProperties, LenProperties
<1> QED BY <1>3 DEF IsSequence

\* What is appended makes the file longer, or leaves it as long as it is.
LEMMA AppendedLemma ==
  ASSUME NEW b, DOMAIN b = {"out", "writes", "emitted", "header_end"},
         IsSequence(b.out), NEW items, IsSequence(items)
  PROVE  LET c == SndAppend(b, items)
         IN  /\ DOMAIN c = DOMAIN b /\ IsSequence(c.out)
             /\ Len(c.out) \in Nat /\ Len(c.out) >= Len(b.out)
<1>1. /\ IsSequence(b.out \o items) /\ Len(b.out \o items) = Len(b.out) + Len(items)
      /\ Len(b.out) \in Nat /\ Len(items) \in Nat
  BY ConcatIsSequence
<1>2. DOMAIN Appended(b, items) = DOMAIN b /\ Appended(b, items).out = b.out \o items
  BY DEF Appended
<1>3. CASE b.writes
  <2>1. SndAppend(b, items) = Appended(b, items)
    BY <1>3 DEF SndAppend
  <2>2. PICK c, longer : c = Appended(b, items) /\ longer = b.out \o items
    OBVIOUS
  <2>3. DOMAIN c = DOMAIN b /\ c.out = longer
    BY <1>2, <2>2
  <2>4. IsSequence(longer) /\ Len(longer) \in Nat /\ Len(longer) >= Len(b.out)
    BY <1>1, <2>2
  <2> QED BY <2>1, <2>2, <2>3, <2>4
<1>4. CASE ~b.writes
  BY <1>1, <1>4 DEF SndAppend
<1> QED BY <1>3, <1>4

LEMMA SndHeaderLemma ==
  ASSUME NEW channels
  PROVE  IsSequence(SndHeader(channels))
<1> DEFINE one == StreamInfo(channels, 0, "sndfile", Nothing)
           two == LastBlock(Metadata("VORBIS_COMMENT"))
<1> HIDE DEF one, two
<1>1. <<one, two>> \in Seq({one, two})
  OBVIOUS
<1> QED BY <1>1 DEF IsSequence, SndHeader, one, two

\* What libsndfile does to a buffer, when it is given frames and on closing.
LEMMA WritesGrow ==
  ASSUME NEW b, DOMAIN b = {"out", "writes", "emitted", "header_end"},
         IsSequence(b.out), NEW frames, IsSequence(frames)
  PROVE  /\ LET c == EmitHeader(b, OUT)
            IN  /\ DOMAIN c = DOMAIN b /\ IsSequence(c.out)
                /\ Len(c.out) \in Nat /\ Len(c.out) >= Len(b.out)
         /\ LET c == sf_writef_float(b, OUT, frames)
            IN  /\ DOMAIN c = DOMAIN b /\ IsSequence(c.out)
                /\ Len(c.out) \in Nat /\ Len(c.out) >= Len(b.out)
         /\ LET c == sf_close(b, OUT, frames)
            IN  /\ DOMAIN c = DOMAIN b /\ IsSequence(c.out)
                /\ Len(c.out) \in Nat /\ Len(c.out) >= Len(b.out)
<1> DEFINE header  == SndHeader(OUT)
           told    == SndAppend(b, header)
           emitted == EmitHeader(b, OUT)
           written == SndAppend(emitted, frames)
           sought  == DummySeek(written, 4)
           closed  == SndAppend(sought, header)
<1>1. IsSequence(header)
  BY SndHeaderLemma
<1> HIDE DEF header
<1>2. /\ DOMAIN told = DOMAIN b /\ IsSequence(told.out)
      /\ Len(told.out) \in Nat /\ Len(told.out) >= Len(b.out) /\ Len(b.out) \in Nat
  BY <1>1, AppendedLemma, ConcatIsSequence
<1> HIDE DEF told
<1>3. /\ DOMAIN emitted = DOMAIN b /\ IsSequence(emitted.out)
      /\ Len(emitted.out) \in Nat /\ Len(emitted.out) >= Len(b.out)
  <2>1. emitted = IF b.emitted THEN b ELSE [told EXCEPT !.emitted = TRUE]
    BY DEF EmitHeader, told, header
  <2> HIDE DEF emitted
  <2> QED BY <1>2, <2>1
<1> HIDE DEF emitted
<1>4. /\ DOMAIN written = DOMAIN b /\ IsSequence(written.out)
      /\ Len(written.out) \in Nat /\ Len(written.out) >= Len(emitted.out)
  BY <1>3, AppendedLemma
<1> HIDE DEF written
<1>5. DOMAIN sought = DOMAIN b /\ sought.out = written.out
  BY <1>4 DEF DummySeek, set_sndfile_writes_enabled
<1> HIDE DEF sought
<1>6. /\ DOMAIN closed = DOMAIN b /\ IsSequence(closed.out)
      /\ Len(closed.out) \in Nat /\ Len(closed.out) >= Len(sought.out)
  BY <1>1, <1>4, <1>5, AppendedLemma
<1>7. sf_writef_float(b, OUT, frames) = written
  BY DEF sf_writef_float, written, emitted
<1>8. sf_close(b, OUT, frames) = closed
  BY <1>7 DEF sf_close, closed, sought, header
<1> HIDE DEF closed
<1> QED BY <1>2, <1>3, <1>4, <1>5, <1>6, <1>7, <1>8 DEF emitted

LEMMA FramesLemma ==
  ASSUME NEW n \in Nat, NEW m \in Nat, n <= m
  PROVE  IsSequence(Frames(n, m))
<1>1. m - n \in Nat
  OBVIOUS
<1> DEFINE S == {Sound(n + i) : i \in 1 .. m - n}
<1>2. \A i \in 1 .. m - n : Sound(n + i) \in S
  OBVIOUS
<1> HIDE DEF S
<1>3. Frames(n, m) \in [1 .. m - n -> S]
  BY <1>2 DEF Frames
<1>4. Frames(n, m) \in Seq(S)
  BY <1>1, <1>3
<1> QED BY <1>4 DEF IsSequence

\* Writing one place changes no length.
LEMMA WriteCharAtLemma ==
  ASSUME NEW b, DOMAIN b = {"out", "writes", "emitted", "header_end"},
         IsSequence(b.out), NEW x
  PROVE  DOMAIN WriteCharAt(b, x) = DOMAIN b /\ IsSequence(WriteCharAt(b, x).out)
<1>1. CASE b.out = <<>>
  BY <1>1 DEF WriteCharAt
<1>2. CASE b.out # <<>>
  <2>1. PICK S : b.out \in Seq(S)
    BY DEF IsSequence
  <2>2. [b.out EXCEPT ![1] = x] \in Seq(S \cup {x})
    <3>1. PICK s : s = b.out
      OBVIOUS
    <3>2. s \in Seq(S)
      BY <2>1, <3>1
    <3>3. s \in [1 .. Len(s) -> S] /\ Len(s) \in Nat
      BY <3>2, LenProperties
    <3>4. PICK n \in Nat : s \in [1 .. n -> S]
      BY <3>3
    <3>5. [s EXCEPT ![1] = x] \in [1 .. n -> S \cup {x}]
      BY <3>4
    <3> QED BY <3>1, <3>4, <3>5
  <2>3. WriteCharAt(b, x) = [b EXCEPT !.out[1] = x]
    BY <1>2 DEF WriteCharAt
  <2>4. /\ DOMAIN [b EXCEPT !.out[1] = x] = DOMAIN b
        /\ [b EXCEPT !.out[1] = x].out = [b.out EXCEPT ![1] = x]
    OBVIOUS
  <2> QED BY <2>2, <2>3, <2>4 DEF IsSequence
<1> QED BY <1>1, <1>2

\* Induction, over sets of numbers.
LEMMA SetInduction ==
  ASSUME NEW S, 0 \in S, \A n \in Nat : n \in S => n + 1 \in S
  PROVE  Nat \subseteq S
<1> DEFINE Left  == Nat \ S
           Below == OpToRel(<, Nat)
<1>1. SUFFICES ASSUME Left # {} PROVE FALSE
  OBVIOUS
<1>2. \A x, y \in Nat : <<x, y>> \in Below <=> x < y
  BY DEF OpToRel
<1>3. PICK x \in Left : \A y \in Left : <<y, x>> \notin Below
  <2>1. IsWellFoundedOn(Below, Nat)
    BY NatLessThanWellFounded
  <2> HIDE DEF Below
  <2> QED BY <1>1, <2>1, WFMin
<1> HIDE DEF Below
<1>4. PICK y \in Left : y < x
  <2>1. x \in Nat /\ x # 0 /\ x - 1 \in Nat /\ x - 1 < x /\ (x - 1) + 1 = x
    OBVIOUS
  <2> QED BY <2>1
<1>5. x \in Nat /\ y \in Nat
  OBVIOUS
<1> HIDE DEF Left
<1> QED BY <1>2, <1>3, <1>4, <1>5

\* The loop over the blocks of the input, up to the n-th.
Keeps(kept, blocks, n) ==
  kept = [m \in 0 .. n |-> IF m = 0 THEN <<>>
                           ELSE IF blocks[m].type = "SEEKTABLE" THEN kept[m - 1]
                           ELSE Append(kept[m - 1], blocks[m])]

LEMMA KeepsLemma ==
  ASSUME NEW blocks, Len(blocks) \in Nat
  PROVE  \E kept : Keeps(kept, blocks, Len(blocks))
<1> DEFINE S == {n \in Nat : \E kept : Keeps(kept, blocks, n)}
<1>1. 0 \in S
  <2>1. Keeps([m \in 0 .. 0 |-> <<>>], blocks, 0)
    BY DEF Keeps
  <2> QED BY <2>1
<1>2. ASSUME NEW n \in Nat, n \in S PROVE n + 1 \in S
  <2>1. PICK kept : Keeps(kept, blocks, n)
    BY <1>2
  <2> DEFINE Next1(k, m) == IF m = 0 THEN <<>>
                            ELSE IF blocks[m].type = "SEEKTABLE" THEN k[m - 1]
                            ELSE Append(k[m - 1], blocks[m])
             more == [m \in 0 .. n + 1 |-> Next1(kept, m)]
  <2>2. ASSUME NEW m \in 1 .. n + 1 PROVE more[m - 1] = kept[m - 1]
    <3>1. PICK k \in 0 .. n : k = m - 1
      OBVIOUS
    <3>2. kept[k] = Next1(kept, k)
      BY <2>1 DEF Keeps
    <3>3. more[k] = Next1(kept, k)
      <4> HIDE DEF Next1
      <4> QED OBVIOUS
    <3> HIDE DEF more, Next1
    <3> QED BY <3>1, <3>2, <3>3
  <2>3. \A m \in 0 .. n + 1 : more[m] = Next1(more, m)
    <3> SUFFICES ASSUME NEW m \in 0 .. n + 1 PROVE more[m] = Next1(more, m)
      OBVIOUS
    <3>1. more[m] = Next1(kept, m)
      <4> HIDE DEF Next1
      <4> QED OBVIOUS
    <3>2. m # 0 => m \in 1 .. n + 1
      OBVIOUS
    <3> HIDE DEF more
    <3> QED BY <2>2, <3>1, <3>2
  <2>4. Keeps(more, blocks, n + 1)
    <3>1. more = [m \in 0 .. n + 1 |-> more[m]]
      OBVIOUS
    <3> HIDE DEF more
    <3> QED BY <2>3, <3>1 DEF Keeps
  <2> HIDE DEF more
  <2> QED BY <2>4
<1> HIDE DEF S
<1>3. Len(blocks) \in S
  BY <1>1, <1>2, SetInduction
<1> QED BY <1>3 DEF S

\* What is kept of an input: blocks of its own, its first one first, none of them
\* a table of seek points; and the last one of them all, unless it is one.
LEMMA KeptLemma ==
  ASSUME NEW i \in Input
  PROVE  /\ Kept(i) \in Seq(Block)
         /\ IsFlac(i) =>
              /\ Kept(i) # <<>> /\ Kept(i)[1] = i.blocks[1]
              /\ \A k \in DOMAIN Kept(i) :
                   /\ Kept(i)[k].type \notin {"SOUND", "SEEKTABLE"}
                   /\ Kept(i)[k].last <=> /\ k = Len(Kept(i))
                                          /\ i.blocks[Len(i.blocks)].type # "SEEKTABLE"
<1> DEFINE blocks == i.blocks
           last   == Len(blocks)
           S == {n \in Nat : \E kept : Keeps(kept, blocks, n)}
<1>1. blocks \in Seq(Block) /\ last \in Nat /\ \A n \in 1 .. last : blocks[n] \in Block
  BY HandlerAssumption
<1> HIDE DEF blocks
<1> DEFINE kept == CHOOSE k : Keeps(k, blocks, last)
<1>2. Keeps(kept, blocks, last)
  BY <1>1, KeepsLemma
<1>3. Kept(i) = kept[last]
  BY DEF Kept, Keeps, blocks
<1> HIDE DEF kept, last
<1>4. /\ kept[0] = <<>>
      /\ \A n \in 1 .. last : kept[n] = IF blocks[n].type = "SEEKTABLE" THEN kept[n - 1]
                                        ELSE Append(kept[n - 1], blocks[n])
  <2>1. \A n \in 0 .. last : kept[n] = IF n = 0 THEN <<>>
                                       ELSE IF blocks[n].type = "SEEKTABLE" THEN kept[n - 1]
                                       ELSE Append(kept[n - 1], blocks[n])
    BY <1>2, Zenon DEF Keeps
  <2>2. 0 \in 0 .. last /\ \A n \in 1 .. last : n \in 0 .. last /\ n # 0
    BY <1>1
  <2> QED BY <2>1, <2>2, Zenon
<1>5. \A n \in 0 .. last : kept[n] \in Seq(Block)
  <2> DEFINE T == {n \in Nat : n <= last => kept[n] \in Seq(Block)}
  <2>1. 0 \in T
    BY <1>4, EmptySeq
  <2>2. ASSUME NEW n \in Nat, n \in T PROVE n + 1 \in T
    <3> SUFFICES ASSUME n + 1 <= last PROVE kept[n + 1] \in Seq(Block)
      OBVIOUS
    <3>1. n + 1 \in 1 .. last /\ (n + 1) - 1 = n /\ kept[n] \in Seq(Block)
      BY <1>1, <2>2
    <3>2. Append(kept[n], blocks[n + 1]) \in Seq(Block)
      BY <1>1, <3>1, AppendProperties
    <3> QED BY <1>4, <3>1, <3>2
  <2> HIDE DEF T
  <2>3. Nat \subseteq T
    BY <2>1, <2>2, SetInduction
  <2>4. \A n \in 0 .. last : n \in T
    BY <1>1, <2>3
  <2> QED BY <2>4 DEF T
<1>6. ASSUME IsFlac(i)
      PROVE  /\ kept[last] # <<>> /\ kept[last][1] = blocks[1]
             /\ \A k \in DOMAIN kept[last] :
                  /\ kept[last][k].type \notin {"SOUND", "SEEKTABLE"}
                  /\ kept[last][k].last <=> /\ k = Len(kept[last])
                                            /\ blocks[last].type # "SEEKTABLE"
  <2>1. /\ last \in Nat \ {0} /\ blocks[1].type = "STREAMINFO"
        /\ \A n \in 1 .. last : /\ blocks[n].type # "SOUND"
                                /\ blocks[n].last <=> n = last
    <3>1. blocks # <<>> => last # 0
      BY <1>1, EmptySeq DEF last
    <3>2. DOMAIN blocks = 1 .. last
      BY <1>1, LenProperties DEF last
    <3>3. /\ blocks # <<>> /\ blocks[1].type = "STREAMINFO"
          /\ \A n \in DOMAIN blocks : blocks[n].last <=> n = last
      BY <1>6 DEF IsFlac, blocks, last
    <3>4. \A n \in 1 .. last : blocks[n].type # "SOUND"
      BY <1>1 DEF Block, BlockType
    <3> QED BY <1>1, <3>1, <3>2, <3>3, <3>4
  <2> DEFINE Good(n) == /\ kept[n] # <<>> /\ kept[n][1] = blocks[1]
                        /\ \A k \in 1 .. Len(kept[n]) :
                             /\ kept[n][k].type \notin {"SOUND", "SEEKTABLE"}
                             /\ kept[n][k].last <=> /\ k = Len(kept[n]) /\ n = last
                                                    /\ blocks[n].type # "SEEKTABLE"
             T == {n \in Nat : n + 1 <= last => Good(n + 1)}
  <2>2. 0 \in T
    <3>1. kept[1] = Append(<<>>, blocks[1])
      <4>1. 1 \in 1 .. last /\ 1 - 1 = 0 /\ blocks[1].type # "SEEKTABLE"
        BY <2>1
      <4> QED BY <1>4, <4>1
    <3>2. kept[1] = <<blocks[1]>>
      BY <3>1
    <3>3. Len(kept[1]) = 1 /\ kept[1][1] = blocks[1] /\ kept[1] # <<>>
      BY <3>2
    <3>4. Good(1)
      BY <2>1, <3>3
    <3> HIDE DEF Good
    <3> QED BY <3>4
  <2>3. ASSUME NEW m \in Nat, m \in T PROVE m + 1 \in T
    <3> SUFFICES ASSUME (m + 1) + 1 <= last PROVE Good((m + 1) + 1)
      BY DEF T
    <3>1. PICK n \in 2 .. last : n = (m + 1) + 1
      BY <1>1
    <3>2. n \in 1 .. last /\ n - 1 \in 1 .. last /\ Good(n - 1)
      <4> HIDE DEF Good
      <4>1. n - 1 = m + 1 /\ m + 1 <= last /\ n \in 1 .. last /\ n - 1 \in 1 .. last
        BY <1>1, <3>1
      <4> QED BY <2>3, <4>1
    <3> DEFINE s == kept[n - 1]
               b == blocks[n]
    <3>3. /\ s \in Seq(Block) /\ Len(s) \in Nat \ {0} /\ s[1] = blocks[1]
          /\ \A k \in 1 .. Len(s) : s[k].type \notin {"SOUND", "SEEKTABLE"} /\ ~s[k].last
      <4>1. s \in Seq(Block)
        BY <1>5, <3>2
      <4>2. s # <<>> /\ s[1] = blocks[1] /\ n - 1 # last
        BY <3>2
      <4> QED BY <3>2, <4>1, <4>2, EmptySeq
    <3>4. b \in Block /\ b.type # "SOUND" /\ (b.last <=> n = last)
      BY <1>1, <2>1, <3>2
    <3>5. kept[n] = IF b.type = "SEEKTABLE" THEN s ELSE Append(s, b)
      BY <1>4, <3>2
    <3> HIDE DEF s, b
    <3>6. CASE b.type = "SEEKTABLE"
      <4>1. kept[n] = s /\ blocks[n].type = "SEEKTABLE" /\ s # <<>>
        BY <3>3, <3>5, <3>6, EmptySeq DEF b
      <4>2. Good(n)
        BY <3>3, <4>1
      <4> HIDE DEF Good
      <4> QED BY <3>1, <4>2
    <3>7. CASE b.type # "SEEKTABLE"
      <4> DEFINE u == Append(s, b)
      <4>1. /\ u \in Seq(Block) /\ Len(u) = Len(s) + 1 /\ u[Len(s) + 1] = b
            /\ \A k \in 1 .. Len(s) : u[k] = s[k]
        BY <3>3, <3>4, AppendProperties
      <4>2. u # <<>> /\ u[1] = blocks[1]
        BY <3>3, <4>1, EmptySeq
      <4> HIDE DEF u
      <4>3. kept[n] = u /\ blocks[n].type # "SEEKTABLE"
        BY <3>5, <3>7 DEF u, b
      <4>4. \A k \in 1 .. Len(u) : k \in 1 .. Len(s) \/ k = Len(s) + 1
        BY <3>3, <4>1
      <4>5. \A k \in 1 .. Len(u) : /\ u[k].type \notin {"SOUND", "SEEKTABLE"}
                                   /\ u[k].last <=> k = Len(u) /\ n = last
        BY <3>3, <3>4, <3>7, <4>1, <4>4
      <4>6. Good(n)
        BY <4>2, <4>3, <4>5
      <4> HIDE DEF Good
      <4> QED BY <3>1, <4>6
    <3> QED BY <3>6, <3>7
  <2> HIDE DEF T
  <2>4. Nat \subseteq T
    BY <2>2, <2>3, SetInduction
  <2>5. Good(last)
    <3>1. last - 1 \in T /\ (last - 1) + 1 = last
      BY <2>1, <2>4
    <3> HIDE DEF Good
    <3> QED BY <2>1, <3>1 DEF T
  <2>6. DOMAIN kept[last] = 1 .. Len(kept[last])
    BY <1>1, <1>5, LenProperties
  <2> QED BY <2>5, <2>6
<1>7. kept[last] \in Seq(Block)
  BY <1>1, <1>5
<1> QED BY <1>3, <1>6, <1>7 DEF blocks, last

LEMMA CopyFlacHeaderLemma ==
  ASSUME NEW i \in Input
  PROVE  IsSequence(CopyFlacHeader(i))
<1> DEFINE blocks == Finished(i)
<1>1. IsSequence(Kept(i))
  BY KeptLemma DEF IsSequence
<1>2. IsSequence(blocks)
  <2>1. IsSequence(<<LastBlock(Metadata("PADDING"))>>)
    <3>1. PICK x : x = LastBlock(Metadata("PADDING"))
      OBVIOUS
    <3>2. <<x>> \in Seq({x})
      OBVIOUS
    <3> QED BY <3>1, <3>2 DEF IsSequence
  <2>2. IsSequence(Kept(i) \o <<LastBlock(Metadata("PADDING"))>>)
    BY <1>1, <2>1, ConcatIsSequence
  <2> QED BY <1>1, <2>2 DEF Finished
<1> HIDE DEF blocks
<1>3. PICK S : blocks \in Seq(S)
  BY <1>2 DEF IsSequence
<1>4. Len(blocks) \in Nat /\ DOMAIN blocks = 1 .. Len(blocks)
  BY <1>3, LenProperties
<1> DEFINE T == {Redacted(blocks[n]) : n \in DOMAIN blocks}
<1>5. \A n \in DOMAIN blocks : Redacted(blocks[n]) \in T
  OBVIOUS
<1> HIDE DEF T
<1>6. [n \in DOMAIN blocks |-> Redacted(blocks[n])] \in [1 .. Len(blocks) -> T]
  BY <1>4, <1>5
<1>7. CopyFlacHeader(i) = [n \in DOMAIN blocks |-> Redacted(blocks[n])]
  BY DEF CopyFlacHeader, blocks
<1>8. CopyFlacHeader(i) \in Seq(T)
  BY <1>4, <1>6, <1>7
<1> QED BY <1>8 DEF IsSequence

\* Whatever becomes of the header, it is a sequence.
LEMMA SetOutputSoundfileLemma ==
  ASSUME NEW i \in Input
  PROVE  LET b == SetOutputSoundfile(i, OUT, i.workaround)
         IN  /\ DOMAIN b = {"out", "writes", "emitted", "header_end"}
             /\ IsSequence(b.out)
<1> DEFINE Fields == {"out", "writes", "emitted", "header_end"}
<1>1. DOMAIN NewBuffer = Fields /\ NewBuffer.out = <<>> /\ IsSequence(<<>>)
  BY EmptySeq DEF NewBuffer, IsSequence
<1>2. ASSUME NEW b, DOMAIN b = Fields, IsSequence(b.out)
      PROVE  /\ DOMAIN HeaderFinished(b) = Fields /\ IsSequence(HeaderFinished(b).out)
             /\ \A w : LET c == set_sndfile_writes_enabled(b, w)
                       IN  DOMAIN c = Fields /\ c.out = b.out
  BY <1>2 DEF HeaderFinished, set_sndfile_writes_enabled
<1>3. CASE LooksLikeInputIsFlac(i) /\ ~i.workaround
  <2> DEFINE silent  == set_sndfile_writes_enabled(NewBuffer, FALSE)
             copied  == Appended(silent, CopyFlacHeader(i))
             flushed == EmitHeader(copied, OUT)
             told    == Redact(flushed, OUT)
             loud    == set_sndfile_writes_enabled(told, TRUE)
  <2>1. DOMAIN silent = Fields /\ silent.out = <<>>
    BY <1>1, <1>2
  <2> HIDE DEF silent
  <2>2. DOMAIN copied = Fields /\ IsSequence(copied.out)
    <3>1. IsSequence(silent.out \o CopyFlacHeader(i))
      BY <1>1, <2>1, CopyFlacHeaderLemma, ConcatIsSequence
    <3>2. DOMAIN copied = DOMAIN silent /\ copied.out = silent.out \o CopyFlacHeader(i)
      BY <2>1 DEF Appended
    <3> QED BY <2>1, <3>1, <3>2
  <2> HIDE DEF copied
  <2>3. DOMAIN flushed = Fields /\ IsSequence(flushed.out)
    BY <1>1, <2>2, WritesGrow
  <2> HIDE DEF flushed
  <2>4. DOMAIN told = Fields /\ IsSequence(told.out)
    BY <2>3, WriteCharAtLemma DEF Redact
  <2> HIDE DEF told
  <2>5. DOMAIN loud = Fields /\ IsSequence(loud.out)
    BY <1>2, <2>4
  <2>6. SetOutputSoundfile(i, OUT, i.workaround) = HeaderFinished(loud)
    BY <1>3 DEF SetOutputSoundfile, loud, told, flushed, copied, silent
  <2> HIDE DEF loud
  <2> QED BY <1>2, <2>5, <2>6
<1>4. CASE ~(LooksLikeInputIsFlac(i) /\ ~i.workaround)
  <2> DEFINE flushed == IF i.workaround THEN NewBuffer ELSE EmitHeader(NewBuffer, OUT)
             told    == FillIn(flushed, i.frames)
  <2>1. DOMAIN flushed = Fields /\ IsSequence(flushed.out)
    BY <1>1, WritesGrow
  <2> HIDE DEF flushed
  <2>2. DOMAIN told = Fields /\ IsSequence(told.out)
    BY <2>1, WriteCharAtLemma DEF FillIn
  <2>3. SetOutputSoundfile(i, OUT, i.workaround) = HeaderFinished(told)
    BY <1>4 DEF SetOutputSoundfile, told, flushed
  <2> HIDE DEF told
  <2> QED BY <1>2, <2>2, <2>3
<1> QED BY <1>3, <1>4

-----------------------------------------------------------------------------
(* Reading from the beginning.                                             *)

LEMMA HInit == Init => HInv
<1> SUFFICES ASSUME Init PROVE HInv
  OBVIOUS
<1>1. BufferTypes
  BY SetOutputSoundfileLemma DEF Init, BufferTypes
<1>2. ConvTypes
  BY HandlerAssumption DEF Init, ConvTypes
<1>3. ReadingTypes
  BY DEF Init, ReadingTypes
<1>4. FileSize \in Nat
  BY <1>1, LenProperties DEF BufferTypes, IsSequence, FileSize
<1>5. PlayerInv
  BY <1>4, HandlerAssumption DEF Init, PlayerInv, Readers
<1> QED BY <1>1, <1>2, <1>3, <1>5 DEF HInv

LEMMA FileSizeLemma == BufferTypes => FileSize \in Nat
  BY LenProperties DEF BufferTypes, IsSequence, FileSize

\* What others do leaves the player where it is: the file only gets longer, and
\* not once it is complete.
LEMMA PlayerStays ==
  ASSUME PlayerInv, FileSize \in Nat, FileSize' \in Nat, FileSize' >= FileSize,
         reading'[Player] = reading[Player],
         conv.complete => conv'.complete /\ FileSize' = FileSize,
         conv'.owner = Player => conv.owner = Player
  PROVE  PlayerInv'
<1>1. PICK now, size, longer : /\ now = reading[Player] /\ size = FileSize
                               /\ longer = FileSize'
  OBVIOUS
<1>2. now.offset \in 0 .. longer
  BY <1>1 DEF PlayerInv
<1>3. now.pc = "pread" => conv'.complete \/ longer > now.offset
  BY <1>1 DEF PlayerInv
<1> HIDE DEF FileSize
<1> QED BY <1>1, <1>2, <1>3 DEF PlayerInv

LEMMA HRead ==
  ASSUME HInv, NEW r \in Readers, Read(r)
  PROVE  HInv'
<1> USE DEF HInv
<1>0. FileSize \in Nat /\ FileSize' = FileSize
  BY FileSizeLemma DEF Read, FileSize
<1>1. BufferTypes' /\ ConvTypes' /\ UNCHANGED conv
  BY DEF Read, BufferTypes, ConvTypes
<1>2. ReadingTypes'
  BY DEF Read, ReadingTypes
<1>3. PlayerInv'
  <2>1. CASE r = Player
    <3>1. PICK size \in ReadSize :
            reading' = [reading EXCEPT ![Player] =
              IF in.opened
              THEN [@ EXCEPT !.pc = "horizon", !.offset = reading[Player].offset,
                             !.size = size, !.current = FileSize]
              ELSE [@ EXCEPT !.got = "error"]]
      BY <2>1 DEF Read, Offsets
    <3>2. size \in Nat \ {0}
      BY HandlerAssumption
    <3>3. reading[Player].pc = "idle" /\ reading[Player].got # "end"
      BY <2>1 DEF Read, Ended
    <3>4. PICK now, n : now = reading[Player] /\ n = FileSize
      OBVIOUS
    <3>5. DOMAIN now = {"pc", "offset", "size", "current", "got"} /\ Player \in DOMAIN reading
      BY <3>4 DEF ReadingTypes, Readers
    <3>6. CASE in.opened
      <4>1. reading'[Player] = [now EXCEPT !.pc = "horizon", !.offset = now.offset,
                                           !.size = size, !.current = n]
        BY <3>1, <3>4, <3>5, <3>6
      <4>2. /\ reading'[Player].pc = "horizon" /\ reading'[Player].offset = now.offset
            /\ reading'[Player].size = size /\ reading'[Player].current = n
            /\ reading'[Player].got = now.got
        BY <3>5, <4>1
      <4> HIDE DEF FileSize
      <4> QED BY <1>0, <1>1, <3>2, <3>3, <3>4, <4>2 DEF PlayerInv
    <3>7. CASE ~in.opened
      <4>1. reading'[Player] = [now EXCEPT !.got = "error"]
        BY <3>1, <3>4, <3>5, <3>7
      <4>2. /\ reading'[Player].pc = now.pc /\ reading'[Player].offset = now.offset
            /\ reading'[Player].size = now.size /\ reading'[Player].current = now.current
            /\ reading'[Player].got = "error"
        BY <3>5, <4>1
      <4> HIDE DEF FileSize
      <4> QED BY <1>0, <1>1, <3>3, <3>4, <4>2 DEF PlayerInv
    <3> QED BY <3>6, <3>7
  <2>2. CASE r # Player
    <3>1. reading'[Player] = reading[Player]
      BY <2>2 DEF Read, ReadingTypes
    <3> QED BY <1>0, <1>1, <3>1, PlayerStays DEF BufferTypes
  <2> QED BY <2>1, <2>2
<1> QED BY <1>1, <1>2, <1>3

LEMMA HPretend ==
  ASSUME HInv, NEW r \in Readers, Pretend(r)
  PROVE  HInv'
<1> USE DEF HInv
<1>0. FileSize \in Nat /\ FileSize' = FileSize
  BY FileSizeLemma DEF Pretend, FileSize
<1>1. BufferTypes' /\ ConvTypes' /\ UNCHANGED conv
  BY DEF Pretend, BufferTypes, ConvTypes
<1>2. ReadingTypes'
  BY DEF Pretend, ReadingTypes, Reading
<1>3. PlayerInv'
  <2>1. CASE r = Player
    <3>1. ~(reading[Player].current < reading[Player].offset) /\ reading[Player].pc = "horizon"
      BY <1>0, <2>1 DEF Pretend, PlayerInv
    <3>2. reading' = [reading EXCEPT ![Player].pc = "FillUntil"]
      BY <2>1, <3>1 DEF Pretend, IsSkip, Reading
    <3>3. PICK now : now = reading[Player]
      OBVIOUS
    <3>4. DOMAIN now = {"pc", "offset", "size", "current", "got"} /\ Player \in DOMAIN reading
      BY <3>3 DEF ReadingTypes, Readers
    <3>5. reading'[Player] = [now EXCEPT !.pc = "FillUntil"]
      BY <3>2, <3>3, <3>4
    <3>6. /\ reading'[Player].pc = "FillUntil" /\ reading'[Player].offset = now.offset
          /\ reading'[Player].size = now.size /\ reading'[Player].got = now.got
      BY <3>4, <3>5
    <3> HIDE DEF FileSize
    <3> QED BY <1>0, <1>1, <3>1, <3>3, <3>6 DEF PlayerInv
  <2>2. CASE r # Player
    <3>1. ASSUME reading' = [reading EXCEPT ![r].pc = "FillUntil"]
          PROVE  reading'[Player] = reading[Player]
      BY <2>2, <3>1 DEF ReadingTypes
    <3>2. ASSUME NEW got, reading' = [reading EXCEPT ![r].pc = "idle", ![r].got = got]
          PROVE  reading'[Player] = reading[Player]
      <4>1. PICK one : one = [reading EXCEPT ![r].pc = "idle"]
        OBVIOUS
      <4>2. DOMAIN one = Readers /\ one[Player] = reading[Player]
        BY <2>2, <4>1 DEF ReadingTypes, Readers
      <4>3. reading' = [one EXCEPT ![r].got = got]
        BY <3>2, <4>1
      <4> QED BY <2>2, <4>2, <4>3 DEF Readers
    <3>3. PICK got : \/ reading' = [reading EXCEPT ![r].pc = "idle", ![r].got = got]
                     \/ reading' = [reading EXCEPT ![r].pc = "FillUntil"]
      BY DEF Pretend, Reading
    <3>4. reading'[Player] = reading[Player]
      BY <3>1, <3>2, <3>3
    <3> QED BY <1>0, <1>1, <3>4, PlayerStays
  <2> QED BY <2>1, <2>2
<1> QED BY <1>1, <1>2, <1>3

LEMMA HPread ==
  ASSUME HInv, NEW r \in Readers, Pread(r)
  PROVE  HInv'
<1> USE DEF HInv
<1>0. FileSize \in Nat /\ FileSize' = FileSize
  BY FileSizeLemma DEF Pread, FileSize
<1>1. BufferTypes' /\ ConvTypes' /\ UNCHANGED conv
  BY DEF Pread, BufferTypes, ConvTypes
<1> DEFINE n == MinOf(reading[r].size, FileSize - reading[r].offset)
<1>2. PICK offset, got :
        /\ reading' = [reading EXCEPT ![r] =
              [@ EXCEPT !.pc = "idle", !.offset = offset, !.got = got]]
        /\ offset = MaxOf(reading[r].offset, reading[r].offset + n)
        /\ got = IF n > 0 THEN "sound" ELSE "end"
  <2>1. reading' = [reading EXCEPT ![r] =
          [@ EXCEPT !.pc = "idle", !.offset = MaxOf(reading[r].offset, reading[r].offset + n),
                    !.got = IF n > 0 THEN "sound" ELSE "end"]]
    BY Zenon DEF Pread
  <2> HIDE DEF n
  <2> QED BY <2>1
<1>3. ReadingTypes'
  BY <1>2 DEF ReadingTypes
<1>4. PlayerInv'
  <2>1. CASE r = Player
    <3>1. PICK now, m : now = reading[Player] /\ m = FileSize
      OBVIOUS
    <3>2. DOMAIN now = {"pc", "offset", "size", "current", "got"} /\ Player \in DOMAIN reading
      BY <3>1 DEF ReadingTypes, Readers
    <3>3. reading'[Player] = [now EXCEPT !.pc = "idle", !.offset = offset, !.got = got]
      BY <1>2, <2>1, <3>1, <3>2
    <3>4. /\ reading'[Player].pc = "idle" /\ reading'[Player].offset = offset
          /\ reading'[Player].got = got
      BY <3>2, <3>3
    <3>5. /\ now.offset \in 0 .. m /\ now.size \in Nat \ {0} /\ m \in Nat
          /\ conv.complete \/ m > now.offset
          /\ conv.owner # Player
      BY <1>0, <2>1, <3>1 DEF Pread, PlayerInv
    <3>6. /\ offset \in 0 .. m
          /\ got = "end" => conv.complete /\ offset = m
          /\ got \in {"sound", "end"}
      BY <1>2, <2>1, <3>1, <3>5 DEF MaxOf, MinOf
    <3> HIDE DEF FileSize
    <3> QED BY <1>0, <1>1, <3>1, <3>4, <3>5, <3>6 DEF PlayerInv
  <2>2. CASE r # Player
    <3>1. reading'[Player] = reading[Player]
      BY <1>2, <2>2 DEF ReadingTypes
    <3> QED BY <1>0, <1>1, <3>1, PlayerStays
  <2> QED BY <2>1, <2>2
<1> QED BY <1>1, <1>3, <1>4

LEMMA HFillUntil ==
  ASSUME HInv, NEW r \in Readers, FillUntil(r)
  PROVE  HInv'
<1> USE DEF HInv
<1>0. FileSize \in Nat /\ FileSize' = FileSize
  BY FileSizeLemma DEF FillUntil, FileSize
<1>1. BufferTypes'
  BY DEF FillUntil, BufferTypes
<1>2. CASE MustConvert(r)
  <2>1. ~conv.complete /\ conv' = [conv EXCEPT !.owner = r, !.step = "more"]
        /\ UNCHANGED <<in, reading>>
    BY <1>2 DEF FillUntil, MustConvert
  <2>2. /\ DOMAIN conv' = DOMAIN conv /\ conv'.owner = r /\ conv'.read = conv.read
        /\ conv'.written = conv.written /\ conv'.complete = conv.complete
    BY <2>1 DEF ConvTypes
  <2>3. ConvTypes'
    BY <2>1, <2>2 DEF ConvTypes
  <2>4. ReadingTypes'
    BY <2>1 DEF ReadingTypes
  <2>5. PICK now, n : now = reading[Player] /\ n = FileSize
    OBVIOUS
  <2>6. r = Player => now.pc = "FillUntil"
    BY <2>5 DEF FillUntil
  <2> HIDE DEF FileSize
  <2>7. PlayerInv'
    BY <1>0, <2>1, <2>2, <2>5, <2>6 DEF PlayerInv
  <2> QED BY <1>1, <2>3, <2>4, <2>7
<1>3. CASE ~MustConvert(r)
  <2>1. reading' = [reading EXCEPT ![r].pc = "pread"] /\ UNCHANGED conv /\ UNCHANGED in
    BY <1>3 DEF FillUntil, Reading
  <2>2. ConvTypes' /\ ReadingTypes'
    BY <2>1 DEF ConvTypes, ReadingTypes
  <2>3. PlayerInv'
    <3>1. CASE r = Player
      <4>1. PICK now, n : now = reading[Player] /\ n = FileSize
        OBVIOUS
      <4>2. DOMAIN now = {"pc", "offset", "size", "current", "got"} /\ Player \in DOMAIN reading
        BY <4>1 DEF ReadingTypes, Readers
      <4>3. reading'[Player] = [now EXCEPT !.pc = "pread"]
        BY <2>1, <3>1, <4>1, <4>2
      <4>4. /\ reading'[Player].pc = "pread" /\ reading'[Player].offset = now.offset
            /\ reading'[Player].size = now.size /\ reading'[Player].got = now.got
        BY <4>2, <4>3
      <4>5. /\ now.offset \in 0 .. n /\ now.size \in Nat \ {0} /\ n \in Nat
            /\ now.got \notin {"end", "zeros"} /\ conv.owner = Nobody
        BY <1>0, <3>1, <4>1 DEF FillUntil, PlayerInv
      <4>6. conv.complete \/ n > now.offset
        BY <1>3, <3>1, <4>1, <4>5 DEF MustConvert, RequiredMinWritten
      <4>7. conv.owner # Player
        BY <4>5, HandlerAssumption DEF Readers
      <4> HIDE DEF FileSize
      <4> QED BY <1>0, <2>1, <4>1, <4>4, <4>5, <4>6, <4>7 DEF PlayerInv
    <3>2. CASE r # Player
      <4>1. reading'[Player] = reading[Player]
        BY <2>1, <3>2 DEF ReadingTypes
      <4> QED BY <1>0, <2>1, <4>1, PlayerStays
    <3> QED BY <3>1, <3>2
  <2> QED BY <1>1, <2>2, <2>3
<1> QED BY <1>2, <1>3

\* A step of the conversion that makes the file longer, or leaves it, and does
\* not let go of the mutex.
LEMMA HConversion ==
  ASSUME HInv, BufferTypes', UNCHANGED <<in, reading>>, ConvTypes', ~conv.complete,
         FileSize' >= FileSize, conv'.owner = conv.owner
  PROVE  HInv'
<1>1. FileSize \in Nat /\ FileSize' \in Nat
  <2>1. BufferTypes' => FileSize' \in Nat
    BY LenProperties DEF BufferTypes, IsSequence, FileSize
  <2> QED BY <2>1, FileSizeLemma DEF HInv
<1>2. PlayerInv'
  BY <1>1, PlayerStays DEF HInv
<1> QED BY <1>2 DEF HInv, ReadingTypes

LEMMA HConverts ==
  ASSUME HInv, NEW r \in Readers, Converts(r), ~Filled(r)
  PROVE  HInv'
<1> USE DEF HInv
<1>1. ~conv.complete
  BY HandlerAssumption DEF Converts, FillBuffer, WriteProcessed, SaveOutputValues,
     ResetMaxValues, Close, Converting, ConvTypes
<1>2. in.real \in Nat /\ FRAGM \in Nat /\ FileSize \in Nat
  BY HandlerAssumption, FileSizeLemma DEF BufferTypes
<1>3. CASE FillBuffer(r)
  <2>1. PICK n, step : /\ n = Readable
                       /\ conv' = [conv EXCEPT !.read = @ + n, !.step = step]
    BY <1>3 DEF FillBuffer
  <2>2. n \in Nat /\ conv.read + n <= in.real
    BY <1>2, <2>1 DEF Readable, MinOf, ConvTypes
  <2>3. /\ DOMAIN conv' = DOMAIN conv /\ conv'.read = conv.read + n
        /\ conv'.written = conv.written /\ conv'.complete = conv.complete
        /\ conv'.owner = conv.owner
    BY <2>1 DEF ConvTypes
  <2>4. UNCHANGED <<in, buf, reading>>
    BY <1>3 DEF FillBuffer
  <2>5. ConvTypes'
    BY <1>1, <1>2, <2>2, <2>3, <2>4 DEF ConvTypes
  <2>6. BufferTypes' /\ FileSize' = FileSize
    BY <2>4 DEF BufferTypes, FileSize
  <2> HIDE DEF FileSize
  <2> QED BY <1>1, <1>2, <2>3, <2>4, <2>5, <2>6, HConversion
<1>4. CASE WriteProcessed(r)
  <2>1. PICK step, upto :
          /\ upto \in conv.written .. conv.read
          /\ buf' = sf_writef_float(buf, OUT, Frames(conv.written, upto))
          /\ conv' = [conv EXCEPT !.written = upto, !.step = step]
    BY <1>4 DEF WriteProcessed
  <2>2. UNCHANGED <<in, reading>>
    BY <1>4 DEF WriteProcessed
  <2>3. /\ DOMAIN conv' = DOMAIN conv /\ conv'.read = conv.read
        /\ conv'.written = upto /\ conv'.complete = conv.complete
        /\ conv'.owner = conv.owner
    BY <2>1 DEF ConvTypes
  <2>4. conv.written \in Nat /\ upto \in Nat /\ conv.written <= upto /\ upto <= conv.read
    BY <1>2, <2>1 DEF ConvTypes
  <2>5. IsSequence(Frames(conv.written, upto))
    BY <2>4, FramesLemma
  <2>6. BufferTypes' /\ FileSize' >= FileSize
    BY <2>1, <2>2, <2>5, WritesGrow DEF BufferTypes, FileSize
  <2>7. ConvTypes'
    BY <1>1, <1>2, <2>2, <2>3, <2>4 DEF ConvTypes
  <2> HIDE DEF FileSize
  <2> QED BY <1>1, <2>2, <2>3, <2>6, <2>7, HConversion
<1>5. CASE SaveOutputValues(r) \/ ResetMaxValues(r)
  <2>1. PICK step : conv' = [conv EXCEPT !.step = step]
    BY <1>5 DEF SaveOutputValues, ResetMaxValues
  <2>2. UNCHANGED <<in, buf, reading>>
    BY <1>5 DEF SaveOutputValues, ResetMaxValues
  <2>3. /\ DOMAIN conv' = DOMAIN conv /\ conv'.read = conv.read
        /\ conv'.written = conv.written /\ conv'.complete = conv.complete
        /\ conv'.owner = conv.owner
    BY <2>1 DEF ConvTypes
  <2>4. ConvTypes'
    BY <2>2, <2>3 DEF ConvTypes
  <2>5. BufferTypes' /\ FileSize' = FileSize
    BY <2>2 DEF BufferTypes, FileSize
  <2> HIDE DEF FileSize
  <2> QED BY <1>1, <1>2, <2>2, <2>3, <2>4, <2>5, HConversion
<1>6. CASE Close(r)
  <2>1. /\ buf' = sf_close(buf, OUT, Frames(conv.written, conv.read))
        /\ conv' = [conv EXCEPT !.written = conv.read, !.step = "closed"]
        /\ UNCHANGED <<in, reading>>
    BY <1>6 DEF Close
  <2>2. /\ DOMAIN conv' = DOMAIN conv /\ conv'.read = conv.read
        /\ conv'.written = conv.read /\ conv'.complete = conv.complete
        /\ conv'.owner = conv.owner
    BY <2>1 DEF ConvTypes
  <2>3. conv.written \in Nat /\ conv.read \in Nat /\ conv.written <= conv.read
    BY <1>2 DEF ConvTypes
  <2>4. IsSequence(Frames(conv.written, conv.read))
    BY <2>3, FramesLemma
  <2>5. BufferTypes' /\ FileSize' >= FileSize
    BY <2>1, <2>4, WritesGrow DEF BufferTypes, FileSize
  <2>6. ConvTypes'
    BY <1>1, <1>2, <2>1, <2>2, <2>3 DEF ConvTypes
  <2> HIDE DEF FileSize
  <2> QED BY <1>1, <2>1, <2>2, <2>5, <2>6, HConversion
<1> QED BY <1>3, <1>4, <1>5, <1>6 DEF Converts

LEMMA HFilled ==
  ASSUME HInv, NEW r \in Readers, Filled(r)
  PROVE  HInv'
<1> USE DEF HInv
<1>0. FileSize \in Nat /\ FileSize' = FileSize
  BY FileSizeLemma DEF Filled, FileSize
<1>1. BufferTypes' /\ UNCHANGED in
  BY DEF Filled, BufferTypes
<1>2. ~conv.complete /\ Player # Nobody /\ conv.owner = r
  BY HandlerAssumption DEF Filled, ConvTypes, Readers
<1>3. /\ DOMAIN conv' = DOMAIN conv /\ conv'.owner = Nobody /\ conv'.read = conv.read
      /\ conv'.written = conv.written
      /\ conv'.complete \/ ~(FileSize < RequiredMinWritten(r))
  <2>1. CASE conv' = [conv EXCEPT !.complete = TRUE, !.owner = Nobody]
    BY <2>1 DEF ConvTypes
  <2>2. CASE ~MustConvert(r) /\ conv' = [conv EXCEPT !.owner = Nobody]
    <3>1. FileSize < RequiredMinWritten(r) => MustConvert(r)
      BY <1>2 DEF MustConvert
    <3> HIDE DEF FileSize
    <3> QED BY <2>2, <3>1 DEF ConvTypes
  <2> QED BY <2>1, <2>2 DEF Filled
<1>4. reading' = [reading EXCEPT ![r].pc = "pread"]
  BY DEF Filled, Reading
<1>5. ConvTypes' /\ ReadingTypes'
  BY <1>1, <1>3, <1>4 DEF ConvTypes, ReadingTypes
<1>6. PlayerInv'
  <2>1. CASE r = Player
    <3>1. PICK now, n : now = reading[Player] /\ n = FileSize
      OBVIOUS
    <3>2. DOMAIN now = {"pc", "offset", "size", "current", "got"} /\ Player \in DOMAIN reading
      BY <3>1 DEF ReadingTypes, Readers
    <3>3. reading'[Player] = [now EXCEPT !.pc = "pread"]
      BY <1>4, <2>1, <3>1, <3>2
    <3>4. /\ reading'[Player].pc = "pread" /\ reading'[Player].offset = now.offset
          /\ reading'[Player].size = now.size /\ reading'[Player].got = now.got
      BY <3>2, <3>3
    <3>5. /\ now.offset \in 0 .. n /\ now.size \in Nat \ {0} /\ n \in Nat
          /\ now.got \notin {"end", "zeros"}
      BY <1>0, <1>2, <2>1, <3>1 DEF PlayerInv
    <3>6. conv'.complete \/ n > now.offset
      BY <1>3, <2>1, <3>1, <3>5 DEF RequiredMinWritten
    <3> HIDE DEF FileSize
    <3> QED BY <1>0, <1>2, <1>3, <3>1, <3>4, <3>5, <3>6 DEF PlayerInv
  <2>2. CASE r # Player
    <3>1. reading'[Player] = reading[Player]
      BY <1>4, <2>2 DEF ReadingTypes
    <3> HIDE DEF FileSize
    <3> QED BY <1>0, <1>2, <1>3, <3>1, PlayerStays
  <2> QED BY <2>1, <2>2
<1> QED BY <1>1, <1>5, <1>6

\* What is left: the threads that ask for the size, and the status page.
LEMMA HOthers ==
  ASSUME HInv, UNCHANGED <<in, buf, conv, reading>>
  PROVE  HInv'
  BY DEF HInv, BufferTypes, ConvTypes, ReadingTypes, PlayerInv, FileSize

LEMMA HStep == HInv /\ [Next]_vars => HInv'
<1> SUFFICES ASSUME HInv, [Next]_vars PROVE HInv'
  OBVIOUS
<1>1. ASSUME NEW r \in Readers, Read(r) \/ Pretend(r) \/ FillUntil(r) \/ Pread(r)
      PROVE  HInv'
  BY <1>1, HRead, HPretend, HFillUntil, HPread
<1>2. ASSUME NEW r \in Readers, Converts(r)
      PROVE  HInv'
  BY <1>2, HConverts, HFilled
<1>3. ASSUME NEW s \in Stats,
             StatReadsSize(s) \/ StatReadsFrames(s) \/ StatStores(s) \/ StatReturns(s)
      PROVE  HInv'
  BY <1>3, HOthers DEF StatReadsSize, StatReadsFrames, StatStores, StatReturns
<1>4. CASE StatusLooks \/ StatusStores
  BY <1>4, HOthers DEF StatusLooks, StatusStores
<1>5. CASE UNCHANGED vars
  BY <1>5, HOthers DEF vars
<1> QED BY <1>1, <1>2, <1>3, <1>4, <1>5 DEF Next

\* Who reads a file from the beginning (Read, convolve-file-handler.cc:99-140) is
\* never given silence for sound, and is told of the end only at the end of a
\* complete file, however large the file, however it is read, and whatever other
\* readers and the threads that ask for the size do meanwhile.
THEOREM ReadersGetTheirSound == Spec => []SequentialReaderGetsSound
<1>1. HInv => SequentialReaderGetsSound
  BY DEF HInv, PlayerInv, SequentialReaderGetsSound
<1> QED BY HInit, HStep, <1>1, PTL DEF Spec

-----------------------------------------------------------------------------
(* The maximum of the output.                                              *)

LEMMA MInit == Init => MInv
  BY HandlerAssumption DEF Init, MInv

LEMMA MStep == MInv /\ [Next]_vars => MInv'
<1> SUFFICES ASSUME MInv, [Next]_vars PROVE MInv'
  OBVIOUS
<1> USE DEF MInv
<1>1. ASSUME NEW r \in Readers, FillUntil(r)
      PROVE  MInv'
  <2>1. CASE MustConvert(r)
    <3>1. ~conv.complete
      BY <2>1 DEF MustConvert
    <3>2. conv' = [conv EXCEPT !.owner = r, !.step = "more"] /\ UNCHANGED maximum
      BY <1>1, <2>1 DEF FillUntil
    <3>3. conv.step = "more"
      BY <1>1, <3>1 DEF FillUntil
    <3>4. /\ DOMAIN conv' = DOMAIN conv /\ conv'.owner = r /\ conv'.step = "more"
          /\ conv'.complete = conv.complete
      BY <3>2
    <3> QED BY <3>1, <3>2, <3>3, <3>4, HandlerAssumption
  <2>2. CASE ~MustConvert(r)
    <3>1. UNCHANGED <<conv, maximum>>
      BY <1>1, <2>2 DEF FillUntil
    <3> QED BY <3>1
  <2> QED BY <2>1, <2>2
<1>2. ASSUME NEW r \in Readers, FillBuffer(r)
      PROVE  MInv'
  BY <1>2, HandlerAssumption DEF FillBuffer, Converting
<1>3. ASSUME NEW r \in Readers, WriteProcessed(r)
      PROVE  MInv'
  BY <1>3, HandlerAssumption DEF WriteProcessed, Converting
<1>4. ASSUME NEW r \in Readers, SaveOutputValues(r) \/ ResetMaxValues(r)
      PROVE  MInv'
  BY <1>4, HandlerAssumption DEF SaveOutputValues, ResetMaxValues, Converting, Saved
<1>5. ASSUME NEW r \in Readers, Close(r) \/ Filled(r)
      PROVE  MInv'
  BY <1>5, HandlerAssumption DEF Close, Filled, Converting
<1>6. CASE StatusStores
  <2>1. PICK late : /\ maximum' = [maximum EXCEPT !.saved = maximum.processor, !.late = late]
                    /\ late = (maximum.late \/ conv.step \in {"close", "closed"})
    BY <1>6 DEF StatusStores
  <2>2. /\ DOMAIN maximum' = DOMAIN maximum /\ maximum'.processor = maximum.processor
        /\ maximum'.saved = maximum.processor /\ maximum'.truth = maximum.truth
        /\ maximum'.late = late
    BY <2>1
  <2>3. conv.step \in {"close", "closed"} => late
    BY <2>1
  <2> QED BY <1>6, <2>2, <2>3 DEF StatusStores
<1>7. CASE UNCHANGED <<conv, maximum>>
  BY <1>7
<1>8. ASSUME NEW r \in Readers, Read(r) \/ Pretend(r) \/ Pread(r)
      PROVE  MInv'
  BY <1>7, <1>8 DEF Read, Pretend, Pread
<1>9. ASSUME NEW s \in Stats,
             StatReadsSize(s) \/ StatReadsFrames(s) \/ StatStores(s) \/ StatReturns(s)
      PROVE  MInv'
  BY <1>7, <1>9 DEF StatReadsSize, StatReadsFrames, StatStores, StatReturns
<1>10. CASE StatusLooks \/ UNCHANGED vars
  BY <1>7, <1>10 DEF StatusLooks, vars
<1> QED BY <1>1, <1>2, <1>3, <1>4, <1>5, <1>6, <1>8, <1>9, <1>10 DEF Next, Converts

\* Close (convolve-file-handler.cc:488-507) records the maximum of the output
\* before the processor forgets it, and what is recorded for a complete file is
\* the maximum of its sound, unless the status page read it while it was closed.
THEOREM MaximumIsRecorded == Spec => []MaximumRecorded
<1>1. MInv => MaximumRecorded
  BY DEF MInv, MaximumRecorded
<1> QED BY MInit, MStep, <1>1, PTL DEF Spec

-----------------------------------------------------------------------------
(* The size that is reported.                                              *)

StatTypes ==
  /\ left \in Int /\ reported \in Int
  /\ DOMAIN stat = Stats
  /\ \A s \in Stats : DOMAIN stat[s] = {"pc", "current", "size", "alone"}

\* At the end nothing is left; what a Stat has at hand is larger than the first
\* size reported; and alone it has what suffices for the complete file.
SInv ==
  /\ HInv /\ MInv /\ StatTypes
  /\ conv.step \in {"save", "reset", "close", "closed"} => left = 0
  /\ reported >= Oversized(in.size)
  /\ \A s \in Stats :
       /\ stat[s].pc = "frames" => stat[s].current \in Int
       /\ stat[s].pc = "store" => stat[s].size \in Int /\ stat[s].size >= Oversized(in.size)
       /\ stat[s].alone =>
            /\ conv.complete
            /\ stat[s].pc = "frames" => stat[s].current = FileSize
            /\ stat[s].pc = "store" => stat[s].size >= FileSize
            /\ stat[s].pc = "return" => reported >= FileSize
            /\ stat[s].pc # "idle"
            /\ \A v \in Stats : v # s => stat[v].pc = "idle"

LEMMA Proportion ==
  ASSUME NEW n \in Nat \ {0}, NEW m \in Int
  PROVE  (n * m) \div n = m
  OBVIOUS

LEMMA Sizes ==
  ASSUME NEW size \in Nat
  PROVE  /\ Oversized(size) \in Nat /\ StartEstimating(size) \in Nat
         /\ Oversized(size) >= StartEstimating(size)
  BY DEF Oversized, StartEstimating

LEMMA SInit == Init => SInv
<1> SUFFICES ASSUME Init PROVE SInv
  OBVIOUS
<1>1. in \in Input /\ in.size \in Nat /\ in.frames \in Nat
  BY HandlerAssumption DEF Init
<1>2. Oversized(in.size) \in Nat
  BY <1>1, Sizes
<1>3. StatTypes /\ reported >= Oversized(in.size)
  <2> HIDE DEF Oversized
  <2> QED BY <1>1, <1>2 DEF Init, StatTypes
<1>4. \A s \in Stats : stat[s].pc = "idle" /\ stat[s].alone = FALSE
  BY DEF Init
<1>5. conv.step = "more"
  BY DEF Init
<1> QED BY <1>3, <1>4, <1>5, HInit, MInit DEF SInv

\* The conversion and the readers: what is complete stays as it is.
LEMMA SConversion ==
  ASSUME SInv, HInv', MInv', UNCHANGED <<in, stat, reported>>, left' \in Int,
         conv'.step \in {"save", "reset", "close", "closed"} => left' = 0,
         conv.complete => conv'.complete /\ FileSize' = FileSize
  PROVE  SInv'
<1>1. StatTypes' /\ reported' >= Oversized(in.size)'
  BY DEF SInv, StatTypes, Oversized
<1>2. ASSUME NEW s \in Stats
      PROVE  /\ (stat[s].pc = "frames")' => stat'[s].current \in Int
             /\ (stat[s].pc = "store")' => stat'[s].size \in Int /\ stat'[s].size >= Oversized(in.size)'
             /\ stat'[s].alone => 
                  /\ conv'.complete
                  /\ stat'[s].pc = "frames" => stat'[s].current = FileSize'
                  /\ stat'[s].pc = "store" => stat'[s].size >= FileSize'
                  /\ stat'[s].pc = "return" => reported' >= FileSize'
                  /\ stat'[s].pc # "idle"
                  /\ \A v \in Stats : v # s => stat'[v].pc = "idle"
  <2> HIDE DEF FileSize, Oversized
  <2>1. Oversized(in.size)' = Oversized(in.size)
    BY DEF Oversized
  <2> QED BY <2>1 DEF SInv
<1> QED BY <1>1, <1>2 DEF SInv

LEMMA SConverts ==
  ASSUME SInv, HInv', MInv', NEW r \in Readers, Converts(r) \/ FillUntil(r)
  PROVE  SInv'
<1> USE DEF SInv
<1>0. /\ DOMAIN conv = {"owner", "step", "read", "written", "complete"}
      /\ left \in Int
      /\ conv.complete => conv.owner = Nobody
      /\ Nobody \notin Readers
  BY HandlerAssumption DEF HInv, ConvTypes, StatTypes
<1>1. CASE FillUntil(r)
  <2>1. UNCHANGED <<in, stat, reported, left, buf>>
    BY <1>1 DEF FillUntil
  <2>2. FileSize' = FileSize
    BY <2>1 DEF FileSize
  <2>3. CASE MustConvert(r)
    <3>1. ~conv.complete /\ conv' = [conv EXCEPT !.owner = r, !.step = "more"]
      BY <1>1, <2>3 DEF FillUntil, MustConvert
    <3>2. conv'.step = "more"
      BY <1>0, <3>1
    <3> HIDE DEF SInv
    <3> QED BY <1>0, <2>1, <3>1, <3>2, SConversion
  <2>4. CASE ~MustConvert(r)
    <3>1. UNCHANGED conv
      BY <1>1, <2>4 DEF FillUntil
    <3>2. conv'.step \in {"save", "reset", "close", "closed"} => left' = 0
      BY <2>1, <3>1
    <3> HIDE DEF SInv, FileSize
    <3> QED BY <1>0, <2>1, <2>2, <3>1, <3>2, SConversion
  <2> QED BY <2>3, <2>4
<1>2. CASE Converts(r)
  <2>1. conv.owner = r /\ ~conv.complete
    BY <1>0, <1>2 DEF Converts, FillBuffer, WriteProcessed, SaveOutputValues,
       ResetMaxValues, Close, Filled, Converting
  <2>2. UNCHANGED <<in, stat, reported>>
    BY <1>2 DEF Converts, FillBuffer, WriteProcessed, SaveOutputValues,
       ResetMaxValues, Close, Filled
  <2>3. /\ left' \in Int
        /\ conv'.step \in {"save", "reset", "close", "closed"} => left' = 0
    <3>1. CASE FillBuffer(r)
      <4>1. PICK n : n = Readable
        OBVIOUS
      <4>2. n \in Int
        <5>1. conv.read \in Int /\ in.real \in Nat /\ FRAGM \in Nat
          BY HandlerAssumption DEF HInv, BufferTypes, ConvTypes
        <5> QED BY <4>1, <5>1 DEF Readable, MinOf
      <4>3. left' = (IF n = 0 THEN 0 ELSE left - n)
        BY <3>1, <4>1 DEF FillBuffer
      <4>4. PICK step, upto : /\ conv' = [conv EXCEPT !.read = upto, !.step = step]
                              /\ step = IF n = 0 THEN "save" ELSE "write"
        BY <3>1, <4>1 DEF FillBuffer
      <4>5. conv'.step = step
        BY <1>0, <4>4
      <4> QED BY <1>0, <4>2, <4>3, <4>4, <4>5
    <3>2. CASE WriteProcessed(r)
      <4>1. PICK step, upto : /\ conv' = [conv EXCEPT !.written = upto, !.step = step]
                              /\ step = IF left = 0 THEN "save" ELSE "more"
        BY <3>2 DEF WriteProcessed
      <4>2. conv'.step = step /\ left' = left
        BY <1>0, <3>2, <4>1 DEF WriteProcessed
      <4> QED BY <1>0, <4>1, <4>2
    <3>3. CASE SaveOutputValues(r) \/ ResetMaxValues(r) \/ Close(r)
      <4>1. conv.step \in {"save", "reset", "close"} /\ left' = left
        BY <3>3 DEF SaveOutputValues, ResetMaxValues, Close, Converting
      <4> QED BY <1>0, <4>1
    <3>4. CASE Filled(r)
      <4>1. left' = left /\ conv'.step = conv.step
        BY <1>0, <3>4 DEF Filled
      <4> QED BY <1>0, <4>1
    <3> QED BY <1>2, <3>1, <3>2, <3>3, <3>4 DEF Converts
  <2> HIDE DEF SInv
  <2> QED BY <2>1, <2>2, <2>3, SConversion
<1> QED BY <1>1, <1>2

LEMMA SOthers ==
  ASSUME SInv, HInv', MInv', UNCHANGED <<in, stat, reported, left, conv, buf>>
  PROVE  SInv'
<1>1. FileSize' = FileSize
  BY DEF FileSize
<1>2. left' \in Int /\ (conv'.step \in {"save", "reset", "close", "closed"} => left' = 0)
  BY DEF SInv, StatTypes
<1> QED BY <1>1, <1>2, SConversion

\* A step of one Stat, which changes neither the file nor what others have.
LEMMA SOneStat ==
  ASSUME SInv, HInv', MInv', UNCHANGED <<in, buf, left, conv>>,
         NEW s \in Stats, NEW one, reported' \in Int, reported' >= Oversized(in.size),
         DOMAIN one = {"pc", "current", "size", "alone"},
         stat' = [stat EXCEPT ![s] = one],
         one.alone => stat[s].alone /\ one.pc # "idle",
         one.pc = "frames" => one.current \in Int,
         one.pc = "store" => one.size \in Int /\ one.size >= Oversized(in.size),
         one.alone /\ one.pc = "frames" => one.current = FileSize,
         one.alone /\ one.pc = "store" => one.size >= FileSize,
         one.alone /\ one.pc = "return" => reported' >= FileSize,
         stat[s].pc # "idle"
  PROVE  SInv'
<1>1. PICK n, first : n = FileSize /\ first = Oversized(in.size)
  OBVIOUS
<1>2. n = FileSize' /\ first = Oversized(in.size)' /\ n \in Nat /\ first \in Nat
  <2>1. in.size \in Nat /\ BufferTypes
    BY HandlerAssumption DEF SInv, HInv, BufferTypes
  <2> QED BY <1>1, <2>1, FileSizeLemma, Sizes DEF FileSize, Oversized
<1> HIDE DEF FileSize, Oversized
<1>3. \A u \in Stats : stat'[u] = IF u = s THEN one ELSE stat[u]
  BY DEF SInv, StatTypes
<1>4. StatTypes'
  BY <1>3 DEF SInv, StatTypes
<1>5. ASSUME NEW u \in Stats
      PROVE  /\ stat'[u].pc = "frames" => stat'[u].current \in Int
             /\ stat'[u].pc = "store" => stat'[u].size \in Int /\ stat'[u].size >= first
             /\ stat'[u].alone =>
                  /\ conv.complete
                  /\ stat'[u].pc = "frames" => stat'[u].current = n
                  /\ stat'[u].pc = "store" => stat'[u].size >= n
                  /\ stat'[u].pc = "return" => reported' >= n
                  /\ stat'[u].pc # "idle"
                  /\ \A v \in Stats : v # u => stat'[v].pc = "idle"
  <2>1. CASE u = s
    <3>1. stat'[u] = one
      BY <1>3, <2>1
    <3>2. one.alone => conv.complete /\ \A v \in Stats : v # u => stat[v].pc = "idle"
      BY <2>1 DEF SInv
    <3> QED BY <1>1, <1>3, <2>1, <3>1, <3>2
  <2>2. CASE u # s
    <3>1. stat'[u] = stat[u]
      BY <1>3, <2>2
    <3>2. ~stat[u].alone
      BY <2>2 DEF SInv
    <3> QED BY <1>1, <3>1, <3>2 DEF SInv
  <2> QED BY <2>1, <2>2
<1>6. conv'.step \in {"save", "reset", "close", "closed"} => left' = 0
  BY DEF SInv
<1> QED BY <1>1, <1>2, <1>4, <1>5, <1>6 DEF SInv

LEMMA SStatReadsFrames ==
  ASSUME SInv, HInv', MInv', NEW s \in Stats, StatReadsFrames(s)
  PROVE  SInv'
<1> DEFINE done     == in.frames - left
           estimate == Estimate(stat[s].current, done)
<1>1. PICK d, e : d = done /\ e = estimate
  OBVIOUS
<1>2. PICK now, size, pc :
        /\ now = stat[s] /\ now.pc = "frames"
        /\ stat' = [stat EXCEPT ![s].size = size, ![s].pc = pc]
        /\ size = IF d > 0 THEN e ELSE 0
        /\ pc = IF d > 0 /\ IsForward(e) THEN "store" ELSE "return"
  BY <1>1 DEF StatReadsFrames
<1>3. UNCHANGED <<in, buf, left, conv, reported>>
  BY DEF StatReadsFrames
<1>4. /\ DOMAIN now = {"pc", "current", "size", "alone"} /\ now.current \in Int
      /\ left \in Int /\ reported \in Int /\ reported >= Oversized(in.size)
      /\ now.alone => conv.complete /\ now.current = FileSize
  BY <1>2 DEF SInv, StatTypes
<1>5. in.frames \in Nat \ {0} /\ in.size \in Nat /\ Margin \in Nat /\ FileSize \in Nat
  BY HandlerAssumption, FileSizeLemma DEF SInv, HInv, BufferTypes
<1>6. d \in Int /\ (d > 0 => e \in Int)
  BY <1>1, <1>4, <1>5, <1>2 DEF Estimate
<1>7. PICK one : one = [now EXCEPT !.size = size, !.pc = pc]
  OBVIOUS
<1>8. /\ DOMAIN one = DOMAIN now /\ one.pc = pc /\ one.size = size
      /\ one.current = now.current /\ one.alone = now.alone
  BY <1>4, <1>7
<1>9. stat' = [stat EXCEPT ![s] = one]
  <2>1. [stat EXCEPT ![s].size = size, ![s].pc = pc] = [stat EXCEPT ![s] = one]
    BY <1>2, <1>7 DEF SInv, StatTypes
  <2> QED BY <1>2, <2>1
<1>10. Oversized(in.size) \in Nat
  BY <1>5, Sizes
<1>11. pc = "store" => size \in Int /\ size >= Oversized(in.size)
  <2> HIDE DEF Oversized
  <2> QED BY <1>2, <1>4, <1>6, <1>10 DEF IsForward
<1>12. now.alone => d > 0 /\ e >= FileSize
  <2>1. now.alone => left = 0
    BY <1>4 DEF SInv, MInv
  <2>2. now.alone => d = in.frames
    BY <1>1, <1>5, <2>1
  <2>3. now.alone => (in.frames * now.current) \div d = FileSize
    BY <1>4, <1>5, <2>2, Proportion
  <2>4. e = (in.frames * now.current) \div d + Margin
    BY <1>1, <1>2 DEF Estimate
  <2> HIDE DEF FileSize
  <2> QED BY <1>5, <2>2, <2>3, <2>4
<1>13. one.alone /\ one.pc = "store" => one.size >= FileSize
  BY <1>2, <1>8, <1>12
<1>14. one.alone /\ one.pc = "return" => reported >= FileSize
  <2> HIDE DEF FileSize
  <2> QED BY <1>2, <1>4, <1>5, <1>6, <1>8, <1>12 DEF IsForward
<1>15. one.pc # "idle" /\ one.pc # "frames"
  BY <1>2, <1>8
<1> HIDE DEF FileSize, Oversized
<1>16. reported' \in Int /\ reported' >= Oversized(in.size) /\ stat[s].pc # "idle"
  BY <1>2, <1>3, <1>4
<1>17. one.pc = "store" => one.size \in Int /\ one.size >= Oversized(in.size)
  BY <1>8, <1>11
<1>18. one.alone /\ one.pc = "return" => reported' >= FileSize
  BY <1>3, <1>14
<1>19. DOMAIN one = {"pc", "current", "size", "alone"} /\ (one.alone => stat[s].alone)
  BY <1>2, <1>4, <1>8
<1> QED BY <1>3, <1>9, <1>13, <1>15, <1>16, <1>17, <1>18, <1>19, SOneStat

LEMMA SStatStores ==
  ASSUME SInv, HInv', MInv', NEW s \in Stats, StatStores(s) \/ StatReturns(s)
  PROVE  SInv'
<1>1. UNCHANGED <<in, buf, left, conv>>
  BY DEF StatStores, StatReturns
<1>2. PICK now : now = stat[s]
  OBVIOUS
<1>3. /\ DOMAIN now = {"pc", "current", "size", "alone"}
      /\ reported \in Int /\ reported >= Oversized(in.size)
  BY <1>2 DEF SInv, StatTypes
<1>4. CASE StatStores(s)
  <2>1. /\ now.pc = "store" /\ stat' = [stat EXCEPT ![s].pc = "return"]
        /\ reported' = now.size
    BY <1>2, <1>4 DEF StatStores
  <2>2. PICK one : one = [now EXCEPT !.pc = "return"]
    OBVIOUS
  <2>3. /\ DOMAIN one = DOMAIN now /\ one.pc = "return" /\ one.size = now.size
        /\ one.current = now.current /\ one.alone = now.alone
    BY <1>3, <2>2
  <2>4. stat' = [stat EXCEPT ![s] = one]
    BY <1>2, <2>1, <2>2
  <2>5. /\ now.size \in Int /\ now.size >= Oversized(in.size)
        /\ now.alone => now.size >= FileSize
    BY <1>2, <2>1 DEF SInv
  <2> HIDE DEF FileSize, Oversized
  <2>6. reported' \in Int /\ reported' >= Oversized(in.size) /\ stat[s].pc # "idle"
    BY <1>2, <2>1, <2>5
  <2>7. one.alone /\ one.pc = "return" => reported' >= FileSize
    BY <2>1, <2>3, <2>5
  <2>8. DOMAIN one = {"pc", "current", "size", "alone"} /\ (one.alone => stat[s].alone)
    BY <1>2, <1>3, <2>3
  <2>9. one.pc # "idle" /\ one.pc # "frames" /\ one.pc # "store"
    BY <2>3
  <2> QED BY <1>1, <2>4, <2>6, <2>7, <2>8, <2>9, SOneStat
<1>5. CASE StatReturns(s)
  <2>1. PICK one : one = [now EXCEPT !.pc = "idle", !.current = 0, !.size = 0, !.alone = FALSE]
    OBVIOUS
  <2>2. DOMAIN one = DOMAIN now /\ one.pc = "idle" /\ one.alone = FALSE
    BY <1>3, <2>1
  <2>3. /\ now.pc = "return" /\ UNCHANGED reported
        /\ stat' = [stat EXCEPT ![s].pc = "idle", ![s].current = 0, ![s].size = 0,
                                ![s].alone = FALSE]
    BY <1>2, <1>5 DEF StatReturns
  <2>4. stat' = [stat EXCEPT ![s] = one]
    BY <1>2, <2>1, <2>3
  <2> HIDE DEF FileSize, Oversized
  <2> QED BY <1>1, <1>2, <1>3, <2>2, <2>3, <2>4, SOneStat
<1> QED BY <1>4, <1>5

LEMMA SStatReadsSize ==
  ASSUME SInv, HInv', MInv', NEW s \in Stats, StatReadsSize(s)
  PROVE  SInv'
<1>1. UNCHANGED <<in, buf, left, conv, reported>> /\ ~Stating(s)
  BY DEF StatReadsSize
<1>2. PICK n, first, start : /\ n = FileSize /\ first = Oversized(in.size)
                             /\ start = StartEstimating(in.size)
  OBVIOUS
<1>3. /\ n = FileSize' /\ first = Oversized(in.size)' /\ n \in Nat
      /\ {first, start} \subseteq Nat /\ first >= start
  <2>1. in.size \in Nat /\ BufferTypes
    BY HandlerAssumption DEF SInv, HInv, BufferTypes
  <2> QED BY <1>1, <1>2, <2>1, FileSizeLemma, Sizes DEF FileSize, Oversized
<1>4. PICK pc, alone :
        /\ stat' = [u \in Stats |-> IF u = s THEN [pc |-> pc, current |-> n, size |-> 0,
                                                  alone |-> alone]
                                    ELSE [stat[u] EXCEPT !.alone = FALSE]]
        /\ pc = IF n > start THEN "frames" ELSE "return"
        /\ alone = (Closed /\ \A v \in Stats : ~Stating(v))
  <2> DEFINE free == Closed /\ \A v \in Stats : ~Stating(v)
  <2>1. /\ stat' = [u \in Stats |->
             IF u = s
             THEN [pc |-> IF FileSize > StartEstimating(in.size) THEN "frames" ELSE "return",
                   current |-> FileSize, size |-> 0, alone |-> free]
             ELSE [stat[u] EXCEPT !.alone = FALSE]]
    BY DEF StatReadsSize
  <2> HIDE DEF free, FileSize, StartEstimating
  <2>2. PICK pc, alone : pc = (IF n > start THEN "frames" ELSE "return") /\ alone = free
    OBVIOUS
  <2>3. stat' = [u \in Stats |-> IF u = s THEN [pc |-> pc, current |-> n, size |-> 0,
                                               alone |-> alone]
                                 ELSE [stat[u] EXCEPT !.alone = FALSE]]
    BY <1>2, <2>1, <2>2
  <2> QED BY <2>2, <2>3 DEF free
<1> HIDE DEF FileSize, Oversized, StartEstimating
<1>5. /\ stat'[s].pc = pc /\ stat'[s].current = n /\ stat'[s].alone = alone
      /\ DOMAIN stat'[s] = {"pc", "current", "size", "alone"}
  BY <1>4
<1>6. \A u \in Stats \ {s} :
        /\ stat'[u].pc = stat[u].pc /\ stat'[u].current = stat[u].current
        /\ stat'[u].size = stat[u].size /\ stat'[u].alone = FALSE
        /\ DOMAIN stat'[u] = DOMAIN stat[u]
  <2> SUFFICES ASSUME NEW u \in Stats, u # s
               PROVE  /\ stat'[u].pc = stat[u].pc /\ stat'[u].current = stat[u].current
                      /\ stat'[u].size = stat[u].size /\ stat'[u].alone = FALSE
                      /\ DOMAIN stat'[u] = DOMAIN stat[u]
    OBVIOUS
  <2>1. stat'[u] = [stat[u] EXCEPT !.alone = FALSE]
    BY <1>4
  <2>2. DOMAIN stat[u] = {"pc", "current", "size", "alone"}
    BY DEF SInv, StatTypes
  <2> QED BY <2>1, <2>2
<1>7. StatTypes'
  <2>1. DOMAIN stat' = Stats
    BY <1>4
  <2> QED BY <1>1, <1>5, <1>6, <2>1 DEF SInv, StatTypes
<1>8. reported \in Int /\ reported >= first
  BY <1>2 DEF SInv, StatTypes
<1>9. alone => conv.complete /\ \A v \in Stats : v # s => stat'[v].pc = "idle"
  <2>1. alone => conv.complete /\ \A v \in Stats : stat[v].pc = "idle"
    BY <1>4 DEF Closed, Stating
  <2> QED BY <1>6, <2>1
<1>10. pc = "return" => reported >= n
  BY <1>3, <1>4, <1>8
<1>11. pc \in {"frames", "return"}
  BY <1>4
<1>12. ASSUME NEW u \in Stats
       PROVE  /\ stat'[u].pc = "frames" => stat'[u].current \in Int
              /\ stat'[u].pc = "store" => stat'[u].size \in Int /\ stat'[u].size >= first
              /\ stat'[u].alone =>
                   /\ conv.complete
                   /\ stat'[u].pc = "frames" => stat'[u].current = n
                   /\ stat'[u].pc = "store" => stat'[u].size >= n
                   /\ stat'[u].pc = "return" => reported' >= n
                   /\ stat'[u].pc # "idle"
                   /\ \A v \in Stats : v # u => stat'[v].pc = "idle"
  <2>1. CASE u = s
    BY <1>1, <1>3, <1>5, <1>9, <1>10, <1>11, <2>1
  <2>2. CASE u # s
    BY <1>2, <1>6, <2>2 DEF SInv
  <2> QED BY <2>1, <2>2
<1>13. conv'.step \in {"save", "reset", "close", "closed"} => left' = 0
  BY <1>1 DEF SInv
<1> QED BY <1>1, <1>3, <1>7, <1>8, <1>12, <1>13 DEF SInv

LEMMA SStep == SInv /\ [Next]_vars => SInv'
<1> SUFFICES ASSUME SInv, [Next]_vars PROVE SInv'
  OBVIOUS
<1>0. HInv' /\ MInv'
  BY HStep, MStep DEF SInv
<1>1. ASSUME NEW r \in Readers, FillUntil(r) \/ Converts(r)
      PROVE  SInv'
  BY <1>0, <1>1, SConverts
<1>2. ASSUME NEW r \in Readers, Read(r) \/ Pretend(r) \/ Pread(r)
      PROVE  SInv'
  <2>1. UNCHANGED <<in, stat, reported, left, conv, buf>>
    BY <1>2 DEF Read, Pretend, Pread
  <2> QED BY <1>0, <2>1, SOthers
<1>3. ASSUME NEW s \in Stats,
             StatReadsSize(s) \/ StatReadsFrames(s) \/ StatStores(s) \/ StatReturns(s)
      PROVE  SInv'
  BY <1>0, <1>3, SStatReadsSize, SStatReadsFrames, SStatStores
<1>4. CASE StatusLooks \/ StatusStores
  <2>1. UNCHANGED <<in, stat, reported, left, conv, buf>>
    BY <1>4 DEF StatusLooks, StatusStores
  <2> QED BY <1>0, <2>1, SOthers
<1>5. CASE UNCHANGED vars
  <2>1. UNCHANGED <<in, stat, reported, left, conv, buf>>
    BY <1>5 DEF vars
  <2> QED BY <1>0, <2>1, SOthers
<1> QED BY <1>1, <1>2, <1>3, <1>4, <1>5 DEF Next

\* The size reported (Stat, convolve-file-handler.cc:179-202) is never below the
\* first one, 1.25 times that of the input, although several threads may estimate
\* it at once; and a Stat nobody interferes with reports enough of a complete file.
THEOREM ReportedSizeSuffices == Spec => []SizeIsEnough
<1>1. SInv => SizeIsEnough
  BY DEF SInv, SizeIsEnough
<1> QED BY SInit, SStep, <1>1, PTL DEF Spec

-----------------------------------------------------------------------------
(* Headers.                                                                *)

\* Sequences put together fall apart where they were joined.
LEMMA ConcatParts ==
  ASSUME NEW s, NEW t, IsSequence(s), IsSequence(t)
  PROVE  /\ SubSeq(s \o t, 1, Len(s)) = s
         /\ SubSeq(s \o t, Len(s) + 1, Len(s \o t)) = t
<1>1. PICK S : s \in Seq(S) /\ t \in Seq(S)
  <2>1. PICK S, T : s \in Seq(S) /\ t \in Seq(T)
    BY DEF IsSequence
  <2>2. s \in Seq(S \cup T) /\ t \in Seq(S \cup T)
    BY <2>1, SeqMonotonic
  <2> QED BY <2>2
<1> DEFINE u == s \o t
           m == Len(s)
           n == Len(t)
           a == SubSeq(u, 1, m)
           b == SubSeq(u, m + 1, m + n)
<1>2. /\ u \in Seq(S) /\ Len(u) = m + n /\ m \in Nat /\ n \in Nat
      /\ \A i \in 1 .. m : u[i] = s[i] /\ u[i] \in S
      /\ \A i \in 1 .. n : u[m + i] = t[i] /\ u[m + i] \in S
  <2>1. u \in Seq(S) /\ Len(u) = m + n
        /\ \A i \in 1 .. m + n : u[i] = IF i <= m THEN s[i] ELSE t[i - m]
    BY <1>1, ConcatProperties
  <2>2. m \in Nat /\ n \in Nat /\ (\A i \in 1 .. m : s[i] \in S) /\ \A i \in 1 .. n : t[i] \in S
    BY <1>1, LenProperties, ElementOfSeq
  <2> HIDE DEF u, m, n
  <2>3. \A i \in 1 .. m : i \in 1 .. m + n /\ i <= m
    BY <2>2
  <2>4. \A i \in 1 .. n : m + i \in 1 .. m + n /\ ~(m + i <= m) /\ (m + i) - m = i
    BY <2>2
  <2> QED BY <2>1, <2>2, <2>3, <2>4
<1> HIDE DEF u
<1>3. a = s
  <2>1. a \in Seq(S) /\ Len(a) = m /\ \A i \in 1 .. m : a[i] = u[i]
    <3>1. \A i \in 1 .. m : u[i] \in S
      BY <1>2
    <3>2. /\ a \in Seq(S) /\ Len(a) = IF 1 <= m THEN m - 1 + 1 ELSE 0
          /\ \A i \in 1 .. m - 1 + 1 : a[i] = u[1 + i - 1]
      BY <1>2, <3>1, SubSeqProperties
    <3> HIDE DEF a, m
    <3> QED BY <1>2, <3>2
  <2> HIDE DEF a
  <2> QED BY <1>1, <1>2, <2>1, SeqEqual
<1>4. b = t
  <2>1. b \in Seq(S) /\ Len(b) = n /\ \A i \in 1 .. n : b[i] = u[m + i]
    <3>1. \A i \in m + 1 .. m + n : u[i] \in S
      <4> SUFFICES ASSUME NEW i \in m + 1 .. m + n PROVE u[i] \in S
        OBVIOUS
      <4>1. i - m \in 1 .. n /\ m + (i - m) = i
        BY <1>2
      <4> QED BY <1>2, <4>1
    <3>2. /\ b \in Seq(S)
          /\ Len(b) = IF m + 1 <= m + n THEN (m + n) - (m + 1) + 1 ELSE 0
          /\ \A i \in 1 .. (m + n) - (m + 1) + 1 : b[i] = u[(m + 1) + i - 1]
      BY <1>2, <3>1, SubSeqProperties
    <3> HIDE DEF b, m, n
    <3> QED BY <1>2, <3>2
  <2> HIDE DEF b
  <2> QED BY <1>1, <1>2, <2>1, SeqEqual
<1> QED BY <1>2, <1>3, <1>4 DEF u

\* Frames that follow each other.
LEMMA FramesTogether ==
  ASSUME NEW n \in Nat, NEW m \in Nat, n <= m
  PROVE  /\ IsSequence(Frames(0, n)) /\ IsSequence(Frames(n, m)) /\ Len(Frames(0, n)) = n
         /\ Frames(0, n) \o Frames(n, m) = Frames(0, m)
<1> DEFINE S == {Sound(i) : i \in 1 .. m}
<1>1. ASSUME NEW j \in Nat, NEW k \in Nat, j <= k, k <= m
      PROVE  /\ Frames(j, k) \in Seq(S) /\ Len(Frames(j, k)) = k - j
             /\ \A i \in 1 .. k - j : Frames(j, k)[i] = Sound(j + i)
  <2>1. k - j \in Nat /\ \A i \in 1 .. k - j : Sound(j + i) \in S
    <3>1. \A i \in 1 .. k - j : j + i \in 1 .. m
      BY <1>1
    <3> QED BY <1>1, <3>1
  <2> HIDE DEF S
  <2>2. Frames(j, k) \in [1 .. k - j -> S] /\ \A i \in 1 .. k - j : Frames(j, k)[i] = Sound(j + i)
    BY <2>1 DEF Frames
  <2>3. PICK l \in Nat, f \in {Frames(j, k)} : l = k - j
    BY <2>1
  <2>4. f \in [1 .. l -> S]
    BY <2>2, <2>3
  <2>5. f \in Seq(S)
    BY <2>4
  <2>6. Len(f) \in Nat /\ 1 .. Len(f) = 1 .. l
    BY <2>4, <2>5, LenProperties
  <2>7. Len(f) = l
    BY <2>6
  <2> QED BY <2>2, <2>3, <2>5, <2>7
<1> DEFINE f == Frames(0, n)
           g == Frames(n, m)
           h == Frames(0, m)
<1>2. /\ f \in Seq(S) /\ Len(f) = n /\ \A i \in 1 .. n : f[i] = Sound(i)
      /\ g \in Seq(S) /\ Len(g) = m - n /\ \A i \in 1 .. m - n : g[i] = Sound(n + i)
      /\ h \in Seq(S) /\ Len(h) = m /\ \A i \in 1 .. m : h[i] = Sound(i)
  <2> HIDE DEF S
  <2>1. \A k \in 0 .. m : /\ Frames(0, k) \in Seq(S) /\ Len(Frames(0, k)) = k
                          /\ \A i \in 1 .. k : Frames(0, k)[i] = Sound(i)
    <3> SUFFICES ASSUME NEW k \in 0 .. m
                 PROVE  /\ Frames(0, k) \in Seq(S) /\ Len(Frames(0, k)) = k
                        /\ \A i \in 1 .. k : Frames(0, k)[i] = Sound(i)
      OBVIOUS
    <3>1. 0 \in Nat /\ k \in Nat /\ 0 <= k /\ k <= m /\ k - 0 = k
      OBVIOUS
    <3>2. \A i \in 1 .. k : 0 + i = i
      OBVIOUS
    <3>3. /\ Frames(0, k) \in Seq(S) /\ Len(Frames(0, k)) = k - 0
          /\ \A i \in 1 .. k - 0 : Frames(0, k)[i] = Sound(0 + i)
      BY <1>1, <3>1
    <3> QED BY <3>1, <3>2, <3>3
  <2>2. n \in 0 .. m /\ m \in 0 .. m /\ m <= m
    OBVIOUS
  <2> QED BY <1>1, <2>1, <2>2
<1> HIDE DEF f, g, h, S
<1>3. /\ f \o g \in Seq(S) /\ Len(f \o g) = m
      /\ \A i \in 1 .. m : (f \o g)[i] = Sound(i)
  <2>1. /\ f \o g \in Seq(S) /\ Len(f \o g) = n + (m - n)
        /\ \A i \in 1 .. n + (m - n) : (f \o g)[i] = IF i <= n THEN f[i] ELSE g[i - n]
    <3>1. f \in Seq(S) /\ g \in Seq(S) /\ Len(f) = n /\ Len(g) = m - n
      BY <1>2
    <3>2. /\ f \o g \in Seq(S) /\ Len(f \o g) = Len(f) + Len(g)
          /\ \A i \in 1 .. Len(f) + Len(g) :
               (f \o g)[i] = IF i <= Len(f) THEN f[i] ELSE g[i - Len(f)]
      BY <3>1, ConcatProperties
    <3> QED BY <3>1, <3>2
  <2>2. \A i \in 1 .. m : /\ i <= n => i \in 1 .. n
                          /\ ~(i <= n) => i - n \in 1 .. m - n /\ n + (i - n) = i
    OBVIOUS
  <2>3. n + (m - n) = m
    OBVIOUS
  <2> QED BY <1>2, <2>1, <2>2, <2>3
<1>4. f \o g = h
  BY <1>2, <1>3, SeqEqual
<1> QED BY <1>2, <1>4 DEF f, g, h, IsSequence

LEMMA ConcatTwice ==
  ASSUME NEW s, NEW t, NEW u, IsSequence(s), IsSequence(t), IsSequence(u)
  PROVE  (s \o t) \o u = s \o (t \o u)
<1>1. PICK S, T, U : s \in Seq(S) /\ t \in Seq(T) /\ u \in Seq(U)
  BY DEF IsSequence
<1> DEFINE V == S \cup T \cup U
<1>2. s \in Seq(V) /\ t \in Seq(V) /\ u \in Seq(V)
  <2>1. S \subseteq V /\ T \subseteq V /\ U \subseteq V
    OBVIOUS
  <2> HIDE DEF V
  <2> QED BY <1>1, <2>1, SeqMonotonic
<1> HIDE DEF V
<1> QED BY <1>2, ConcatAssociative

LEMMA ConcatNothing ==
  ASSUME NEW s, IsSequence(s)
  PROVE  s \o <<>> = s /\ <<>> \o s = s
BY ConcatEmptySeq DEF IsSequence

\* What libsndfile writes is a header.
LEMMA SndHeaderIsHeader ==
  /\ IsHeader(SndHeader(OUT), OUT) /\ IsSequence(SndHeader(OUT)) /\ Len(SndHeader(OUT)) = 2
  /\ \A samples : LET header == [SndHeader(OUT) EXCEPT ![1].samples = samples]
                  IN  IsHeader(header, OUT) /\ header[1].samples = samples
<1> DEFINE one == StreamInfo(OUT, 0, "sndfile", Nothing)
           two == LastBlock(Metadata("VORBIS_COMMENT"))
           told(samples) == [one EXCEPT !.samples = samples]
<1>1. /\ two.type = "VORBIS_COMMENT" /\ two.last = TRUE
      /\ \A b : \/ b = one
                \/ \E samples : b = told(samples)
                => /\ b.type = "STREAMINFO" /\ b.last = FALSE /\ b.channels = OUT
                   /\ b.framed = "sndfile" /\ b.md5 = Nothing
      /\ \A samples : told(samples).samples = samples
  BY DEF StreamInfo, LastBlock, Metadata
<1> HIDE DEF one, two, told
<1>2. ASSUME NEW b, b = one \/ \E samples : b = told(samples)
      PROVE  IsHeader(<<b, two>>, OUT)
  <2>1. DOMAIN <<b, two>> = 1 .. 2 /\ Len(<<b, two>>) = 2
    OBVIOUS
  <2>2. <<b, two>>[1] = b /\ <<b, two>>[2] = two /\ <<b, two>> # <<>>
    OBVIOUS
  <2>3. \A i \in 1 .. 2 : i = 1 \/ i = 2
    OBVIOUS
  <2> QED BY <1>1, <1>2, <2>1, <2>2, <2>3 DEF IsHeader
<1>3. SndHeader(OUT) = <<one, two>>
  BY DEF SndHeader, one, two
<1>4. \A samples : [<<one, two>> EXCEPT ![1].samples = samples] = <<told(samples), two>>
  <2> SUFFICES ASSUME NEW samples
               PROVE  [<<one, two>> EXCEPT ![1].samples = samples] = <<told(samples), two>>
    OBVIOUS
  <2> QED BY DEF told
<1>5. \A samples : <<told(samples), two>>[1] = told(samples)
  OBVIOUS
<1>6. Len(<<one, two>>) = 2
  OBVIOUS
<1> QED BY <1>1, <1>2, <1>3, <1>4, <1>5, <1>6, SndHeaderLemma

\* What CopyFlacHeader makes of the blocks of a FLAC file is a header as soon as
\* its first block says who frames the sound.
LEMMA FinishedLemma ==
  ASSUME NEW i \in Input, IsFlac(i)
  PROVE  LET blocks == Finished(i)
         IN  /\ blocks \in Seq(Block) /\ Len(blocks) \in Nat \ {0}
             /\ blocks[1].type = "STREAMINFO" /\ blocks[1].samples = i.frames
             /\ \A k \in 1 .. Len(blocks) : /\ blocks[k].type \notin {"SOUND", "SEEKTABLE"}
                                            /\ blocks[k].last <=> k = Len(blocks)
<1> DEFINE K == Kept(i)
           cut == i.blocks[Len(i.blocks)].type = "SEEKTABLE"
           pad == LastBlock(Metadata("PADDING"))
<1>1. /\ K \in Seq(Block) /\ K # <<>> /\ K[1] = i.blocks[1]
      /\ \A k \in DOMAIN K : /\ K[k].type \notin {"SOUND", "SEEKTABLE"}
                             /\ K[k].last <=> k = Len(K) /\ ~cut
  BY KeptLemma
<1>2. Len(K) \in Nat \ {0} /\ DOMAIN K = 1 .. Len(K)
  BY <1>1, LenProperties, EmptySeq
<1>3. K[1].type = "STREAMINFO" /\ K[1].samples = i.frames
  BY <1>1 DEF IsFlac
<1>4. Finished(i) = IF cut THEN K \o <<pad>> ELSE K
  BY DEF Finished
<1>5. pad \in Block /\ pad.type = "PADDING" /\ pad.last = TRUE
  <2>1. PICK b : b = Metadata("PADDING")
    OBVIOUS
  <2>2. b \in Block /\ b.type = "PADDING"
    BY <2>1 DEF Block, BlockType, OrNothing, Metadata
  <2>3. pad = [b EXCEPT !.last = TRUE]
    BY <2>1 DEF LastBlock
  <2> QED BY <2>2, <2>3 DEF Block
<1> HIDE DEF K, cut, pad
<1>6. CASE ~cut
  BY <1>1, <1>2, <1>3, <1>4, <1>6
<1>7. CASE cut
  <2> DEFINE L == K \o <<pad>>
  <2>1. <<pad>> \in Seq(Block) /\ Len(<<pad>>) = 1 /\ <<pad>>[1] = pad
    BY <1>5
  <2>2. /\ L \in Seq(Block) /\ Len(L) = Len(K) + 1
        /\ \A k \in 1 .. Len(K) + 1 : L[k] = IF k <= Len(K) THEN K[k] ELSE <<pad>>[k - Len(K)]
    BY <1>1, <2>1, ConcatProperties
  <2> HIDE DEF L
  <2>3. \A k \in 1 .. Len(K) : k \in 1 .. Len(K) + 1 /\ k <= Len(K)
    BY <1>2
  <2>4. \A k \in 1 .. Len(K) : L[k] = K[k]
    BY <2>2, <2>3
  <2>5. L[Len(K) + 1] = pad
    <3>1. /\ Len(K) + 1 \in 1 .. Len(K) + 1 /\ ~(Len(K) + 1 <= Len(K))
          /\ (Len(K) + 1) - Len(K) = 1
      BY <1>2
    <3> QED BY <2>1, <2>2, <3>1
  <2>6. \A k \in 1 .. Len(L) : /\ L[k].type \notin {"SOUND", "SEEKTABLE"}
                               /\ L[k].last <=> k = Len(L)
    <3> SUFFICES ASSUME NEW k \in 1 .. Len(L)
                 PROVE  /\ L[k].type \notin {"SOUND", "SEEKTABLE"}
                        /\ L[k].last <=> k = Len(L)
      OBVIOUS
    <3>1. CASE k = Len(K) + 1
      BY <1>5, <2>2, <2>5, <3>1
    <3>2. CASE k # Len(K) + 1
      <4>1. k \in 1 .. Len(K) /\ k # Len(L)
        BY <1>2, <2>2, <3>2
      <4> QED BY <1>1, <1>2, <1>7, <2>4, <4>1
    <3> QED BY <3>1, <3>2
  <2>7. L[1] = K[1] /\ Len(L) \in Nat \ {0}
    BY <1>2, <2>2, <2>4
  <2> QED BY <1>3, <1>4, <1>7, <2>2, <2>6, <2>7 DEF L
<1> QED BY <1>6, <1>7

LEMMA CopiedIsHeader ==
  ASSUME NEW i \in Input, IsFlac(i)
  PROVE  LET copied == CopyFlacHeader(i)
             told   == [copied EXCEPT ![1] = [copied[1] EXCEPT !.framed = "sndfile",
                                                               !.channels = OUT]]
         IN  /\ copied # <<>> /\ IsSequence(told)
             /\ IsHeader(told, OUT) /\ told[1].samples = i.frames
<1> DEFINE blocks == Finished(i)
           l == Len(blocks)
           copied == CopyFlacHeader(i)
           first == [copied[1] EXCEPT !.framed = "sndfile", !.channels = OUT]
           told == [copied EXCEPT ![1] = first]
<1>1. /\ blocks \in Seq(Block) /\ l \in Nat \ {0}
      /\ blocks[1].type = "STREAMINFO" /\ blocks[1].samples = i.frames
      /\ \A k \in 1 .. l : /\ blocks[k].type \notin {"SOUND", "SEEKTABLE"}
                           /\ blocks[k].last <=> k = l
  BY FinishedLemma
<1>2. copied = [k \in DOMAIN blocks |-> Redacted(blocks[k])]
  BY DEF CopyFlacHeader
<1>3. DOMAIN blocks = 1 .. l /\ \A k \in 1 .. l : blocks[k] \in Block
  BY <1>1, LenProperties, ElementOfSeq
<1> HIDE DEF blocks, l
<1>4. \A k \in 1 .. l : /\ Redacted(blocks[k]) \in Block
                        /\ Redacted(blocks[k]).type = blocks[k].type
                        /\ Redacted(blocks[k]).last = blocks[k].last
                        /\ Redacted(blocks[k]).samples = blocks[k].samples
                        /\ Redacted(blocks[k]).md5 = Nothing
  BY <1>3 DEF Block, OrNothing, Redacted
<1> HIDE DEF copied
<1>5. /\ DOMAIN copied = 1 .. l /\ 1 \in 1 .. l
      /\ \A k \in 1 .. l : copied[k] \in Block /\ copied[k] = Redacted(blocks[k])
  BY <1>1, <1>2, <1>3, <1>4
<1>6. /\ first.type = "STREAMINFO" /\ first.last = copied[1].last
      /\ first.samples = i.frames /\ first.channels = OUT
      /\ first.framed = "sndfile" /\ first.md5 = Nothing
  <2>1. copied[1] \in Block
    BY <1>5
  <2>2. /\ first.type = copied[1].type /\ first.last = copied[1].last
        /\ first.samples = copied[1].samples /\ first.channels = OUT
        /\ first.framed = "sndfile" /\ first.md5 = copied[1].md5
    BY <2>1 DEF Block
  <2> HIDE DEF first
  <2> QED BY <1>1, <1>4, <1>5, <2>2
<1> HIDE DEF first
<1>7. /\ DOMAIN told = 1 .. l /\ told[1] = first
      /\ \A k \in 1 .. l : k # 1 => told[k] = copied[k]
  BY <1>5
<1>8. IsSequence(told) /\ IsSequence(copied) /\ Len(told) = l
  <2>1. copied \in Seq(Block)
    <3>1. copied \in [1 .. l -> Block] /\ l \in Nat
      BY <1>1, <1>2, <1>3, <1>5
    <3> QED BY <3>1
  <2>2. told \in Seq(Block \cup {first})
    <3>1. told \in [1 .. l -> Block \cup {first}] /\ l \in Nat
      BY <1>1, <1>5
    <3> HIDE DEF told
    <3> QED BY <3>1
  <2>3. Len(told) \in Nat /\ 1 .. Len(told) = 1 .. l /\ l \in Nat
    BY <1>1, <1>7, <2>2, LenProperties
  <2>4. Len(told) = l
    <3> HIDE DEF told
    <3> QED BY <2>3
  <2> QED BY <2>1, <2>2, <2>4 DEF IsSequence
<1> HIDE DEF told
<1>9. IsHeader(told, OUT)
  <2>1. told # <<>>
    <3>1. <<>> \in Seq(Block) /\ DOMAIN <<>> = {}
      OBVIOUS
    <3> QED BY <1>5, <1>7, <3>1
  <2>2. \A k \in 1 .. l : /\ told[k].type \notin {"SOUND", "SEEKTABLE"}
                          /\ told[k].last <=> k = l
    BY <1>1, <1>4, <1>5, <1>6, <1>7
  <2> QED BY <1>6, <1>7, <1>8, <2>1, <2>2 DEF IsHeader
<1>10. copied # <<>>
  <2>1. DOMAIN <<>> = {}
    OBVIOUS
  <2> QED BY <1>5, <2>1
<1> QED BY <1>6, <1>7, <1>8, <1>9, <1>10 DEF told, first, copied

\* The constructor writes a header, or leaves it to libsndfile.
LEMMA HeaderMade ==
  ASSUME NEW i \in Input
  PROVE  LET b == SetOutputSoundfile(i, OUT, i.workaround)
         IN  /\ b.writes = TRUE /\ IsSequence(b.out)
             /\ i.workaround => b.out = <<>> /\ b.emitted = FALSE /\ b.header_end = 0
             /\ ~i.workaround => /\ b.emitted = TRUE /\ b.header_end = Len(b.out)
                                 /\ IsHeader(b.out, OUT) /\ b.out[1].samples = i.frames
<1> DEFINE made == SetOutputSoundfile(i, OUT, i.workaround)
           new == NewBuffer
<1>0. /\ DOMAIN new = {"out", "writes", "emitted", "header_end"}
      /\ new.out = <<>> /\ new.writes = TRUE /\ new.emitted = FALSE
  BY DEF NewBuffer
<1>1. CASE LooksLikeInputIsFlac(i) /\ ~i.workaround
  <2> DEFINE C == CopyFlacHeader(i)
             T == [C EXCEPT ![1] = [C[1] EXCEPT !.framed = "sndfile", !.channels = OUT]]
             silent  == set_sndfile_writes_enabled(new, FALSE)
             copied  == Appended(silent, C)
             flushed == EmitHeader(copied, OUT)
             told    == Redact(flushed, OUT)
             loud    == set_sndfile_writes_enabled(told, TRUE)
  <2>1. IsFlac(i) /\ C # <<>> /\ IsSequence(C) /\ IsSequence(T) /\ IsHeader(T, OUT)
        /\ T[1].samples = i.frames
    BY <1>1, HandlerAssumption, CopiedIsHeader, CopyFlacHeaderLemma
  <2> HIDE DEF C
  <2>2. /\ DOMAIN silent = DOMAIN new /\ silent.out = <<>> /\ silent.writes = FALSE
        /\ silent.emitted = FALSE
    BY <1>0 DEF set_sndfile_writes_enabled
  <2> HIDE DEF silent, new
  <2>3. /\ DOMAIN copied = DOMAIN new /\ copied.out = C /\ copied.writes = FALSE
        /\ copied.emitted = FALSE
    <3>1. <<>> \o C = C
      BY <2>1, ConcatNothing
    <3> QED BY <1>0, <2>2, <3>1 DEF Appended
  <2> HIDE DEF copied
  <2>4. /\ DOMAIN flushed = DOMAIN new /\ flushed.out = C /\ flushed.writes = FALSE
        /\ flushed.emitted = TRUE
    BY <1>0, <2>3 DEF EmitHeader, SndAppend
  <2> HIDE DEF flushed
  <2>5. /\ DOMAIN told = DOMAIN new /\ told.out = T /\ told.emitted = TRUE
    <3> DEFINE first == [C[1] EXCEPT !.framed = "sndfile", !.channels = OUT]
    <3>1. told = [flushed EXCEPT !.out[1] = first]
      BY <2>1, <2>4 DEF Redact, WriteCharAt
    <3> HIDE DEF first, told
    <3>2. /\ DOMAIN told = DOMAIN new /\ told.out = [C EXCEPT ![1] = first]
          /\ told.emitted = TRUE
      BY <1>0, <2>4, <3>1
    <3> QED BY <3>2 DEF first
  <2> HIDE DEF told, T
  <2>6. /\ DOMAIN loud = DOMAIN new /\ loud.out = T /\ loud.emitted = TRUE /\ loud.writes = TRUE
    BY <1>0, <2>5 DEF set_sndfile_writes_enabled
  <2>7. made = HeaderFinished(loud)
    BY <1>1 DEF SetOutputSoundfile, loud, told, flushed, copied, silent, C, new
  <2> HIDE DEF loud, made
  <2>8. /\ made.out = T /\ made.emitted = TRUE /\ made.writes = TRUE /\ made.header_end = Len(T)
    BY <1>0, <2>6, <2>7 DEF HeaderFinished
  <2> QED BY <1>1, <2>1, <2>8 DEF made
<1>2. CASE ~LooksLikeInputIsFlac(i) /\ ~i.workaround
  <2> DEFINE H == SndHeader(OUT)
             T == [H EXCEPT ![1].samples = i.frames]
             flushed == EmitHeader(new, OUT)
             told == FillIn(flushed, i.frames)
  <2>1. /\ IsSequence(H) /\ H # <<>> /\ IsHeader(T, OUT) /\ T[1].samples = i.frames
    BY SndHeaderIsHeader DEF IsHeader
  <2> HIDE DEF H, new
  <2>2. /\ DOMAIN flushed = DOMAIN new /\ flushed.out = H /\ flushed.writes = TRUE
        /\ flushed.emitted = TRUE
    <3>1. <<>> \o H = H
      BY <2>1, ConcatNothing
    <3>2. flushed = [[new EXCEPT !.out = <<>> \o H] EXCEPT !.emitted = TRUE]
      BY <1>0 DEF EmitHeader, SndAppend, Appended, H
    <3> HIDE DEF flushed
    <3> QED BY <1>0, <3>1, <3>2
  <2> HIDE DEF flushed
  <2>3. /\ DOMAIN told = DOMAIN new /\ told.out = T /\ told.writes = TRUE /\ told.emitted = TRUE
    <3>1. told = [flushed EXCEPT !.out[1] = [flushed.out[1] EXCEPT !.samples = i.frames]]
      BY <2>1, <2>2 DEF FillIn, WriteCharAt
    <3>2. told.out = [flushed.out EXCEPT ![1] = [flushed.out[1] EXCEPT !.samples = i.frames]]
      BY <1>0, <2>2, <3>1
    <3>3. [H EXCEPT ![1] = [H[1] EXCEPT !.samples = i.frames]] = T
      OBVIOUS
    <3> HIDE DEF told
    <3> QED BY <1>0, <2>2, <3>1, <3>2, <3>3
  <2>4. IsSequence(T)
    <3>1. IsSequence(told.out)
      BY <1>0, <2>1, <2>2, WriteCharAtLemma DEF FillIn
    <3> QED BY <2>3, <3>1
  <2>5. made = HeaderFinished(told)
    BY <1>2 DEF SetOutputSoundfile, told, flushed, new
  <2> HIDE DEF told, T, made
  <2>6. /\ made.out = T /\ made.emitted = TRUE /\ made.writes = TRUE /\ made.header_end = Len(T)
    BY <1>0, <2>3, <2>5 DEF HeaderFinished
  <2> QED BY <1>2, <2>1, <2>4, <2>6 DEF made
<1>3. CASE i.workaround
  <2>1. made = HeaderFinished(new)
    BY <1>0, <1>3 DEF SetOutputSoundfile, FillIn
  <2> HIDE DEF made, new
  <2>2. /\ made.out = <<>> /\ made.emitted = FALSE /\ made.writes = TRUE
        /\ made.header_end = Len(<<>>)
    BY <1>0, <2>1 DEF HeaderFinished
  <2>3. IsSequence(<<>>) /\ Len(<<>>) = 0
    BY EmptySeq DEF IsSequence
  <2> QED BY <1>3, <2>2, <2>3 DEF made
<1> QED BY <1>1, <1>2, <1>3

\* The file is a header and the frames written so far. libsndfile writes the
\* header itself where nobody has put one at the beginning, with the first frames.
OneHeader ==
  \E header :
    /\ IsSequence(header) /\ buf.out = header \o Frames(0, conv.written)
    /\ IF buf.emitted THEN IsHeader(header, OUT) ELSE header = <<>> /\ conv.written = 0
    /\ IF in.workaround THEN buf.header_end = 0
       ELSE buf.emitted /\ buf.header_end = Len(header) /\ header[1].samples = in.frames

\* Nothing is written once libsndfile has sought back; and until then, what is
\* left to read is what the input promises and has not been read.
Progress ==
  /\ buf.writes \/ conv.step = "closed"
  /\ conv.step \in {"more", "write"} => left = in.frames - conv.read
  /\ conv.step \in {"save", "reset", "close", "closed"} => conv.read = in.real
  /\ conv.step = "closed" => conv.written = in.real

OInv == OneHeader /\ Progress

LEMMA OInit == Init => OInv
<1> SUFFICES ASSUME Init PROVE OInv
  OBVIOUS
<1>1. in \in Input /\ buf = SetOutputSoundfile(in, OUT, in.workaround)
  BY DEF Init
<1>2. /\ buf.writes = TRUE /\ IsSequence(buf.out)
      /\ in.workaround => buf.out = <<>> /\ buf.emitted = FALSE /\ buf.header_end = 0
      /\ ~in.workaround => /\ buf.emitted = TRUE /\ buf.header_end = Len(buf.out)
                           /\ IsHeader(buf.out, OUT) /\ buf.out[1].samples = in.frames
  BY <1>1, HeaderMade
<1>3. conv.written = 0 /\ conv.read = 0 /\ conv.step = "more" /\ left = in.frames
  BY DEF Init
<1>4. buf.out \o Frames(0, 0) = buf.out
  <2>1. IsSequence(Frames(0, 0)) /\ Len(Frames(0, 0)) = 0
    BY FramesTogether
  <2>2. Frames(0, 0) = <<>>
    BY <2>1, EmptySeq DEF IsSequence
  <2> QED BY <1>2, <2>2, ConcatNothing
<1>5. OneHeader
  BY <1>2, <1>3, <1>4 DEF OneHeader
<1>6. Progress
  BY <1>1, <1>2, <1>3, HandlerAssumption DEF Progress
<1> QED BY <1>5, <1>6 DEF OInv

LEMMA HeaderAndFrames ==
  ASSUME NEW h, IsSequence(h), NEW n \in Nat, NEW m \in Nat, n <= m
  PROVE  (h \o Frames(0, n)) \o Frames(n, m) = h \o Frames(0, m)
<1>1. ASSUME NEW t, NEW u, IsSequence(t), IsSequence(u)
      PROVE  (h \o t) \o u = h \o (t \o u)
  BY <1>1, ConcatTwice
<1>2. /\ IsSequence(Frames(0, n)) /\ IsSequence(Frames(n, m))
      /\ Frames(0, n) \o Frames(n, m) = Frames(0, m)
  BY FramesTogether
<1>3. (h \o Frames(0, n)) \o Frames(n, m) = h \o (Frames(0, n) \o Frames(n, m))
  BY <1>1, <1>2
<1> QED BY <1>2, <1>3

\* Frames are added to those that are there, behind a header.
LEMMA WritesFrames ==
  ASSUME OneHeader, buf.writes, NEW upto \in Nat, conv.written \in Nat,
         conv.written <= upto, in.workaround \in BOOLEAN,
         DOMAIN buf = {"out", "writes", "emitted", "header_end"}
  PROVE  LET b == sf_writef_float(buf, OUT, Frames(conv.written, upto))
         IN  /\ DOMAIN b = DOMAIN buf /\ b.emitted = TRUE
             /\ b.writes = buf.writes /\ b.header_end = buf.header_end
             /\ \E header :
                  /\ IsSequence(header) /\ b.out = header \o Frames(0, upto)
                  /\ IsHeader(header, OUT)
                  /\ IF in.workaround THEN b.header_end = 0
                     ELSE b.header_end = Len(header) /\ header[1].samples = in.frames
<1> DEFINE w == conv.written
           e == EmitHeader(buf, OUT)
           b == sf_writef_float(buf, OUT, Frames(w, upto))
<1>1. PICK header :
        /\ IsSequence(header) /\ buf.out = header \o Frames(0, w)
        /\ IF buf.emitted THEN IsHeader(header, OUT) ELSE header = <<>> /\ w = 0
        /\ IF in.workaround THEN buf.header_end = 0
           ELSE buf.emitted /\ buf.header_end = Len(header) /\ header[1].samples = in.frames
  BY DEF OneHeader
<1>2. /\ IsSequence(Frames(0, w)) /\ IsSequence(Frames(w, upto)) /\ Len(Frames(0, w)) = w
      /\ Frames(0, w) \o Frames(w, upto) = Frames(0, upto)
  BY FramesTogether
<1>3. /\ DOMAIN e = DOMAIN buf /\ e.emitted = TRUE /\ e.writes = buf.writes
      /\ e.header_end = buf.header_end
      /\ \E h : /\ IsSequence(h) /\ e.out = h \o Frames(0, w) /\ IsHeader(h, OUT)
                /\ ~in.workaround => buf.header_end = Len(h) /\ h[1].samples = in.frames
  <2>1. CASE buf.emitted
    <3>1. e = buf
      BY <2>1 DEF EmitHeader
    <3>2. e.emitted = TRUE
      BY <2>1, <3>1
    <3> HIDE DEF e
    <3> QED BY <1>1, <2>1, <3>1, <3>2
  <2>2. CASE ~buf.emitted
    <3> DEFINE H == SndHeader(OUT)
    <3>1. buf.out = <<>> /\ w = 0 /\ in.workaround
      <4>1. Frames(0, w) = <<>> /\ header = <<>> /\ w = 0
        BY <1>1, <1>2, <2>2, EmptySeq DEF IsSequence
      <4>2. IsSequence(<<>>)
        BY EmptySeq DEF IsSequence
      <4> QED BY <1>1, <2>2, <4>1, <4>2, ConcatNothing
    <3>2. IsSequence(H) /\ IsHeader(H, OUT) /\ <<>> \o H = H /\ H \o Frames(0, w) = H
      <4>1. IsSequence(H) /\ IsHeader(H, OUT)
        BY SndHeaderIsHeader
      <4>2. Frames(0, w) = <<>>
        BY <1>2, <3>1, EmptySeq DEF IsSequence
      <4> HIDE DEF H
      <4> QED BY <4>1, <4>2, ConcatNothing
    <3>3. e = [[buf EXCEPT !.out = @ \o H] EXCEPT !.emitted = TRUE]
      BY <2>2 DEF EmitHeader, SndAppend, Appended
    <3> HIDE DEF e, H
    <3>4. /\ DOMAIN e = DOMAIN buf /\ e.emitted = TRUE /\ e.writes = buf.writes
          /\ e.header_end = buf.header_end /\ e.out = <<>> \o H
      BY <3>1, <3>3
    <3> QED BY <3>1, <3>2, <3>4
  <2> QED BY <2>1, <2>2
<1> HIDE DEF e
<1>4. PICK h : /\ IsSequence(h) /\ e.out = h \o Frames(0, w) /\ IsHeader(h, OUT)
               /\ ~in.workaround => buf.header_end = Len(h) /\ h[1].samples = in.frames
  BY <1>3
<1>5. b = [e EXCEPT !.out = @ \o Frames(w, upto)]
  BY <1>3 DEF sf_writef_float, SndAppend, Appended, e
<1>6. (h \o Frames(0, w)) \o Frames(w, upto) = h \o Frames(0, upto)
  <2>1. IsSequence(h)
    BY <1>4
  <2> QED BY <2>1, HeaderAndFrames
<1> HIDE DEF b
<1>7. /\ DOMAIN b = DOMAIN buf /\ b.emitted = TRUE /\ b.writes = buf.writes
      /\ b.header_end = buf.header_end /\ b.out = h \o Frames(0, upto)
  BY <1>3, <1>4, <1>5, <1>6
<1>8. in.workaround => b.header_end = 0
  BY <1>1, <1>7
<1> QED BY <1>4, <1>7, <1>8 DEF b

LEMMA OStep == HInv /\ MInv /\ OInv /\ [Next]_vars => OInv'
<1> SUFFICES ASSUME HInv, MInv, OInv, [Next]_vars PROVE OInv'
  OBVIOUS
<1>0. /\ in \in Input /\ in.real \in 0 .. in.frames /\ in.frames \in Nat /\ FRAGM \in Nat \ {0}
      /\ in.workaround \in BOOLEAN
      /\ DOMAIN buf = {"out", "writes", "emitted", "header_end"}
      /\ DOMAIN conv = {"owner", "step", "read", "written", "complete"}
      /\ conv.read \in 0 .. in.real /\ conv.written \in 0 .. conv.read
      /\ conv.written \in Nat /\ conv.read \in Nat
  BY HandlerAssumption DEF HInv, BufferTypes, ConvTypes
\* Everything but writing.
<1>1. ASSUME UNCHANGED <<in, buf>>, conv'.written = conv.written, Progress'
      PROVE  OInv'
  BY <1>1 DEF OInv, OneHeader
<1>2. ASSUME UNCHANGED <<in, buf, left, conv>> PROVE OInv'
  BY <1>1, <1>2 DEF OInv, Progress
<1>3. ASSUME NEW r \in Readers, FillUntil(r) PROVE OInv'
  <2>1. CASE UNCHANGED conv
    BY <1>2, <1>3, <2>1 DEF FillUntil
  <2>2. CASE conv' = [conv EXCEPT !.owner = r, !.step = "more"] /\ MustConvert(r)
    <3>1. conv.step = "more"
      BY <1>3, <2>2 DEF FillUntil, MustConvert, MInv
    <3>2. conv'.step = "more" /\ conv'.read = conv.read /\ conv'.written = conv.written
      BY <1>0, <2>2
    <3>3. UNCHANGED <<in, buf, left>>
      BY <1>3 DEF FillUntil
    <3> QED BY <1>1, <3>1, <3>2, <3>3 DEF OInv, Progress
  <2> QED BY <1>3, <2>1, <2>2 DEF FillUntil
<1>4. ASSUME NEW r \in Readers, FillBuffer(r) PROVE OInv'
  <2> DEFINE n == Readable
  <2>1. /\ conv.step = "more" /\ UNCHANGED <<in, buf>>
        /\ left' = IF n = 0 THEN 0 ELSE left - n
        /\ conv' = [conv EXCEPT !.read = @ + n, !.step = IF n = 0 THEN "save" ELSE "write"]
    BY <1>4 DEF FillBuffer, Converting
  <2>2. n \in 0 .. in.real - conv.read /\ (n = 0 => conv.read = in.real)
    BY <1>0 DEF Readable, MinOf
  <2> HIDE DEF n
  <2>3. /\ conv'.read = conv.read + n /\ conv'.written = conv.written
        /\ conv'.step = IF n = 0 THEN "save" ELSE "write"
    BY <1>0, <2>1
  <2>4. left = in.frames - conv.read /\ buf.writes
    BY <2>1 DEF OInv, Progress
  <2>5. Progress'
    BY <1>0, <2>1, <2>2, <2>3, <2>4 DEF Progress
  <2> QED BY <1>1, <2>1, <2>3, <2>5
<1>5. ASSUME NEW r \in Readers, WriteProcessed(r) PROVE OInv'
  <2>1. PICK upto \in conv.written .. conv.read :
          /\ buf' = sf_writef_float(buf, OUT, Frames(conv.written, upto))
          /\ conv' = [conv EXCEPT !.written = upto, !.step = IF left = 0 THEN "save" ELSE "more"]
    BY <1>5 DEF WriteProcessed
  <2>2. UNCHANGED <<in, left>> /\ conv.step = "write"
    BY <1>5 DEF WriteProcessed, Converting
  <2>3. buf.writes /\ left = in.frames - conv.read
    BY <2>2 DEF OInv, Progress
  <2>4. upto \in Nat /\ conv.written <= upto
    BY <1>0
  <2>5. /\ conv'.written = upto /\ conv'.read = conv.read
        /\ conv'.step = IF left = 0 THEN "save" ELSE "more"
    BY <1>0, <2>1
  <2>6. /\ buf'.emitted = TRUE /\ buf'.writes = buf.writes
        /\ \E header :
             /\ IsSequence(header) /\ buf'.out = header \o Frames(0, upto)
             /\ IsHeader(header, OUT)
             /\ IF in.workaround THEN buf'.header_end = 0
                ELSE buf'.header_end = Len(header) /\ header[1].samples = in.frames
    BY <1>0, <2>1, <2>3, <2>4, WritesFrames DEF OInv
  <2>7. OneHeader'
    BY <2>2, <2>5, <2>6 DEF OneHeader
  <2>8. Progress'
    BY <1>0, <2>2, <2>3, <2>5, <2>6 DEF Progress
  <2> QED BY <2>7, <2>8 DEF OInv
<1>6. ASSUME NEW r \in Readers, SaveOutputValues(r) \/ ResetMaxValues(r) PROVE OInv'
  <2>1. /\ UNCHANGED <<in, buf, left>> /\ conv.step \in {"save", "reset"}
        /\ \E step \in {"reset", "close"} : conv' = [conv EXCEPT !.step = step]
    BY <1>6 DEF SaveOutputValues, ResetMaxValues, Converting
  <2>2. conv'.read = conv.read /\ conv'.written = conv.written /\ conv'.step \in {"reset", "close"}
    BY <1>0, <2>1
  <2>3. Progress'
    BY <2>1, <2>2 DEF OInv, Progress
  <2> QED BY <1>1, <2>1, <2>2, <2>3
<1>7. ASSUME NEW r \in Readers, Close(r) PROVE OInv'
  <2> DEFINE b == sf_writef_float(buf, OUT, Frames(conv.written, conv.read))
  <2>1. /\ buf' = sf_close(buf, OUT, Frames(conv.written, conv.read))
        /\ conv' = [conv EXCEPT !.written = conv.read, !.step = "closed"]
        /\ UNCHANGED <<in, left>> /\ conv.step = "close"
    BY <1>7 DEF Close, Converting
  <2>2. buf.writes /\ conv.read = in.real
    BY <2>1 DEF OInv, Progress
  <2>3. conv.read \in Nat /\ conv.written <= conv.read
    BY <1>0
  <2>4. /\ DOMAIN b = DOMAIN buf /\ b.emitted = TRUE
        /\ \E header :
             /\ IsSequence(header) /\ b.out = header \o Frames(0, conv.read)
             /\ IsHeader(header, OUT)
             /\ IF in.workaround THEN b.header_end = 0
                ELSE b.header_end = Len(header) /\ header[1].samples = in.frames
    BY <1>0, <2>2, <2>3, WritesFrames DEF OInv
  <2>5. buf' = SndAppend(DummySeek(b, 4), SndHeader(OUT))
    BY <2>1 DEF sf_close
  <2> HIDE DEF b
  <2>6. buf' = [b EXCEPT !.writes = FALSE]
    <3>1. DummySeek(b, 4) = [b EXCEPT !.writes = FALSE] /\ DummySeek(b, 4).writes = FALSE
      BY <1>0, <2>4 DEF DummySeek, set_sndfile_writes_enabled
    <3> QED BY <2>5, <3>1 DEF SndAppend
  <2>7. buf'.out = b.out /\ buf'.emitted = b.emitted /\ buf'.header_end = b.header_end
    BY <1>0, <2>4, <2>6
  <2>8. conv'.written = conv.read /\ conv'.read = conv.read /\ conv'.step = "closed"
    BY <1>0, <2>1
  <2>9. OneHeader'
    BY <2>1, <2>4, <2>7, <2>8 DEF OneHeader
  <2>10. Progress'
    BY <2>1, <2>2, <2>8 DEF Progress
  <2> QED BY <2>9, <2>10 DEF OInv
<1>8. ASSUME NEW r \in Readers, Filled(r) PROVE OInv'
  <2>1. /\ UNCHANGED <<in, buf, left>>
        /\ \/ conv' = [conv EXCEPT !.complete = TRUE, !.owner = Nobody]
           \/ conv' = [conv EXCEPT !.owner = Nobody]
    BY <1>8 DEF Filled
  <2>2. conv'.read = conv.read /\ conv'.written = conv.written /\ conv'.step = conv.step
    BY <1>0, <2>1
  <2>3. Progress'
    BY <2>1, <2>2 DEF OInv, Progress
  <2> QED BY <1>1, <2>1, <2>2, <2>3
<1>9. ASSUME NEW r \in Readers, Read(r) \/ Pretend(r) \/ Pread(r) PROVE OInv'
  BY <1>2, <1>9 DEF Read, Pretend, Pread
<1>10. ASSUME NEW s \in Stats,
              StatReadsSize(s) \/ StatReadsFrames(s) \/ StatStores(s) \/ StatReturns(s)
       PROVE  OInv'
  BY <1>2, <1>10 DEF StatReadsSize, StatReadsFrames, StatStores, StatReturns
<1>11. CASE StatusLooks \/ StatusStores \/ UNCHANGED vars
  BY <1>2, <1>11 DEF StatusLooks, StatusStores, vars
<1> QED BY <1>3, <1>4, <1>5, <1>6, <1>7, <1>8, <1>9, <1>10, <1>11 DEF Next, Converts

LEMMA OAlways == Spec => [](HInv /\ MInv /\ OInv)
<1>1. Init => HInv /\ MInv /\ OInv
  BY HInit, MInit, OInit
<1>2. HInv /\ MInv /\ OInv /\ [Next]_vars => (HInv /\ MInv /\ OInv)'
  BY HStep, MStep, OStep
<1> QED BY <1>1, <1>2, PTL DEF Spec

\* What is before header_end_ when the constructor is done, and stays there, is a
\* header of FLAC for this output, or nothing (convolve-file-handler.cc:285-312).
THEOREM HeadersAreWellFormed == Spec => []HeaderWellFormed
<1>1. HInv /\ OInv => HeaderWellFormed
  <2> SUFFICES ASSUME HInv, OInv PROVE HeaderWellFormed
    OBVIOUS
  <2>1. PICK header :
          /\ IsSequence(header) /\ buf.out = header \o Frames(0, conv.written)
          /\ IF buf.emitted THEN IsHeader(header, OUT) ELSE header = <<>> /\ conv.written = 0
          /\ IF in.workaround THEN buf.header_end = 0
             ELSE buf.emitted /\ buf.header_end = Len(header) /\ header[1].samples = in.frames
    BY DEF OInv, OneHeader
  <2>2. CASE in.workaround
    <3>1. SubSeq(buf.out, 1, 0) = <<>>
      BY SubSeqEmpty
    <3> QED BY <2>1, <2>2, <3>1 DEF HeaderWellFormed
  <2>3. CASE ~in.workaround
    <3>1. conv.written \in Nat
      BY HandlerAssumption DEF HInv, BufferTypes, ConvTypes
    <3>2. IsSequence(Frames(0, conv.written))
      BY <3>1, FramesLemma
    <3>3. SubSeq(buf.out, 1, Len(header)) = header
      BY <2>1, <3>2, ConcatParts
    <3> QED BY <2>1, <2>3, <3>3 DEF HeaderWellFormed
  <2> QED BY <2>2, <2>3
<1> QED BY <1>1, OAlways, PTL

\* Of all that libsndfile writes, a file gets one header and every frame once, in
\* order, down to the last (conversion-buffer.cc:71-82), whoever reads it meanwhile.
THEOREM FilesHaveOneHeader == Spec => []OneHeaderThenSound
<1>1. HInv /\ MInv /\ OInv => OneHeaderThenSound
  <2> SUFFICES ASSUME HInv, MInv, OInv PROVE OneHeaderThenSound
    OBVIOUS
  <2> DEFINE w == conv.written
             sound == Frames(0, w)
  <2>1. PICK header :
          /\ IsSequence(header) /\ buf.out = header \o sound
          /\ IF buf.emitted THEN IsHeader(header, OUT) ELSE header = <<>> /\ w = 0
    BY DEF OInv, OneHeader
  <2>2. w \in Nat
    BY HandlerAssumption DEF HInv, BufferTypes, ConvTypes
  <2> HIDE DEF w
  <2>3. IsSequence(sound) /\ Len(sound) = w
    <3>1. w <= w
      BY <2>2
    <3> QED BY <2>2, <3>1, FramesTogether
  <2> HIDE DEF sound
  <2>4. FileSize = Len(header) + w /\ Len(header) \in Nat
    BY <2>1, <2>3, ConcatIsSequence DEF FileSize
  <2>5. FileSize - w = Len(header)
    BY <2>2, <2>4
  <2>6. /\ SubSeq(buf.out, 1, Len(header)) = header
        /\ SubSeq(buf.out, Len(header) + 1, FileSize) = sound
    BY <2>1, <2>3, ConcatParts DEF FileSize
  <2>7. Len(header) > 0 => IsHeader(header, OUT)
    BY <2>1, EmptySeq
  <2>8. conv.complete => w = in.real
    BY DEF MInv, OInv, Progress, w
  <2> DEFINE n == FileSize - conv.written
  <2>9. n = Len(header) /\ n >= 0
    BY <2>4, <2>5 DEF w
  <2> HIDE DEF n
  <2>10. SubSeq(buf.out, n + 1, FileSize) = Frames(0, conv.written)
    BY <2>6, <2>9 DEF w, sound
  <2>11. n > 0 => IsHeader(SubSeq(buf.out, 1, n), OUT)
    BY <2>6, <2>7, <2>9
  <2> QED BY <2>8, <2>9, <2>10, <2>11 DEF OneHeaderThenSound, n, w
<1> QED BY <1>1, OAlways, PTL
=============================================================================
