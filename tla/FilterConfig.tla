----------------------------- MODULE FilterConfig -----------------------------
(***************************************************************************)
(* The parser of filter configurations: zita-config.cc, zita-fconfig.cc,   *)
(* and what of zita-audiofile.cc it uses. It is run under fftw_mutex, by   *)
(* one thread at a time, line by line.                                     *)
(*                                                                         *)
(* A line is a record of its command and its numbers, as %u scans them     *)
(* (the density in hundredths). Names of ports and directories are left    *)
(* out, as is what the impulses contain. A command has a set of outcomes:  *)
(* the library may refuse, and memory may run out, at any time. latency    *)
(* and options are 0 in folve, which never sets them.                      *)
(***************************************************************************)
EXTENDS Integers, Sequences

CONSTANTS
  SoundFile,          \* SoundFile[n]: frames and chan of the impulse file n,
                      \* for those that can be opened
  MAXINP, MAXOUT,     \* of the convolver: most inputs and outputs
  MAXQUANT, MINPART,  \*   longest and shortest fragment
  MAXSIZE,            \* longest impulse response
  HilbertLength,      \* lengths /impulse/hilbert takes
  BSIZE,              \* frames read from an impulse file at a time
  UINT,               \* the modulus of unsigned int
  Nobody              \* no thread

\* Fragments are as long as the shortest, or twice as long as another one; the
\* longest one is such a length (in zita-convolver, 64 and 8192).
Fragments ==
  LET doubled[n \in 0 .. MAXQUANT] == IF n = 0 THEN MINPART ELSE 2 * doubled[n - 1]
  IN  {doubled[n] : n \in 0 .. MAXQUANT}

ASSUME FilterAssumption ==
  /\ {MAXINP, MAXOUT, MAXQUANT, MINPART, MAXSIZE, BSIZE, UINT} \subseteq Nat \ {0}
  /\ MAXQUANT \in Fragments /\ 2 * MAXSIZE < UINT \div 2
  /\ HilbertLength \subseteq Nat
  /\ \A n \in DOMAIN SoundFile : SoundFile[n] \in [frames : Nat, chan : Nat]

VARIABLE zita  \* the ZitaConfig being filled in, and who holds fftw_mutex

Status == {"NOERR", "ERR_OTHER", "ERR_SYNTAX", "ERR_PARAM", "ERR_ALLOC",
           "ERR_COMMAND", "ERR_NOCONV", "ERR_IONUM"}

\* A convolution engine (Convproc) that is not configured has no inputs.
NoEngine == [ninp |-> 0, nout |-> 0, fragm |-> 0]

\* An impulse file being read: what is left to read and what there is.
NotReading == [left |-> 0, available |-> 0]

Unlocked == [owner |-> Nobody, lines |-> <<>>, lnum |-> 1, stat |-> "NOERR",
             ninp |-> 0, nout |-> 0, size |-> 0, fragm |-> 0,
             engine |-> NoEngine, audio |-> NotReading]

\* SoundProcessor::Create: everything is 0 but the numbers of channels.
Zeroed(t, text, channels) ==
  [Unlocked EXCEPT !.owner = t, !.lines = text, !.ninp = channels, !.nout = channels]

-----------------------------------------------------------------------------
(* Commands: what a line l may make of the configuration z.                *)

Error(z, stat) == [z EXCEPT !.stat = stat]

\* ninp, nout and size are signed, but scanned as unsigned numbers.
Wrapped(n) ==
  IF n < -(UINT \div 2) THEN n + UINT ELSE IF n >= UINT \div 2 THEN n - UINT ELSE n

check_inout(z, ip, op) ==
  IF z.size = 0 THEN "ERR_NOCONV"
  ELSE IF ip \in 1 .. z.ninp /\ op \in 1 .. z.nout THEN "NOERR" ELSE "ERR_IONUM"

\* 2 * size, which is undefined when it overflows: a compiler may keep all of
\* its bits or lose the first.
Twice(size) == {2 * size, Wrapped(2 * size)}

\* The engine halves the fragment while it is at least twice the impulse.
\* Mutant: while it is longer than the impulse.
FragmentBelow(twice) ==
  LET halved[f \in 1 .. MAXQUANT] ==
        IF f > MINPART /\ f >= twice \div 2 THEN halved[f \div 2] ELSE f
  IN  halved[MAXQUANT]
Fragment(twice) ==
  LET halved[f \in 1 .. MAXQUANT] ==
        IF f > MINPART /\ f >= twice THEN halved[f \div 2] ELSE f
  IN  halved[MAXQUANT]

\* Convproc::configure refuses an engine that is configured already, or has no
\* memory for it.
Configured(z) ==
  [z EXCEPT !.engine = [ninp |-> z.ninp, nout |-> z.nout, fragm |-> z.fragm]]
CanConfigure(z) ==
  z.engine = NoEngine /\ z.ninp \in 1 .. MAXINP /\ z.nout \in 1 .. MAXOUT
configure(z) ==
  {Error(z, "ERR_OTHER")} \cup (IF CanConfigure(z) THEN {Configured(z)} ELSE {})

\* The bounds are compared with signed numbers, the numbers kept although they
\* are refused.
convnew(z, l) ==
  LET numbers == [z EXCEPT !.ninp = Wrapped(l.ninp), !.nout = Wrapped(l.nout),
                           !.size = Wrapped(l.size)]
  IN  IF \/ numbers.ninp = 0 \/ numbers.ninp > MAXINP
         \/ numbers.nout = 0 \/ numbers.nout > MAXOUT
         \/ numbers.size > MAXSIZE
         \/ l.dens \notin 0 .. 100
      THEN {Error(numbers, "ERR_OTHER")}
      ELSE UNION {configure([numbers EXCEPT !.fragm = Fragment(twice)]) :
                    twice \in Twice(numbers.size)}

\* Convproc::impdata_create and impdata_copy know the engine's own channels.
impdata_create(z, pairs) ==
  {Error(z, "ERR_ALLOC")} \cup
  (IF pairs \subseteq (1 .. z.engine.ninp) \X (1 .. z.engine.nout) THEN {z} ELSE {})

\* readfile up to its loop: where to begin and how much to read. The room
\* behind the delay is computed in unsigned numbers.
SmallerOf(a, b) == IF a < b THEN a ELSE b
Length(z, l) ==
  SmallerOf(IF l.length = 0 THEN SoundFile[l.file].frames - l.offset ELSE l.length,
            (z.size - l.delay) % UINT)
readfile(z, l) ==
  IF check_inout(z, l.ip, l.op) # "NOERR" THEN {Error(z, check_inout(z, l.ip, l.op))}
  ELSE IF \/ l.file \notin DOMAIN SoundFile
          \/ l.chan \notin 1 .. SoundFile[l.file].chan
          \/ l.offset > SoundFile[l.file].frames
  THEN {Error(z, "ERR_OTHER")}
  ELSE {Error(z, "ERR_ALLOC"),
        [z EXCEPT !.audio = [left |-> Length(z, l),
                             available |-> SoundFile[l.file].frames - l.offset]]}

impdirac(z, l) ==
  IF check_inout(z, l.ip, l.op) # "NOERR" THEN {Error(z, check_inout(z, l.ip, l.op))}
  ELSE IF Wrapped(l.delay) \in 0 .. z.size - 1 THEN impdata_create(z, {<<l.ip, l.op>>})
  ELSE {z}

imphilbert(z, l) ==
  IF check_inout(z, l.ip, l.op) # "NOERR" THEN {Error(z, check_inout(z, l.ip, l.op))}
  ELSE IF l.length \notin HilbertLength THEN {Error(z, "ERR_PARAM")}
  ELSE IF l.delay < l.length \div 2 THEN {z} ELSE impdata_create(z, {<<l.ip, l.op>>})

\* The two results of check_inout are combined with |: both are ERR_NOCONV, or
\* neither is.
impcopy(z, l) ==
  LET one == check_inout(z, l.ip, l.op)
      two == check_inout(z, l.ip2, l.op2)
  IN  IF one # "NOERR" THEN {Error(z, one)}
      ELSE IF two # "NOERR" THEN {Error(z, two)}
      ELSE IF l.ip = l.ip2 /\ l.op = l.op2 THEN {Error(z, "ERR_PARAM")}
      ELSE impdata_create(z, {<<l.ip, l.op>>, <<l.ip2, l.op2>>})

\* What scanning makes of a file.
IsConfig(lines) ==
  /\ Len(lines) \in Nat /\ DOMAIN lines = 1 .. Len(lines)
  /\ \A i \in DOMAIN lines :
       LET l == lines[i]
       IN  /\ l.cmd \in {"/convolver/new", "/impulse/read", "/impulse/dirac",
                        "/impulse/hilbert", "/impulse/copy", "nothing", "error"}
           /\ l.cmd = "/convolver/new" =>
                {l.ninp, l.nout, l.size} \subseteq 0 .. UINT - 1 /\ l.dens \in Int
           /\ l.cmd = "error" => l.stat \in {"ERR_SYNTAX", "ERR_PARAM", "ERR_COMMAND"}

\* Comments, directories and names of ports change nothing; what cannot be
\* read is an error of its own.
Command(z, l) ==
  CASE l.cmd = "/convolver/new"   -> convnew(z, l)
    [] l.cmd = "/impulse/read"    -> readfile(z, l)
    [] l.cmd = "/impulse/dirac"   -> impdirac(z, l)
    [] l.cmd = "/impulse/hilbert" -> imphilbert(z, l)
    [] l.cmd = "/impulse/copy"    -> impcopy(z, l)
    [] l.cmd = "nothing"          -> {z}
    [] l.cmd = "error"            -> {Error(z, l.stat)}

-----------------------------------------------------------------------------
(* config(), run by thread t.                                              *)

Parsing(t) == zita.owner = t
InFile == zita.audio.left > 0
AtEnd == ~InFile /\ (zita.stat # "NOERR" \/ zita.lnum > Len(zita.lines))

ConfigLine(t) ==
  /\ Parsing(t) /\ ~InFile /\ ~AtEnd
  /\ \E y \in Command(zita, zita.lines[zita.lnum]) : zita' = [y EXCEPT !.lnum = @ + 1]

\* The loop of readfile counts what it got. At the end of the file it gets
\* nothing, and goes on.
Got == SmallerOf(SmallerOf(zita.audio.left, BSIZE), zita.audio.available)
EndlessRead == InFile /\ Got = 0
ReadBlock(t) ==
  LET l == zita.lines[zita.lnum - 1]
      rest == [left |-> zita.audio.left - Got, available |-> zita.audio.available - Got]
  IN  /\ Parsing(t) /\ InFile /\ Got > 0
      /\ \E y \in {Error(zita, "ERR_OTHER")} \cup impdata_create(zita, {<<l.ip, l.op>>}) :
           zita' = [y EXCEPT !.audio = IF y = zita THEN rest ELSE NotReading]

\* inpdata(i) and outdata(i) look up a pointer without checking i: NULL if the
\* engine does not use it, and anything outside of the table.
NotNull(i, used, most) ==
  IF i \in 1 .. used THEN {TRUE} ELSE IF i \in 1 .. most THEN {FALSE} ELSE BOOLEAN

\* What config() and the two checks in SoundProcessor::Create may come to. An
\* ERR_OTHER ends the parsing, but counts as success.
Accepted(z) ==
  IF z.stat \notin {"NOERR", "ERR_OTHER"} THEN {FALSE}
  ELSE {yes \in BOOLEAN : \E inp \in NotNull(z.ninp, z.engine.ninp, MAXINP),
                            out \in NotNull(z.nout, z.engine.nout, MAXOUT) :
                            yes <=> inp /\ out}

-----------------------------------------------------------------------------
(* What a configuration is worth.                                          *)

\* zita-fconfig.cc:74-77 by what it is for: the shortest fragment of the
\* allowed ones that holds an impulse response of this size.
LongEnough(size) == {f \in Fragments : f <= MAXQUANT /\ (size <= f \/ f = MAXQUANT)}
IsShortestFragment(f, size) == f \in LongEnough(size) /\ \A g \in LongEnough(size) : f <= g
=============================================================================
