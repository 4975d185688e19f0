---------------------------- MODULE ProcessorPool ----------------------------
(***************************************************************************)
(* The pool of sound processors, processor-pool.cc, with their creation    *)
(* and their check for changes of the configuration, sound-processor.cc.   *)
(*                                                                         *)
(* Threads open files, which takes a processor out of the pool or creates  *)
(* one from a configuration file, use it, and give it back. Meanwhile the  *)
(* user edits the configuration files. Modification times are in seconds.  *)
(* The directory is fixed: base_dir is part of the path.                   *)
(***************************************************************************)
EXTENDS FilterConfig, FiniteSets

CONSTANTS
  Thread,          \* threads that open and close files
  Path,            \* configuration files
  Processor,       \* the addresses a processor can have
  Sound,           \* Sound[k]: channels of sound files of kind k, and the
                   \* choices of a path for them, from specific to non-specific
  Text,            \* Text[n]: the lines of a configuration
  Edits,           \* Edits[c]: the texts file c may have, NoFile among them
  max_per_config,  \* most processors the pool keeps of one configuration
  MaxTime,         \* bound on the clock
  NoFile, None     \* no such file; no processor

ASSUME PoolAssumption ==
  /\ max_per_config \in Nat /\ MaxTime \in Nat
  /\ Nobody \notin Thread /\ None \notin Processor /\ NoFile \notin DOMAIN Text
  /\ \A n \in DOMAIN Text : IsConfig(Text[n])
  /\ Edits \in [Path -> SUBSET ({NoFile} \cup DOMAIN Text)]
  /\ \A k \in DOMAIN Sound : Sound[k].choices \in Seq(Path)

VARIABLES
  conf,   \* conf[c]: the text of file c, or NoFile, and when that changed last
  clock,  \* the second
  pool,   \* pool_: the idle processors of every configuration
  proc,   \* proc[p]: the processor at address p, if there is one: its
          \* configuration, the version that was parsed and the time it was
          \* given, what the parser made of it, and whether it is reset
  pc,     \* pc[t]: where thread t is
  job     \* job[t]: the kind of file it opens, the configuration chosen, the
          \* processor it holds, the version it parses; and seen: every text
          \* the configuration has had since this open began

vars == <<zita, conf, clock, pool, proc, pc, job>>

Location == {"idle", "CheckOutOfPool", "ConfigStillUpToDate", "Create",
             "config", "GetModificationTime", "have", "Return"}

NoJob == [kind |-> None, path |-> None, mine |-> None, version |-> None, seen |-> {}]

NoProcessor == [alive |-> FALSE, path |-> None, version |-> None, stamp |-> None,
                zita |-> Unlocked, clean |-> TRUE]

Init ==
  /\ zita = Unlocked
  /\ conf \in {initial \in [Path -> [text : {NoFile} \cup DOMAIN Text, mtime : {0}]] :
                \A c \in Path : initial[c].text \in Edits[c]}
  /\ clock = 0
  /\ pool = [c \in Path |-> <<>>]
  /\ proc = [p \in Processor |-> NoProcessor]
  /\ pc = [t \in Thread |-> "idle"]
  /\ job = [t \in Thread |-> NoJob]

Goto(t, l) == pc' = [pc EXCEPT ![t] = l]
Leave(t) == Goto(t, "idle") /\ job' = [job EXCEPT ![t] = NoJob]

Mine(t) == job[t].mine
Take(t, p) == job' = [job EXCEPT ![t].mine = p]
Delete(p) == proc' = [proc EXCEPT ![p] = NoProcessor]

\* stat() of a file that is not there leaves the time of the caller as it was:
\* uninitialised.
Exists(c) == conf[c].text # NoFile
GetModificationTime(c) == IF ~Exists(c) THEN 0 .. MaxTime ELSE {conf[c].mtime}

\* Mutant: nobody looks.
AlwaysUpToDate(p) == {TRUE}
ConfigStillUpToDate(p) == {proc[p].stamp = now : now \in GetModificationTime(proc[p].path)}

-----------------------------------------------------------------------------
(* GetOrCreate.                                                            *)

Accessible(k) == {i \in DOMAIN Sound[k].choices : Exists(Sound[k].choices[i])}

\* Without an accessible file there is no processor, and nothing changes.
FindFirstAccessiblePath(t, k) ==
  /\ pc[t] = "idle"
  /\ \E i \in Accessible(k) :
       LET c == Sound[k].choices[i]
       IN  /\ \A j \in Accessible(k) : i <= j
           /\ job' = [job EXCEPT ![t] = [kind |-> k, path |-> c, mine |-> None,
                                         version |-> None, seen |-> {conf[c].text}]]
  /\ Goto(t, "CheckOutOfPool")
  /\ UNCHANGED <<zita, conf, clock, pool, proc>>

\* Mutant: the processor stays in the pool.
LeftIn(list) == list
Rest(list) == Tail(list)

CheckOutOfPool(t) ==
  LET c == job[t].path
  IN  /\ pc[t] = "CheckOutOfPool"
      /\ IF pool[c] = <<>>
         THEN Goto(t, "Create") /\ UNCHANGED <<pool, job>>
         ELSE /\ Take(t, Head(pool[c]))
              /\ pool' = [pool EXCEPT ![c] = Rest(@)]
              /\ Goto(t, "ConfigStillUpToDate")
      /\ UNCHANGED <<zita, conf, clock, proc>>

Verify(t) ==
  /\ pc[t] = "ConfigStillUpToDate"
  /\ \E upToDate \in ConfigStillUpToDate(Mine(t)) :
       IF upToDate
       THEN Goto(t, "have") /\ UNCHANGED <<proc, job>>
       ELSE Delete(Mine(t)) /\ Take(t, None) /\ Goto(t, "CheckOutOfPool")
  /\ UNCHANGED <<zita, conf, clock, pool>>

\* fftw_mutex is taken and the file read; the parser says the rest.
LockConfig(t) ==
  LET c == job[t].path
  IN  /\ pc[t] = "Create" /\ zita.owner = Nobody
      /\ IF ~Exists(c)
         THEN Leave(t) /\ UNCHANGED zita
         ELSE /\ zita' = Zeroed(t, Text[conf[c].text], Sound[job[t].kind].channels)
              /\ job' = [job EXCEPT ![t].version = conf[c]]
              /\ Goto(t, "config")
      /\ UNCHANGED <<conf, clock, pool, proc>>

ParseStep(t) ==
  /\ pc[t] = "config"
  /\ ConfigLine(t) \/ ReadBlock(t)
  /\ UNCHANGED <<conf, clock, pool, proc, pc, job>>

\* config() has returned, with it what it keeps for itself, and the mutex is
\* released. The new processor is given the time of its configuration
\* afterwards.
Kept(z) ==
  [z EXCEPT !.owner = Nobody, !.lnum = 1, !.stat = "NOERR", !.audio = NotReading]
NewProcessor(t) ==
  [alive |-> TRUE, path |-> job[t].path, version |-> job[t].version,
   stamp |-> None, zita |-> Kept(zita), clean |-> TRUE]
Free == {p \in Processor : ~proc[p].alive}

\* Mutant: the mutex is not released on the way that returns NULL.
LockedIfRefused(accepted) == IF accepted THEN Unlocked ELSE zita
Released(accepted) == Unlocked

Create(t) ==
  /\ pc[t] = "config" /\ Parsing(t) /\ AtEnd
  /\ \/ /\ FALSE \in Accepted(zita)
        /\ zita' = Released(FALSE)
        /\ Leave(t) /\ UNCHANGED proc
     \/ /\ TRUE \in Accepted(zita) /\ Free # {}
        /\ zita' = Released(TRUE)
        /\ LET p == CHOOSE p \in Free : TRUE
           IN  proc' = [proc EXCEPT ![p] = NewProcessor(t)] /\ Take(t, p)
        /\ Goto(t, "GetModificationTime")
  /\ UNCHANGED <<conf, clock, pool>>

Stamp(t) ==
  /\ pc[t] = "GetModificationTime"
  /\ \E time \in GetModificationTime(job[t].path) :
       proc' = [proc EXCEPT ![Mine(t)].stamp = time]
  /\ Goto(t, "have")
  /\ UNCHANGED <<zita, conf, clock, pool, job>>

-----------------------------------------------------------------------------
(* A file is converted, and the processor returned.                        *)

Process(t) ==
  /\ pc[t] = "have"
  /\ proc' = [proc EXCEPT ![Mine(t)].clean = FALSE]
  /\ UNCHANGED <<zita, conf, clock, pool, pc, job>>

Return(t) ==
  /\ pc[t] = "have"
  /\ \E upToDate \in ConfigStillUpToDate(Mine(t)) :
       IF upToDate
       THEN Goto(t, "Return") /\ UNCHANGED <<proc, job>>
       ELSE Delete(Mine(t)) /\ Leave(t)
  /\ UNCHANGED <<zita, conf, clock, pool>>

HasRoom(list) == Len(list) < max_per_config
Reset(p) == [p EXCEPT !.clean = TRUE]

Put(t) ==
  LET c == proc[Mine(t)].path
  IN  /\ pc[t] = "Return"
      /\ IF HasRoom(pool[c])
         THEN /\ pool' = [pool EXCEPT ![c] = Append(@, Mine(t))]
              /\ proc' = [proc EXCEPT ![Mine(t)] = Reset(@)]
         ELSE Delete(Mine(t)) /\ UNCHANGED pool
      /\ Leave(t)
      /\ UNCHANGED <<zita, conf, clock>>

-----------------------------------------------------------------------------
(* The user edits configurations.                                          *)

\* What threads that opened this configuration have seen of it from now on, a
\* removal (NoFile) among it.
Seeing(c, text) ==
  job' = [t \in Thread |-> IF job[t].path = c
                           THEN [job[t] EXCEPT !.seen = @ \cup {text}] ELSE job[t]]

\* What the times can tell: a file changes at most once a second.
Change(c, text) ==
  /\ conf[c].mtime < clock
  /\ conf' = [conf EXCEPT ![c] = [text |-> text, mtime |-> clock]]
  /\ Seeing(c, text)
  /\ UNCHANGED <<zita, clock, pool, proc, pc>>

Tick ==
  /\ clock < MaxTime
  /\ clock' = clock + 1
  /\ UNCHANGED <<zita, conf, pool, proc, pc, job>>

-----------------------------------------------------------------------------
Opens(t) ==
  \/ CheckOutOfPool(t) \/ Verify(t) \/ LockConfig(t) \/ ParseStep(t)
  \/ Create(t) \/ Stamp(t)

Next ==
  \/ \E t \in Thread : \/ \E k \in DOMAIN Sound : FindFirstAccessiblePath(t, k)
                      \/ Opens(t)
                      \/ Process(t) \/ Return(t) \/ Put(t)
  \/ \E c \in Path : \E text \in Edits[c] : Change(c, text)
  \/ Tick

\* A thread in the middle of an open goes on, and gets fftw_mutex if it is free
\* again and again. Nobody has to open, close or edit anything.
Spec == Init /\ [][Next]_vars /\ \A t \in Thread : SF_vars(Opens(t))

-----------------------------------------------------------------------------
(* Properties.                                                             *)

Pooled(c) == {pool[c][i] : i \in DOMAIN pool[c]}
Live == {p \in Processor : proc[p].alive}
Holding == {"ConfigStillUpToDate", "GetModificationTime", "have", "Return"}

\* Who has a processor, in which step, and of which configuration.
TypeOK ==
  /\ pc \in [Thread -> Location]
  /\ pool \in [Path -> Seq(Processor)]
  /\ \A t \in Thread :
       /\ Mine(t) \in IF pc[t] \in Holding THEN Processor ELSE {None}
       /\ pc[t] # "idle" => job[t].path \in Path
  /\ \A p \in Live : proc[p].path \in Path

\* A processor has one convolution in it. It is with one thread or in one place
\* of the pool (processor-pool.cc:93-131), and what is in the pool is ready to
\* be used: reset, and no more than the pool may keep.
OnePlace ==
  /\ \A t, u \in Thread : Mine(t) = Mine(u) /\ Mine(t) # None => t = u
  /\ \A c \in Path :
       /\ Len(pool[c]) <= max_per_config
       /\ \A i, j \in DOMAIN pool[c] : pool[c][i] = pool[c][j] => i = j
       /\ \A d \in Path : c # d => Pooled(c) \cap Pooled(d) = {}
       /\ \A t \in Thread : Mine(t) \notin Pooled(c)
       /\ \A p \in Pooled(c) : p \in Live /\ proc[p].path = c /\ proc[p].clean
  /\ \A p \in Live : (\E t \in Thread : Mine(t) = p) \/ \E c \in Path : p \in Pooled(c)

\* "They only change if the configuration file is touched" (processor-pool.h):
\* an open gets a filter that its file described at some time since the open
\* began, whatever the pool has kept. Two cases are excepted. The file may
\* have been changed between being parsed and being looked at for its time.
\* And it may have been removed during the open: without a file stat leaves
\* the time uninitialised, and any processor may be found up to date.
FreshFilter ==
  \A t \in Thread :
    /\ pc[t] = "have"
    /\ NoFile \notin job[t].seen
    /\ proc[Mine(t)].version.mtime = proc[Mine(t)].stamp
    => proc[Mine(t)].version.text \in job[t].seen

\* /convolver/new "is always required and must be first one"
\* (README.CONFIG.txt:24). Here comments and other commands may come before it,
\* and it may be missing, but there is no second one: Convproc refuses that, and
\* the numbers and the fragment it left are no longer the engine's.
ConfiguredOnce(lines) ==
  \A i, j \in DOMAIN lines :
    lines[i].cmd = "/convolver/new" /\ lines[j].cmd = "/convolver/new" => i = j

\* Whatever the file, the processor does not believe in more channels than its
\* engine has, which would be read out of buffers that are not there. If
\* /convolver/new is there at most once, all numbers are the engine's, the
\* size is allowed, and the fragment is the shortest that holds an impulse
\* response of that size (zita-fconfig.cc:74-77). A size from 2^31 on is a
\* negative int: no bound refuses it, and its fragment is an allowed one, but
\* not the shortest. (Numbers of channels outside of the convolver's are looked
\* up outside of its tables; if both are, anything may be accepted.)
EngineFits ==
  \A p \in Live :
    LET config == proc[p].zita
        engine == config.engine
    IN  /\ config.ninp \in 1 .. MAXINP => config.ninp <= engine.ninp
        /\ config.nout \in 1 .. MAXOUT => config.nout <= engine.nout
        /\ /\ ConfiguredOnce(config.lines)
           /\ config.ninp \in 1 .. MAXINP \/ config.nout \in 1 .. MAXOUT
           => /\ engine = [ninp |-> config.ninp, nout |-> config.nout,
                           fragm |-> config.fragm]
              /\ config.fragm \in Fragments
              /\ config.size >= 0 =>
                   /\ config.size <= MAXSIZE
                   /\ IsShortestFragment(config.fragm, config.size)

\* Every open comes back, with a processor or without, unless somebody reads
\* past the end of an impulse file, for ever, with fftw_mutex held.
OpensReturn ==
  \A t \in Thread : (pc[t] \notin {"idle", "have", "Return"})
                      ~> (pc[t] \in {"idle", "have"} \/ EndlessRead)

\* README.md: "Since the filter is dependent on the sampling rate, we need to
\* choose the right filter depending on the input file we see": a file of so
\* many channels gets a filter of so many inputs. FillBuffer reads frames of
\* the file's channels into a buffer laid out for the filter's.
RightChannels ==
  \A t \in Thread :
    pc[t] = "have" => proc[Mine(t)].zita.ninp = Sound[job[t].kind].channels
=============================================================================
