------------------------ MODULE ProcessorPool_proofs ------------------------
(***************************************************************************)
(* ProcessorPool, for any number of threads, configurations, processors    *)
(* and edits: a processor is in one place, none is given out that was not  *)
(* described by its configuration since the open began, and what the       *)
(* parser accepts fits the engine it configured.                           *)
(***************************************************************************)
EXTENDS ProcessorPool, SequenceTheorems, WellFoundedInduction, TLAPS

JobFields == {"kind", "path", "mine", "version", "seen"}
ProcFields == {"alive", "path", "version", "stamp", "zita", "clean"}
Version == [text : {NoFile} \cup DOMAIN Text, mtime : Nat]

Shape ==
  /\ pc \in [Thread -> Location]
  /\ conf \in [Path -> Version] /\ clock \in Nat
  /\ pool \in [Path -> Seq(Processor)]
  /\ DOMAIN job = Thread /\ \A t \in Thread : DOMAIN job[t] = JobFields
  /\ DOMAIN proc = Processor /\ \A p \in Processor : DOMAIN proc[p] = ProcFields

Types == Shape /\ TypeOK

\* What a thread holds is alive, made of the configuration it has chosen, and
\* its own.
HeldIsAlive ==
  \A t \in Thread : Mine(t) # None =>
    proc[Mine(t)].alive /\ proc[Mine(t)].path = job[t].path
HeldOnce ==
  \A t, u \in Thread : Mine(t) = Mine(u) /\ Mine(t) # None => t = u

\* What is in the pool is ready, there once, and with no thread.
PooledIsReady ==
  \A c \in Path : \A i \in DOMAIN pool[c] :
    LET p == pool[c][i] IN proc[p].alive /\ proc[p].path = c /\ proc[p].clean
PooledOnce ==
  \A c \in Path : \A i, j \in DOMAIN pool[c] : pool[c][i] = pool[c][j] => i = j
PooledNotHeld ==
  \A c \in Path : \A i \in DOMAIN pool[c], t \in Thread : Mine(t) # pool[c][i]
NotOverfull == \A c \in Path : Len(pool[c]) <= max_per_config

\* And nothing is lost.
AliveIsSomewhere ==
  \A p \in Processor : proc[p].alive =>
    \/ \E t \in Thread : Mine(t) = p
    \/ \E c \in Path : \E i \in DOMAIN pool[c] : pool[c][i] = p

Places ==
  /\ HeldIsAlive /\ HeldOnce /\ PooledIsReady /\ PooledOnce /\ PooledNotHeld
  /\ NotOverfull /\ AliveIsSomewhere

IInv == Types /\ Places

-----------------------------------------------------------------------------
(* Lemmas about sequences.                                                 *)

\* What CheckOutOfPool leaves in the list is what was there but the first.
LEMMA TailLemma ==
  ASSUME NEW S, NEW s \in Seq(S), s # <<>>
  PROVE  /\ Head(s) \in S /\ Head(s) = s[1]
         /\ Tail(s) \in Seq(S) /\ Len(Tail(s)) = Len(s) - 1
         /\ \A i \in DOMAIN Tail(s) : i + 1 \in DOMAIN s /\ Tail(s)[i] = s[i + 1]
         /\ \A i \in DOMAIN s \ {1} :
              i - 1 \in DOMAIN Tail(s) /\ Tail(s)[i - 1] = s[i]
BY SMT

\* What Return puts into the list comes last.
LEMMA AppendLemma ==
  ASSUME NEW S, NEW s \in Seq(S), NEW x \in S
  PROVE  /\ Append(s, x) \in Seq(S) /\ Len(Append(s, x)) = Len(s) + 1
         /\ DOMAIN Append(s, x) = DOMAIN s \cup {Len(s) + 1}
         /\ \A i \in DOMAIN s : Append(s, x)[i] = s[i]
         /\ Append(s, x)[Len(s) + 1] = x /\ Len(s) + 1 \notin DOMAIN s
BY SMT

\* One less is not too much, nor is one more where there was room.
LEMMA Room ==
  ASSUME NEW m \in Nat, NEW k \in Nat
  PROVE  /\ k <= m => k - 1 <= m
         /\ k < m => k + 1 <= m
OBVIOUS

-----------------------------------------------------------------------------
(* Types.                                                                  *)

LEMMA TypesInit == Init => Types
<1> SUFFICES ASSUME Init PROVE Types OBVIOUS
<1>1. Shape
  BY PoolAssumption DEF Init, Shape, Version, NoJob, NoProcessor, JobFields, ProcFields, Location
<1>2. TypeOK
  BY <1>1 DEF Init, Shape, TypeOK, NoJob, NoProcessor, Mine, Holding, Live
<1> QED BY <1>1, <1>2 DEF Types

LEMMA TypesStep == IInv /\ [Next]_vars => Types'
<1> SUFFICES ASSUME IInv, [Next]_vars PROVE Types' OBVIOUS
<1> USE PoolAssumption DEF IInv, Types, Shape, TypeOK, Mine, Live, Holding, Location,
        JobFields, ProcFields
<1>1. ASSUME NEW t \in Thread, NEW k \in DOMAIN Sound, FindFirstAccessiblePath(t, k)
      PROVE  Types'
  BY <1>1 DEF FindFirstAccessiblePath, Goto, Accessible
<1>2. ASSUME NEW t \in Thread, CheckOutOfPool(t) PROVE Types'
  <2>1. CASE pool[job[t].path] = <<>>
    BY <1>2, <2>1 DEF CheckOutOfPool, Goto
  <2>2. CASE pool[job[t].path] # <<>>
    <3> DEFINE c == job[t].path
    <3>1. c \in Path /\ pool[c] \in Seq(Processor)
      BY <1>2 DEF CheckOutOfPool
    <3>2. Head(pool[c]) \in Processor /\ Tail(pool[c]) \in Seq(Processor)
      BY <3>1, <2>2, TailLemma
    <3>3. /\ job' = [job EXCEPT ![t].mine = Head(pool[c])]
          /\ pool' = [pool EXCEPT ![c] = Tail(pool[c])]
          /\ pc' = [pc EXCEPT ![t] = "ConfigStillUpToDate"]
          /\ UNCHANGED <<conf, clock, proc>>
      BY <1>2, <2>2 DEF CheckOutOfPool, Goto, Take, Rest
    <3> QED BY <3>1, <3>2, <3>3
  <2> QED BY <2>1, <2>2
<1>3. ASSUME NEW t \in Thread, Verify(t) PROVE Types'
  <2>1. CASE Goto(t, "have") /\ UNCHANGED <<proc, job>>
    BY <1>3, <2>1 DEF Verify, Goto
  <2>2. CASE Delete(Mine(t)) /\ Take(t, None) /\ Goto(t, "CheckOutOfPool")
    BY <1>3, <2>2 DEF Verify, Goto, Take, Delete, NoProcessor
  <2> QED BY <1>3, <2>1, <2>2 DEF Verify
<1>4. ASSUME NEW t \in Thread, LockConfig(t) PROVE Types'
  <2>1. CASE Leave(t)
    BY <1>4, <2>1 DEF LockConfig, Goto, Leave, NoJob
  <2>2. CASE job' = [job EXCEPT ![t].version = conf[job[t].path]] /\ Goto(t, "config")
    BY <1>4, <2>2 DEF LockConfig, Goto
  <2> QED BY <1>4, <2>1, <2>2 DEF LockConfig
<1>5. ASSUME NEW t \in Thread, ParseStep(t) PROVE Types'
  BY <1>5 DEF ParseStep
<1>6. ASSUME NEW t \in Thread, Create(t) PROVE Types'
  <2>1. CASE Leave(t) /\ UNCHANGED proc
    BY <1>6, <2>1 DEF Create, Goto, Leave, NoJob
  <2>2. ASSUME NEW p \in Processor, Take(t, p), Goto(t, "GetModificationTime"),
               proc' = [proc EXCEPT ![p] = NewProcessor(t)]
        PROVE  Types'
    BY <1>6, <2>2 DEF Create, Goto, Take, NewProcessor
  <2> QED BY <1>6, <2>1, <2>2 DEF Create, Free
<1>7. ASSUME NEW t \in Thread, Stamp(t) PROVE Types'
  BY <1>7 DEF Stamp, Goto
<1>8. ASSUME NEW t \in Thread, Process(t) PROVE Types'
  BY <1>8 DEF Process
<1>9. ASSUME NEW t \in Thread, Return(t) PROVE Types'
  <2>1. CASE Goto(t, "Return") /\ UNCHANGED <<proc, job>>
    BY <1>9, <2>1 DEF Return, Goto
  <2>2. CASE Delete(Mine(t)) /\ Leave(t)
    BY <1>9, <2>2 DEF Return, Goto, Leave, Delete, NoJob, NoProcessor
  <2> QED BY <1>9, <2>1, <2>2 DEF Return
<1>10. ASSUME NEW t \in Thread, Put(t) PROVE Types'
  <2> DEFINE c == proc[Mine(t)].path
  <2>0. c \in Path /\ Mine(t) \in Processor
    BY <1>10 DEF Put, Places, HeldIsAlive
  <2>1. CASE HasRoom(pool[c])
    <3>1. Append(pool[c], Mine(t)) \in Seq(Processor)
      BY <2>0, AppendLemma
    <3>2. /\ job' = [job EXCEPT ![t] = NoJob]
          /\ pool' = [pool EXCEPT ![c] = Append(pool[c], Mine(t))]
          /\ proc' = [proc EXCEPT ![Mine(t)] = [proc[Mine(t)] EXCEPT !.clean = TRUE]]
          /\ pc' = [pc EXCEPT ![t] = "idle"]
          /\ UNCHANGED <<conf, clock>>
      BY <1>10, <2>1 DEF Put, Goto, Leave, Reset
    <3> QED BY <2>0, <3>1, <3>2 DEF NoJob
  <2>2. CASE ~HasRoom(pool[c])
    <3>1. /\ job' = [job EXCEPT ![t] = NoJob]
          /\ proc' = [proc EXCEPT ![Mine(t)] = NoProcessor]
          /\ pc' = [pc EXCEPT ![t] = "idle"]
          /\ UNCHANGED <<pool, conf, clock>>
      BY <1>10, <2>2 DEF Put, Goto, Leave, Delete
    <3> QED BY <2>0, <3>1 DEF NoJob, NoProcessor
  <2> QED BY <2>1, <2>2
<1>11. ASSUME NEW c \in Path, NEW text \in Edits[c], Change(c, text) PROVE Types'
  BY <1>11 DEF Change, Seeing, Version
<1>12. CASE Tick
  BY <1>12 DEF Tick
<1>13. CASE UNCHANGED vars
  BY <1>13 DEF vars
<1> QED BY <1>1, <1>2, <1>3, <1>4, <1>5, <1>6, <1>7, <1>8, <1>9, <1>10, <1>11,
           <1>12, <1>13 DEF Next, Opens
-----------------------------------------------------------------------------
(* What a step may do to the places of processors.                         *)

\* What a thread has, and what is in the pool, are addresses.
LEMMA Addresses ==
  ASSUME Types
  PROVE  /\ \A u \in Thread : job[u].mine # None => job[u].mine \in Processor
         /\ \A c \in Path : pool[c] \in Seq(Processor)
         /\ \A c \in Path : \A i \in DOMAIN pool[c] : pool[c][i] \in Processor
         /\ None \notin Processor
BY PoolAssumption DEF Types, Shape, TypeOK, Mine

\* Threads keep what they have, and only they use it.
LEMMA NothingMoves ==
  ASSUME IInv, pool' = pool,
         \A u \in Thread : /\ job'[u].mine = job[u].mine
                           /\ job[u].mine # None => job'[u].path = job[u].path,
         \A p \in Processor :
           /\ proc'[p].alive = proc[p].alive /\ proc'[p].path = proc[p].path
           /\ proc'[p].clean = proc[p].clean \/ \E u \in Thread : job[u].mine = p
  PROVE  Places'
<1>1. HeldIsAlive'
  BY Addresses DEF IInv, Places, HeldIsAlive, Mine
<1>2. HeldOnce'
  BY DEF IInv, Places, HeldOnce, Mine
<1>3. PooledIsReady'
  BY Addresses DEF IInv, Places, PooledIsReady, PooledNotHeld, Mine
<1>4. PooledOnce' /\ NotOverfull'
  BY DEF IInv, Places, PooledOnce, NotOverfull
<1>5. PooledNotHeld'
  BY DEF IInv, Places, PooledNotHeld, Mine
<1>6. AliveIsSomewhere'
  BY DEF IInv, Places, AliveIsSomewhere, Mine
<1> QED BY <1>1, <1>2, <1>3, <1>4, <1>5, <1>6 DEF Places

\* A thread deletes its processor.
LEMMA OneDeleted ==
  ASSUME IInv, pool' = pool,
         NEW t \in Thread, NEW p \in Processor, p = job[t].mine, job'[t].mine = None,
         proc'[p] = NoProcessor, \A q \in Processor \ {p} : proc'[q] = proc[q],
         \A u \in Thread \ {t} : job'[u] = job[u]
  PROVE  Places'
<1>1. \A u \in Thread : job'[u].mine # None =>
        job'[u] = job[u] /\ job[u].mine \in Processor \ {p}
  BY Addresses DEF IInv, Places, HeldOnce, Mine
<1>2. \A c \in Path : \A i \in DOMAIN pool[c] : pool[c][i] \in Processor \ {p}
  BY Addresses DEF IInv, Places, PooledNotHeld, Mine
<1>3. HeldIsAlive'
  BY <1>1 DEF IInv, Places, HeldIsAlive, Mine
<1>4. HeldOnce'
  BY <1>1 DEF IInv, Places, HeldOnce, Mine
<1>5. PooledIsReady'
  BY <1>2 DEF IInv, Places, PooledIsReady
<1>6. PooledOnce' /\ NotOverfull'
  BY DEF IInv, Places, PooledOnce, NotOverfull
<1>7. PooledNotHeld'
  BY <1>1, <1>2, Addresses DEF IInv, Places, PooledNotHeld, Mine
<1>8. AliveIsSomewhere'
  <2> SUFFICES ASSUME NEW q \in Processor, proc'[q].alive
               PROVE  \/ \E u \in Thread : job'[u].mine = q
                      \/ \E c \in Path : \E i \in DOMAIN pool[c] : pool[c][i] = q
    BY DEF AliveIsSomewhere, Mine
  <2>1. q # p /\ proc[q].alive
    BY DEF NoProcessor
  <2>2. CASE \E u \in Thread : job[u].mine = q
    BY <2>1, <2>2
  <2> QED BY <2>1, <2>2 DEF IInv, Places, AliveIsSomewhere, Mine
<1> QED BY <1>3, <1>4, <1>5, <1>6, <1>7, <1>8 DEF Places

\* A thread gets a new processor, at an address nobody has.
LEMMA OneCreated ==
  ASSUME IInv, pool' = pool,
         NEW t \in Thread, NEW p \in Processor, ~proc[p].alive, job[t].mine = None,
         job'[t].mine = p, job'[t].path = job[t].path,
         proc'[p] = NewProcessor(t), \A q \in Processor \ {p} : proc'[q] = proc[q],
         \A u \in Thread \ {t} : job'[u] = job[u]
  PROVE  Places'
<1>1. \A u \in Thread \ {t} : job[u].mine # None => job[u].mine \in Processor \ {p}
  BY Addresses DEF IInv, Places, HeldIsAlive, Mine
<1>2. \A c \in Path : \A i \in DOMAIN pool[c] : pool[c][i] \in Processor \ {p}
  BY Addresses DEF IInv, Places, PooledIsReady
<1>3. proc'[p].alive /\ proc'[p].path = job'[t].path
  BY DEF NewProcessor
<1>4. HeldIsAlive'
  BY <1>1, <1>3 DEF IInv, Places, HeldIsAlive, Mine
<1>5. HeldOnce'
  <2> SUFFICES ASSUME NEW u \in Thread, NEW v \in Thread,
                      job'[u].mine = job'[v].mine, job'[u].mine # None
               PROVE  u = v
    BY DEF HeldOnce, Mine
  <2> QED BY <1>1 DEF IInv, Places, HeldOnce, Mine
<1>6. PooledIsReady'
  BY <1>2 DEF IInv, Places, PooledIsReady
<1>7. PooledOnce' /\ NotOverfull'
  BY DEF IInv, Places, PooledOnce, NotOverfull
<1>8. PooledNotHeld'
  BY <1>2 DEF IInv, Places, PooledNotHeld, Mine
<1>9. AliveIsSomewhere'
  <2> SUFFICES ASSUME NEW q \in Processor, proc'[q].alive, q # p
               PROVE  \/ \E u \in Thread : job'[u].mine = q
                      \/ \E c \in Path : \E i \in DOMAIN pool[c] : pool[c][i] = q
    BY DEF AliveIsSomewhere, Mine
  <2>1. CASE \E u \in Thread : job[u].mine = q
    BY <2>1, Addresses DEF IInv
  <2> QED BY <2>1 DEF IInv, Places, AliveIsSomewhere, Mine
<1> QED BY <1>4, <1>5, <1>6, <1>7, <1>8, <1>9 DEF Places

\* A thread takes the first processor of its configuration.
LEMMA OneTaken ==
  ASSUME IInv, proc' = proc,
         NEW t \in Thread, NEW c \in Path, pool[c] # <<>>, c = job'[t].path,
         job[t].mine = None, job'[t].mine = Head(pool[c]),
         pool'[c] = Tail(pool[c]), \A d \in Path \ {c} : pool'[d] = pool[d],
         \A u \in Thread \ {t} : job'[u] = job[u]
  PROVE  Places'
<1> DEFINE p == Head(pool[c])
<1>1. /\ p \in Processor /\ p = pool[c][1] /\ 1 \in DOMAIN pool[c]
      /\ Len(pool'[c]) = Len(pool[c]) - 1 /\ Len(pool[c]) \in Nat
      /\ \A i \in DOMAIN pool'[c] : /\ i + 1 \in DOMAIN pool[c] /\ i + 1 # 1 /\ i \in Int
                                    /\ pool'[c][i] = pool[c][i + 1]
      /\ \A i \in DOMAIN pool[c] \ {1} : /\ i - 1 \in DOMAIN pool'[c]
                                         /\ pool'[c][i - 1] = pool[c][i]
  <2>1. pool[c] \in Seq(Processor)
    BY Addresses DEF IInv
  <2> QED BY <2>1, TailLemma
<1>2. p # None /\ \A u \in Thread : job[u].mine # p
  BY <1>1, Addresses DEF IInv, Places, PooledNotHeld, Mine
<1>3. \A d \in Path : \A i \in DOMAIN pool'[d] :
        \E j \in DOMAIN pool[d] : pool'[d][i] = pool[d][j]
  <2> SUFFICES ASSUME NEW d \in Path, NEW i \in DOMAIN pool'[d]
               PROVE  \E j \in DOMAIN pool[d] : pool'[d][i] = pool[d][j]
    OBVIOUS
  <2>1. CASE d = c
    <3>1. i + 1 \in DOMAIN pool[d] /\ pool'[d][i] = pool[d][i + 1]
      BY <1>1, <2>1
    <3> QED BY <3>1
  <2>2. CASE d # c
    <3>1. pool'[d] = pool[d]
      BY <2>2
    <3> QED BY <3>1
  <2> QED BY <2>1, <2>2
<1>4. \A d \in Path : \A i \in DOMAIN pool'[d] : pool'[d][i] # p
  <2>1. \A i \in DOMAIN pool'[c] : pool'[c][i] # p
    BY <1>1 DEF IInv, Places, PooledOnce
  <2>2. \A d \in Path \ {c} : \A i \in DOMAIN pool[d] : pool[d][i] # p
    BY <1>1 DEF IInv, Places, PooledIsReady
  <2>3. \A d \in Path \ {c} : \A i \in DOMAIN pool'[d] : pool'[d][i] # p
    <3> SUFFICES ASSUME NEW d \in Path \ {c}
                 PROVE  \A i \in DOMAIN pool'[d] : pool'[d][i] # p
      OBVIOUS
    <3>1. pool'[d] = pool[d]
      OBVIOUS
    <3> QED BY <2>2, <3>1
  <2> QED BY <2>1, <2>3
<1>5. HeldIsAlive'
  <2>1. proc[p].alive /\ proc[p].path = c
    BY <1>1 DEF IInv, Places, PooledIsReady
  <2> QED BY <2>1 DEF IInv, Places, HeldIsAlive, Mine
<1>6. HeldOnce'
  <2> SUFFICES ASSUME NEW u \in Thread, NEW v \in Thread,
                      job'[u].mine = job'[v].mine, job'[u].mine # None
               PROVE  u = v
    BY DEF HeldOnce, Mine
  <2> QED BY <1>2 DEF IInv, Places, HeldOnce, Mine
<1>7. PooledIsReady'
  BY <1>3 DEF IInv, Places, PooledIsReady
<1>8. PooledOnce'
  <2> SUFFICES ASSUME NEW d \in Path, NEW i \in DOMAIN pool'[d], NEW j \in DOMAIN pool'[d],
                      pool'[d][i] = pool'[d][j]
               PROVE  i = j
    BY DEF PooledOnce
  <2>1. CASE d = c
    <3>1. /\ i + 1 \in DOMAIN pool[c] /\ j + 1 \in DOMAIN pool[c] /\ i \in Int /\ j \in Int
          /\ pool[c][i + 1] = pool[c][j + 1]
      BY <1>1, <2>1
    <3>2. i + 1 = j + 1
      BY <3>1 DEF IInv, Places, PooledOnce
    <3> QED BY <3>1, <3>2
  <2>2. CASE d # c
    <3>1. pool'[d] = pool[d]
      BY <2>2
    <3> QED BY <3>1 DEF IInv, Places, PooledOnce
  <2> QED BY <2>1, <2>2
<1>9. NotOverfull'
  <2> SUFFICES ASSUME NEW d \in Path PROVE Len(pool'[d]) <= max_per_config
    BY DEF NotOverfull
  <2>1. Len(pool[d]) <= max_per_config
    BY DEF IInv, Places, NotOverfull
  <2>2. CASE d = c
    <3>1. Len(pool'[c]) = Len(pool[c]) - 1 /\ Len(pool[c]) \in Nat
      BY <1>1
    <3>2. max_per_config \in Nat
      BY PoolAssumption
    <3> HIDE DEF p
    <3> QED BY <2>1, <2>2, <3>1, <3>2, Room
  <2>3. CASE d # c
    <3>1. pool'[d] = pool[d]
      BY <2>3
    <3> QED BY <2>1, <3>1
  <2> QED BY <2>2, <2>3
<1>10. PooledNotHeld'
  <2> SUFFICES ASSUME NEW d \in Path, NEW i \in DOMAIN pool'[d], NEW u \in Thread
               PROVE  job'[u].mine # pool'[d][i]
    BY DEF PooledNotHeld, Mine
  <2>1. CASE u = t
    BY <1>4, <2>1
  <2> QED BY <1>3, <2>1 DEF IInv, Places, PooledNotHeld, Mine
<1>11. AliveIsSomewhere'
  <2> SUFFICES ASSUME NEW q \in Processor, proc[q].alive, q # p,
                      \A u \in Thread : job'[u].mine # q
               PROVE  \E d \in Path : \E i \in DOMAIN pool'[d] : pool'[d][i] = q
    BY DEF AliveIsSomewhere, Mine
  <2>1. \A u \in Thread : job[u].mine # q
    BY Addresses DEF IInv
  <2>2. PICK d \in Path : \E i \in DOMAIN pool[d] : pool[d][i] = q
    BY <2>1 DEF IInv, Places, AliveIsSomewhere, Mine
  <2>3. PICK i \in DOMAIN pool[d] : pool[d][i] = q
    BY <2>2
  <2>4. CASE d = c
    BY <1>1, <2>3, <2>4
  <2>5. CASE d # c
    BY <2>3, <2>5
  <2> QED BY <2>4, <2>5
<1> QED BY <1>5, <1>6, <1>7, <1>8, <1>9, <1>10, <1>11 DEF Places

\* A thread gives its processor back.
LEMMA OnePut ==
  ASSUME IInv, NEW t \in Thread, NEW c \in Path, NEW p \in Processor,
         p = job[t].mine, c = proc[p].path, HasRoom(pool[c]), job'[t].mine = None,
         pool'[c] = Append(pool[c], p), \A d \in Path \ {c} : pool'[d] = pool[d],
         proc'[p].alive, proc'[p].path = c, proc'[p].clean,
         \A q \in Processor \ {p} : proc'[q] = proc[q],
         \A u \in Thread \ {t} : job'[u] = job[u]
  PROVE  Places'
<1>0. /\ DOMAIN pool'[c] = DOMAIN pool[c] \cup {Len(pool[c]) + 1}
      /\ Len(pool'[c]) = Len(pool[c]) + 1
      /\ \A i \in DOMAIN pool[c] : pool'[c][i] = pool[c][i]
      /\ pool'[c][Len(pool[c]) + 1] = p /\ Len(pool[c]) + 1 \notin DOMAIN pool[c]
      /\ Len(pool[c]) \in Nat
  <2>1. pool[c] \in Seq(Processor)
    BY Addresses DEF IInv
  <2> DEFINE s == pool[c]
  <2>2. s \in Seq(Processor) /\ pool'[c] = Append(s, p)
    BY <2>1
  <2> HIDE DEF s
  <2>3. /\ DOMAIN Append(s, p) = DOMAIN s \cup {Len(s) + 1}
        /\ Len(Append(s, p)) = Len(s) + 1
        /\ \A i \in DOMAIN s : Append(s, p)[i] = s[i]
        /\ Append(s, p)[Len(s) + 1] = p /\ Len(s) + 1 \notin DOMAIN s
    <3>1. p \in Processor
      OBVIOUS
    <3> QED BY ONLY <2>2, <3>1, AppendLemma
  <2>4. Len(s) \in Nat
    BY ONLY <2>2, LenProperties
  <2> QED BY <2>2, <2>3, <2>4 DEF s
<1> DEFINE n == Len(pool[c]) + 1
<1>1. /\ DOMAIN pool'[c] = DOMAIN pool[c] \cup {n} /\ Len(pool'[c]) = n
      /\ \A i \in DOMAIN pool[c] : pool'[c][i] = pool[c][i]
      /\ pool'[c][n] = p /\ n \notin DOMAIN pool[c] /\ Len(pool[c]) \in Nat
  BY <1>0
<1>2. \A d \in Path : \A i \in DOMAIN pool[d] : pool[d][i] \in Processor \ {p}
  BY Addresses DEF IInv, Places, PooledNotHeld, Mine
<1>3. \A d \in Path : \A i \in DOMAIN pool'[d] :
        \/ i \in DOMAIN pool[d] /\ pool'[d][i] = pool[d][i]
        \/ d = c /\ i = n /\ pool'[d][i] = p
  <2> SUFFICES ASSUME NEW d \in Path, NEW i \in DOMAIN pool'[d]
               PROVE  \/ i \in DOMAIN pool[d] /\ pool'[d][i] = pool[d][i]
                      \/ d = c /\ i = n /\ pool'[d][i] = p
    OBVIOUS
  <2>1. CASE d = c
    BY <1>1, <2>1
  <2>2. CASE d # c
    <3>1. pool'[d] = pool[d]
      BY <2>2
    <3> QED BY <3>1
  <2> QED BY <2>1, <2>2
<1>4. \A u \in Thread : job'[u].mine # None =>
        job'[u] = job[u] /\ job[u].mine \in Processor \ {p}
  BY Addresses DEF IInv, Places, HeldOnce, Mine
<1>5. HeldIsAlive'
  <2> SUFFICES ASSUME NEW u \in Thread, job'[u].mine # None
               PROVE  /\ proc'[job'[u].mine].alive
                      /\ proc'[job'[u].mine].path = job'[u].path
    BY DEF HeldIsAlive, Mine
  <2>1. proc'[job'[u].mine] = proc[job[u].mine] /\ job'[u] = job[u]
    BY <1>4
  <2> QED BY <2>1 DEF IInv, Places, HeldIsAlive, Mine
<1>6. HeldOnce'
  <2> SUFFICES ASSUME NEW u \in Thread, NEW v \in Thread,
                      job'[u].mine = job'[v].mine, job'[u].mine # None
               PROVE  u = v
    BY DEF HeldOnce, Mine
  <2>1. job'[u].mine = job[u].mine /\ job'[v].mine = job[v].mine
    BY <1>4
  <2>2. job[u].mine = job[v].mine /\ job[u].mine # None
    BY <2>1
  <2> QED BY <2>2 DEF IInv, Places, HeldOnce, Mine
<1>7. PooledIsReady'
  <2> SUFFICES ASSUME NEW d \in Path, NEW i \in DOMAIN pool'[d]
               PROVE  /\ proc'[pool'[d][i]].alive /\ proc'[pool'[d][i]].path = d
                      /\ proc'[pool'[d][i]].clean
    BY DEF PooledIsReady
  <2>1. CASE i \in DOMAIN pool[d] /\ pool'[d][i] = pool[d][i]
    <3>1. proc'[pool[d][i]] = proc[pool[d][i]]
      BY <1>2, <2>1
    <3>2. LET q == pool[d][i] IN proc[q].alive /\ proc[q].path = d /\ proc[q].clean
      BY <2>1 DEF IInv, Places, PooledIsReady
    <3> QED BY <2>1, <3>1, <3>2
  <2>2. CASE d = c /\ pool'[d][i] = p
    BY <2>2
  <2> QED BY <1>3, <2>1, <2>2
<1>8. PooledOnce'
  <2> SUFFICES ASSUME NEW d \in Path, NEW i \in DOMAIN pool'[d], NEW j \in DOMAIN pool'[d],
                      pool'[d][i] = pool'[d][j]
               PROVE  i = j
    BY DEF PooledOnce
  <2>1. CASE pool'[d][i] = p
    <3>1. ASSUME NEW k \in DOMAIN pool'[d], pool'[d][k] = p PROVE k = n
      <4>1. ~(k \in DOMAIN pool[d] /\ pool'[d][k] = pool[d][k])
        BY <1>2, <3>1
      <4> QED BY <1>3, <4>1
    <3> QED BY <2>1, <3>1
  <2>2. CASE pool'[d][i] # p
    <3>1. /\ i \in DOMAIN pool[d] /\ pool'[d][i] = pool[d][i]
          /\ j \in DOMAIN pool[d] /\ pool'[d][j] = pool[d][j]
      BY <1>3, <2>2
    <3> QED BY <3>1 DEF IInv, Places, PooledOnce
  <2> QED BY <2>1, <2>2
<1>9. NotOverfull'
  <2> SUFFICES ASSUME NEW d \in Path PROVE Len(pool'[d]) <= max_per_config
    BY DEF NotOverfull
  <2>1. Len(pool[d]) <= max_per_config
    BY DEF IInv, Places, NotOverfull
  <2>2. CASE d = c
    <3>1. Len(pool'[c]) = Len(pool[c]) + 1 /\ Len(pool[c]) \in Nat
      BY <1>1
    <3>2. Len(pool[c]) < max_per_config /\ max_per_config \in Nat
      BY PoolAssumption DEF HasRoom
    <3> HIDE DEF n
    <3> QED BY <2>2, <3>1, <3>2, Room
  <2>3. CASE d # c
    <3>1. pool'[d] = pool[d]
      BY <2>3
    <3> QED BY <2>1, <3>1
  <2> QED BY <2>2, <2>3
<1>10. PooledNotHeld'
  <2> SUFFICES ASSUME NEW d \in Path, NEW i \in DOMAIN pool'[d], NEW u \in Thread
               PROVE  job'[u].mine # pool'[d][i]
    BY DEF PooledNotHeld, Mine
  <2>1. pool'[d][i] \in Processor /\ None \notin Processor
    BY <1>2, <1>3, Addresses DEF IInv
  <2>2. CASE job'[u].mine # None
    <3>1. job'[u].mine = job[u].mine /\ job[u].mine # p
      BY <1>4, <2>2
    <3>2. CASE i \in DOMAIN pool[d] /\ pool'[d][i] = pool[d][i]
      <4>1. job[u].mine # pool[d][i]
        BY <3>2 DEF IInv, Places, PooledNotHeld, Mine
      <4> QED BY <3>1, <3>2, <4>1
    <3> QED BY <1>3, <3>1, <3>2
  <2> QED BY <2>1, <2>2
<1>11. AliveIsSomewhere'
  <2> SUFFICES ASSUME NEW q \in Processor, proc'[q].alive,
                      \A u \in Thread : job'[u].mine # q
               PROVE  \E d \in Path : \E i \in DOMAIN pool'[d] : pool'[d][i] = q
    BY DEF AliveIsSomewhere, Mine
  <2>1. CASE q = p
    BY <1>1, <2>1
  <2>2. CASE q # p
    <3>1. proc[q].alive /\ \A u \in Thread : job[u].mine # q
      BY <2>2
    <3>2. PICK d \in Path : \E i \in DOMAIN pool[d] : pool[d][i] = q
      BY <3>1 DEF IInv, Places, AliveIsSomewhere, Mine
    <3>3. PICK i \in DOMAIN pool[d] : pool[d][i] = q
      BY <3>2
    <3>4. CASE d = c
      BY <1>1, <3>3, <3>4
    <3>5. CASE d # c
      BY <3>3, <3>5
    <3> QED BY <3>4, <3>5
  <2> QED BY <2>1, <2>2
<1> QED BY <1>5, <1>6, <1>7, <1>8, <1>9, <1>10, <1>11 DEF Places
-----------------------------------------------------------------------------
(* Every step is one of these.                                             *)

LEMMA PlacesInit == Init => Places
<1> SUFFICES ASSUME Init PROVE Places OBVIOUS
<1>1. /\ \A t \in Thread : job[t].mine = None
      /\ \A p \in Processor : ~proc[p].alive
      /\ \A c \in Path : pool[c] = <<>>
  BY DEF Init, NoJob, NoProcessor
<1> QED
  BY <1>1, PoolAssumption DEF Places, HeldIsAlive, HeldOnce, PooledIsReady, PooledOnce,
     PooledNotHeld, NotOverfull, AliveIsSomewhere, Mine

LEMMA PlacesStep == IInv /\ [Next]_vars => Places'
<1> SUFFICES ASSUME IInv, [Next]_vars PROVE Places' OBVIOUS
<1>0. /\ Types /\ None \notin Processor
      /\ \A t \in Thread : /\ pc[t] \in Holding => job[t].mine \in Processor
                           /\ pc[t] \notin Holding => job[t].mine = None
      /\ DOMAIN job = Thread /\ \A t \in Thread : DOMAIN job[t] = JobFields
      /\ DOMAIN proc = Processor /\ \A p \in Processor : DOMAIN proc[p] = ProcFields
      /\ pool \in [Path -> Seq(Processor)] /\ DOMAIN pool = Path
  BY PoolAssumption DEF IInv, Types, TypeOK, Shape, Mine
<1> USE <1>0 DEF Holding, JobFields, ProcFields, Mine
<1>1. ASSUME NEW t \in Thread, NEW k \in DOMAIN Sound, FindFirstAccessiblePath(t, k)
      PROVE  Places'
  <2>1. job[t].mine = None /\ UNCHANGED <<pool, proc>>
    BY <1>1 DEF FindFirstAccessiblePath
  <2>2. job'[t].mine = None /\ \A u \in Thread \ {t} : job'[u] = job[u]
    BY <1>1 DEF FindFirstAccessiblePath
  <2> QED BY <2>1, <2>2, NothingMoves
<1>2. ASSUME NEW t \in Thread, CheckOutOfPool(t) PROVE Places'
  <2> DEFINE c == job[t].path
  <2>1. c \in Path /\ job[t].mine = None /\ proc' = proc
    BY <1>2 DEF CheckOutOfPool, IInv, Types, TypeOK
  <2>2. CASE pool[c] = <<>>
    <3>1. UNCHANGED <<pool, proc, job>>
      BY <1>2, <2>2 DEF CheckOutOfPool
    <3> QED BY <3>1, NothingMoves
  <2>3. CASE pool[c] # <<>>
    <3>1. /\ job' = [job EXCEPT ![t].mine = Head(pool[c])]
          /\ pool' = [pool EXCEPT ![c] = Tail(pool[c])]
      BY <1>2, <2>3 DEF CheckOutOfPool, Take, Rest
    <3>2. /\ job'[t].mine = Head(pool[c]) /\ job'[t].path = c
          /\ \A u \in Thread \ {t} : job'[u] = job[u]
      BY <3>1
    <3>3. pool'[c] = Tail(pool[c]) /\ \A d \in Path \ {c} : pool'[d] = pool[d]
      BY <2>1, <3>1
    <3> QED BY <2>1, <2>3, <3>2, <3>3, OneTaken
  <2> QED BY <2>2, <2>3
<1>3. ASSUME NEW t \in Thread, Delete(Mine(t)), pool' = pool, pc[t] \in Holding,
             job'[t].mine = None, \A u \in Thread \ {t} : job'[u] = job[u]
      PROVE  Places'
  <2> DEFINE p == job[t].mine
  <2>1. /\ p \in Processor /\ proc'[p] = NoProcessor
        /\ \A q \in Processor \ {p} : proc'[q] = proc[q]
    BY <1>3 DEF Delete
  <2> QED BY <1>3, <2>1, OneDeleted
<1>4. ASSUME NEW t \in Thread, Verify(t) PROVE Places'
  <2>1. CASE UNCHANGED <<proc, job>>
    <3>1. pool' = pool
      BY <1>4 DEF Verify
    <3> QED BY <2>1, <3>1, NothingMoves
  <2>2. CASE Delete(Mine(t)) /\ Take(t, None)
    <3>1. pool' = pool /\ pc[t] \in Holding
      BY <1>4 DEF Verify
    <3>2. job'[t].mine = None /\ \A u \in Thread \ {t} : job'[u] = job[u]
      BY <2>2 DEF Take
    <3> QED BY <1>3, <2>2, <3>1, <3>2
  <2> QED BY <1>4, <2>1, <2>2 DEF Verify
<1>5. ASSUME NEW t \in Thread, LockConfig(t) PROVE Places'
  <2>1. job[t].mine = None /\ UNCHANGED <<pool, proc>>
    BY <1>5 DEF LockConfig
  <2>2. job'[t].mine = None /\ \A u \in Thread \ {t} : job'[u] = job[u]
    <3>1. CASE Leave(t)
      BY <3>1 DEF Leave, NoJob
    <3>2. CASE job' = [job EXCEPT ![t].version = conf[job[t].path]]
      BY <2>1, <3>2
    <3> QED BY <1>5, <3>1, <3>2 DEF LockConfig
  <2> QED BY <2>1, <2>2, NothingMoves
<1>6. ASSUME NEW t \in Thread, ParseStep(t) PROVE Places'
  <2>1. UNCHANGED <<pool, proc, job>>
    BY <1>6 DEF ParseStep
  <2> QED BY <2>1, NothingMoves
<1>7. ASSUME NEW t \in Thread, Create(t) PROVE Places'
  <2>1. job[t].mine = None /\ pool' = pool
    BY <1>7 DEF Create
  <2>2. CASE Leave(t) /\ UNCHANGED proc
    <3>1. job'[t].mine = None /\ \A u \in Thread \ {t} : job'[u] = job[u]
      BY <2>2 DEF Leave, NoJob
    <3> QED BY <2>1, <2>2, <3>1, NothingMoves
  <2>3. ASSUME NEW p \in Processor, ~proc[p].alive, Take(t, p),
               proc' = [proc EXCEPT ![p] = NewProcessor(t)]
        PROVE  Places'
    <3>1. /\ job'[t].mine = p /\ job'[t].path = job[t].path
          /\ \A u \in Thread \ {t} : job'[u] = job[u]
      BY <2>3 DEF Take
    <3>2. proc'[p] = NewProcessor(t) /\ \A q \in Processor \ {p} : proc'[q] = proc[q]
      BY <2>3
    <3> QED BY <2>1, <2>3, <3>1, <3>2, OneCreated
  <2>4. CASE Free # {}
    <3>1. (CHOOSE p \in Free : TRUE) \in Free
      BY <2>4
    <3> QED BY <1>7, <2>2, <2>3, <3>1 DEF Create, Free
  <2> QED BY <1>7, <2>2, <2>4 DEF Create
<1>8. ASSUME NEW t \in Thread, Stamp(t) PROVE Places'
  <2>1. PICK time : proc' = [proc EXCEPT ![Mine(t)].stamp = time]
    BY <1>8 DEF Stamp
  <2>2. UNCHANGED <<pool, job>>
    BY <1>8 DEF Stamp
  <2>3. \A p \in Processor : /\ proc'[p].alive = proc[p].alive /\ proc'[p].path = proc[p].path
                             /\ proc'[p].clean = proc[p].clean
    BY <2>1
  <2> QED BY <2>2, <2>3, NothingMoves
<1>9. ASSUME NEW t \in Thread, Process(t) PROVE Places'
  <2>1. UNCHANGED <<pool, job>> /\ proc' = [proc EXCEPT ![Mine(t)].clean = FALSE]
    BY <1>9 DEF Process
  <2>2. \A p \in Processor :
          /\ proc'[p].alive = proc[p].alive /\ proc'[p].path = proc[p].path
          /\ proc'[p].clean = proc[p].clean \/ p = job[t].mine
    BY <2>1
  <2> QED BY <2>1, <2>2, NothingMoves
<1>10. ASSUME NEW t \in Thread, Return(t) PROVE Places'
  <2>1. CASE UNCHANGED <<proc, job>>
    <3>1. pool' = pool
      BY <1>10 DEF Return
    <3> QED BY <2>1, <3>1, NothingMoves
  <2>2. CASE Delete(Mine(t)) /\ Leave(t)
    <3>1. pool' = pool /\ pc[t] \in Holding
      BY <1>10 DEF Return
    <3>2. job'[t].mine = None /\ \A u \in Thread \ {t} : job'[u] = job[u]
      BY <2>2 DEF Leave, NoJob
    <3> QED BY <1>3, <2>2, <3>1, <3>2
  <2> QED BY <1>10, <2>1, <2>2 DEF Return
<1>11. ASSUME NEW t \in Thread, Put(t) PROVE Places'
  <2>0. PICK p, c : p = job[t].mine /\ c = proc[p].path
    OBVIOUS
  <2>1. p \in Processor /\ proc[p].alive /\ pc[t] \in Holding
    BY <1>11, <2>0 DEF Put, IInv, Types, TypeOK, Mine, Places, HeldIsAlive, Holding
  <2>2. c \in Path
    BY <2>0, <2>1 DEF IInv, Types, TypeOK, Live
  <2>3. job'[t].mine = None /\ \A u \in Thread \ {t} : job'[u] = job[u]
    BY <1>11 DEF Put, Leave, NoJob
  <2>4. CASE HasRoom(pool[c])
    <3>1. /\ pool' = [pool EXCEPT ![c] = Append(pool[c], p)]
          /\ proc' = [proc EXCEPT ![p] = Reset(proc[p])]
      BY <1>11, <2>0, <2>4 DEF Put, Mine
    <3>2. pool'[c] = Append(pool[c], p) /\ \A d \in Path \ {c} : pool'[d] = pool[d]
      BY <2>2, <3>1
    <3>3. /\ proc'[p].alive /\ proc'[p].path = c /\ proc'[p].clean
          /\ \A q \in Processor \ {p} : proc'[q] = proc[q]
      BY <2>0, <2>1, <3>1 DEF Reset
    <3> QED BY <2>0, <2>1, <2>2, <2>3, <2>4, <3>2, <3>3, OnePut
  <2>5. CASE ~HasRoom(pool[c])
    <3>1. Delete(Mine(t)) /\ pool' = pool
      BY <1>11, <2>0, <2>5 DEF Put, Mine
    <3> QED BY <1>3, <2>1, <2>3, <3>1
  <2> QED BY <2>4, <2>5
<1>12. ASSUME NEW c \in Path, NEW text \in Edits[c], Change(c, text) PROVE Places'
  <2>1. UNCHANGED <<pool, proc>>
    BY <1>12 DEF Change
  <2>2. \A t \in Thread : job'[t].mine = job[t].mine /\ job'[t].path = job[t].path
    BY <1>12 DEF Change, Seeing
  <2> QED BY <2>1, <2>2, NothingMoves
<1>13. CASE Tick \/ UNCHANGED vars
  <2>1. UNCHANGED <<pool, proc, job>>
    BY <1>13 DEF Tick, vars
  <2> QED BY <2>1, NothingMoves
<1> QED BY <1>1, <1>2, <1>4, <1>5, <1>6, <1>7, <1>8, <1>9, <1>10, <1>11, <1>12,
           <1>13 DEF Next, Opens

LEMMA Inductive == Spec => []IInv
<1>1. Init => IInv
  BY TypesInit, PlacesInit DEF IInv
<1>2. IInv /\ [Next]_vars => IInv'
  BY TypesStep, PlacesStep DEF IInv
<1> QED BY <1>1, <1>2, PTL DEF Spec

LEMMA PlacesOne == IInv => OnePlace
<1> SUFFICES ASSUME IInv PROVE OnePlace OBVIOUS
<1>1. /\ \A t, u \in Thread : Mine(t) = Mine(u) /\ Mine(t) # None => t = u
      /\ \A p \in Live : (\E t \in Thread : Mine(t) = p) \/ \E c \in Path : p \in Pooled(c)
  BY DEF IInv, Places, HeldOnce, AliveIsSomewhere, Pooled, Live
<1>2. ASSUME NEW c \in Path
      PROVE  /\ Len(pool[c]) <= max_per_config
             /\ \A i, j \in DOMAIN pool[c] : pool[c][i] = pool[c][j] => i = j
             /\ \A t \in Thread : Mine(t) \notin Pooled(c)
             /\ \A p \in Pooled(c) : p \in Live /\ proc[p].path = c /\ proc[p].clean
  BY Addresses DEF IInv, Places, NotOverfull, PooledOnce, PooledNotHeld, PooledIsReady,
     Pooled, Live
<1>3. \A c, d \in Path : c # d => Pooled(c) \cap Pooled(d) = {}
  BY <1>2
<1> QED BY <1>1, <1>2, <1>3 DEF OnePlace

\* A thread has a processor where the code has one, and none elsewhere.
THEOREM TypeCorrect == Spec => []TypeOK
<1>1. IInv => TypeOK
  BY DEF IInv, Types
<1> QED BY <1>1, Inductive, PTL

\* A processor is with one thread or in one place of the pool, which keeps no
\* more than it may, and only what is ready (processor-pool.cc:93-131).
THEOREM ProcessorsHaveOnePlace == Spec => []OnePlace
BY Inductive, PlacesOne, PTL

-----------------------------------------------------------------------------
(* Fresh filters.                                                          *)

\* A version that was read from c: if the file has the same time now, it has
\* not been changed since.
Known(v, c) ==
  /\ v \in Version /\ v.text \in Edits[c]
  /\ v.mtime <= conf[c].mtime
  /\ v.mtime = conf[c].mtime => v = conf[c]

KnownVersion(p) == proc[p].alive => Known(proc[p].version, proc[p].path)

\* What thread t may find, and what it has parsed, was in the file since it
\* began to open.
SeenBy(t) ==
  /\ pc[t] # "idle" => conf[job[t].path].text \in job[t].seen
  /\ pc[t] = "config" =>
       Known(job[t].version, job[t].path) /\ job[t].version.text \in job[t].seen
  /\ pc[t] = "GetModificationTime" =>
       proc[job[t].mine].version.text \in job[t].seen
  /\ /\ pc[t] = "have" /\ NoFile \notin job[t].seen
     /\ proc[job[t].mine].version.mtime = proc[job[t].mine].stamp
     => proc[job[t].mine].version.text \in job[t].seen

Fresh ==
  /\ \A c \in Path : conf[c].text \in Edits[c]
  /\ \A p \in Processor : KnownVersion(p)
  /\ \A t \in Thread : SeenBy(t)

\* What Mine(t) is where a thread has a processor.
LEMMA HasProcessor ==
  ASSUME IInv, NEW t \in Thread, pc[t] \in Holding
  PROVE  /\ job[t].mine \in Processor /\ job[t].path \in Path
         /\ proc[job[t].mine].alive /\ proc[job[t].mine].path = job[t].path
BY PoolAssumption DEF IInv, Types, TypeOK, Places, HeldIsAlive, Mine, Holding

\* A step of one thread is none of another thread's business.
LEMMA OthersKeepSeeing ==
  ASSUME IInv, Fresh, NEW t \in Thread, UNCHANGED conf,
         \A u \in Thread \ {t} : job'[u] = job[u] /\ pc'[u] = pc[u],
         \A p \in Processor : \/ proc'[p] = proc[p] \/ p = job[t].mine \/ ~proc[p].alive
  PROVE  \A u \in Thread \ {t} : SeenBy(u)'
<1> SUFFICES ASSUME NEW u \in Thread \ {t} PROVE SeenBy(u)'
  OBVIOUS
<1>1. job'[u] = job[u] /\ pc'[u] = pc[u] /\ conf' = conf
  OBVIOUS
<1>2. pc[u] \in Holding => proc'[job[u].mine] = proc[job[u].mine]
  <2> SUFFICES ASSUME pc[u] \in Holding PROVE proc'[job[u].mine] = proc[job[u].mine]
    OBVIOUS
  <2>1. job[u].mine \in Processor /\ proc[job[u].mine].alive
    BY HasProcessor
  <2>2. job[u].mine # job[t].mine
    BY <2>1, Addresses DEF IInv, Places, HeldOnce, Mine
  <2> QED BY <2>1, <2>2
<1>3. SeenBy(u)
  BY DEF Fresh
<1> QED BY <1>1, <1>2, <1>3 DEF SeenBy, Holding, Known

\* The same of versions: a processor keeps its version, or is deleted.
LEMMA VersionsStayKnown ==
  ASSUME Fresh, UNCHANGED conf,
         \A p \in Processor : \/ ~proc'[p].alive
                              \/ /\ proc'[p].alive = proc[p].alive
                                 /\ proc'[p].version = proc[p].version
                                 /\ proc'[p].path = proc[p].path
  PROVE  /\ \A c \in Path : conf'[c].text \in Edits[c]
         /\ \A p \in Processor : KnownVersion(p)'
BY DEF Fresh, KnownVersion, Known

LEMMA FreshInit == Init => Fresh
<1> SUFFICES ASSUME Init PROVE Fresh OBVIOUS
<1>1. \A c \in Path : conf[c].text \in Edits[c]
  BY DEF Init
<1>2. \A p \in Processor : ~proc[p].alive
  BY DEF Init, NoProcessor
<1>3. \A t \in Thread : pc[t] = "idle"
  BY DEF Init
<1> QED BY <1>1, <1>2, <1>3 DEF Fresh, KnownVersion, SeenBy

\* The time a thread gets tells whether what it looked at is fresh.
LEMMA UpToDateIsFresh ==
  ASSUME IInv, Fresh, NEW t \in Thread, pc[t] = "ConfigStillUpToDate",
         TRUE \in ConfigStillUpToDate(Mine(t)), NoFile \notin job[t].seen,
         proc[job[t].mine].version.mtime = proc[job[t].mine].stamp
  PROVE  proc[job[t].mine].version.text \in job[t].seen
<1>1. PICK p : p = job[t].mine
  OBVIOUS
<1>2. p \in Processor /\ job[t].path \in Path /\ proc[p].alive /\ proc[p].path = job[t].path
  BY <1>1, HasProcessor DEF Holding
<1>3. Known(proc[p].version, job[t].path)
  BY <1>2 DEF Fresh, KnownVersion
<1>4. SeenBy(t)
  BY DEF Fresh
<1>5. proc[p].stamp \in GetModificationTime(job[t].path)
  BY <1>1, <1>2 DEF ConfigStillUpToDate, Mine
<1>6. conf[job[t].path].text \in job[t].seen /\ conf[job[t].path].text # NoFile
  BY <1>4 DEF SeenBy
<1>7. proc[p].stamp = conf[job[t].path].mtime
  BY <1>5, <1>6 DEF GetModificationTime, Exists
<1>8. proc[p].version = conf[job[t].path]
  BY <1>1, <1>3, <1>7 DEF Known
<1> QED BY <1>1, <1>6, <1>8

LEMMA FreshStep == IInv /\ Fresh /\ [Next]_vars => Fresh'
<1> SUFFICES ASSUME IInv, Fresh, [Next]_vars PROVE Fresh' OBVIOUS
<1>0. /\ DOMAIN job = Thread /\ \A t \in Thread : DOMAIN job[t] = JobFields
      /\ DOMAIN proc = Processor /\ \A p \in Processor : DOMAIN proc[p] = ProcFields
      /\ pc \in [Thread -> Location] /\ conf \in [Path -> Version] /\ clock \in Nat
      /\ \A t \in Thread : SeenBy(t)
  BY DEF IInv, Types, Shape, Fresh
<1>1. ASSUME NEW t \in Thread, NEW k \in DOMAIN Sound, FindFirstAccessiblePath(t, k)
      PROVE  Fresh'
  <2>1. UNCHANGED <<conf, proc>> /\ pc' = [pc EXCEPT ![t] = "CheckOutOfPool"]
    BY <1>1 DEF FindFirstAccessiblePath, Goto
  <2>2. PICK c \in Path : /\ Exists(c)
                          /\ job' = [job EXCEPT ![t] =
                               [kind |-> k, path |-> c, mine |-> None,
                                version |-> None, seen |-> {conf[c].text}]]
    <3>1. PICK i \in Accessible(k) :
            job' = [job EXCEPT ![t] =
                      [kind |-> k, path |-> Sound[k].choices[i], mine |-> None,
                       version |-> None, seen |-> {conf[Sound[k].choices[i]].text}]]
      BY <1>1 DEF FindFirstAccessiblePath
    <3>2. Sound[k].choices \in Seq(Path) /\ i \in DOMAIN Sound[k].choices
      BY PoolAssumption DEF Accessible
    <3>3. Sound[k].choices[i] \in Path /\ Exists(Sound[k].choices[i])
      BY <3>2 DEF Accessible
    <3> QED BY <3>1, <3>3
  <2>3. SeenBy(t)'
    BY <1>0, <2>1, <2>2 DEF SeenBy, Exists
  <2>4. \A u \in Thread \ {t} : SeenBy(u)'
    BY <1>0, <2>1, <2>2, OthersKeepSeeing
  <2> QED BY <2>1, <2>3, <2>4, VersionsStayKnown DEF Fresh
<1>2. ASSUME NEW t \in Thread, CheckOutOfPool(t) PROVE Fresh'
  <2>1. UNCHANGED <<conf, proc>> /\ pc[t] = "CheckOutOfPool"
    BY <1>2 DEF CheckOutOfPool
  <2>2. PICK l \in {"Create", "ConfigStillUpToDate"} : pc' = [pc EXCEPT ![t] = l]
    BY <1>2 DEF CheckOutOfPool, Goto
  <2>3. /\ job'[t].path = job[t].path /\ job'[t].seen = job[t].seen
        /\ \A u \in Thread \ {t} : job'[u] = job[u]
    BY <1>0, <1>2 DEF CheckOutOfPool, Take, JobFields
  <2>4. SeenBy(t)'
    BY <1>0, <2>1, <2>2, <2>3 DEF SeenBy
  <2>5. \A u \in Thread \ {t} : SeenBy(u)'
    BY <1>0, <2>1, <2>2, <2>3, OthersKeepSeeing
  <2> QED BY <2>1, <2>4, <2>5, VersionsStayKnown DEF Fresh
<1>3. ASSUME NEW t \in Thread, Verify(t) PROVE Fresh'
  <2>1. UNCHANGED conf /\ pc[t] = "ConfigStillUpToDate"
    BY <1>3 DEF Verify
  <2>2. CASE Goto(t, "have") /\ UNCHANGED <<proc, job>> /\ TRUE \in ConfigStillUpToDate(Mine(t))
    <3>1. pc' = [pc EXCEPT ![t] = "have"] /\ UNCHANGED <<proc, job>>
      BY <2>2 DEF Goto
    <3>2. SeenBy(t)'
      BY <1>0, <2>1, <2>2, <3>1, UpToDateIsFresh DEF SeenBy
    <3>3. \A u \in Thread \ {t} : SeenBy(u)'
      BY <1>0, <2>1, <3>1, OthersKeepSeeing
    <3> QED BY <2>1, <3>1, <3>2, <3>3, VersionsStayKnown DEF Fresh
  <2>3. CASE Delete(Mine(t)) /\ Take(t, None) /\ Goto(t, "CheckOutOfPool")
    <3>1. /\ pc' = [pc EXCEPT ![t] = "CheckOutOfPool"]
          /\ proc' = [proc EXCEPT ![job[t].mine] = NoProcessor]
          /\ job'[t].path = job[t].path /\ job'[t].seen = job[t].seen
          /\ \A u \in Thread \ {t} : job'[u] = job[u]
      BY <1>0, <2>3 DEF Goto, Delete, Take, Mine, JobFields
    <3>2. SeenBy(t)'
      BY <1>0, <2>1, <3>1 DEF SeenBy
    <3>3. \A u \in Thread \ {t} : SeenBy(u)'
      BY <1>0, <2>1, <3>1, OthersKeepSeeing
    <3>4. \A p \in Processor : proc'[p] = proc[p] \/ ~proc'[p].alive
      BY <1>0, <3>1 DEF NoProcessor
    <3> QED BY <2>1, <3>2, <3>3, <3>4, VersionsStayKnown DEF Fresh
  <2> QED BY <1>3, <2>2, <2>3 DEF Verify
<1>4. ASSUME NEW t \in Thread, LockConfig(t) PROVE Fresh'
  <2>1. UNCHANGED <<conf, proc>> /\ pc[t] = "Create"
    BY <1>4 DEF LockConfig
  <2>2. CASE Leave(t)
    <3>1. /\ pc' = [pc EXCEPT ![t] = "idle"]
          /\ \A u \in Thread \ {t} : job'[u] = job[u]
      BY <1>0, <2>2 DEF Leave, Goto
    <3>2. SeenBy(t)'
      BY <1>0, <3>1 DEF SeenBy
    <3>3. \A u \in Thread \ {t} : SeenBy(u)'
      BY <1>0, <2>1, <3>1, OthersKeepSeeing
    <3> QED BY <2>1, <3>2, <3>3, VersionsStayKnown DEF Fresh
  <2>3. CASE job' = [job EXCEPT ![t].version = conf[job[t].path]] /\ Goto(t, "config")
    <3>1. /\ pc' = [pc EXCEPT ![t] = "config"]
          /\ job'[t].path = job[t].path /\ job'[t].seen = job[t].seen
          /\ job'[t].version = conf[job[t].path]
          /\ \A u \in Thread \ {t} : job'[u] = job[u]
      BY <1>0, <2>3 DEF Goto, JobFields
    <3>2. job[t].path \in Path
      BY <2>1 DEF IInv, Types, TypeOK
    <3>3. Known(conf[job[t].path], job[t].path)'
      BY <1>0, <2>1, <3>1, <3>2 DEF Known, Fresh, Version
    <3>4. SeenBy(t)'
      BY <1>0, <2>1, <3>1, <3>3 DEF SeenBy
    <3>5. \A u \in Thread \ {t} : SeenBy(u)'
      BY <1>0, <2>1, <3>1, OthersKeepSeeing
    <3> QED BY <2>1, <3>4, <3>5, VersionsStayKnown DEF Fresh
  <2> QED BY <1>4, <2>2, <2>3 DEF LockConfig
<1>5. ASSUME NEW t \in Thread, Create(t) PROVE Fresh'
  <2>1. UNCHANGED conf /\ pc[t] = "config"
    BY <1>5 DEF Create
  <2>2. CASE Leave(t) /\ UNCHANGED proc
    <3>1. /\ pc' = [pc EXCEPT ![t] = "idle"]
          /\ \A u \in Thread \ {t} : job'[u] = job[u]
      BY <1>0, <2>2 DEF Leave, Goto
    <3>2. SeenBy(t)'
      BY <1>0, <3>1 DEF SeenBy
    <3>3. \A u \in Thread \ {t} : SeenBy(u)'
      BY <1>0, <2>1, <2>2, <3>1, OthersKeepSeeing
    <3> QED BY <2>1, <2>2, <3>2, <3>3, VersionsStayKnown DEF Fresh
  <2>3. ASSUME NEW p \in Processor, ~proc[p].alive, Take(t, p),
               Goto(t, "GetModificationTime"),
               proc' = [proc EXCEPT ![p] = NewProcessor(t)]
        PROVE  Fresh'
    <3>1. /\ pc' = [pc EXCEPT ![t] = "GetModificationTime"]
          /\ job'[t].path = job[t].path /\ job'[t].seen = job[t].seen
          /\ job'[t].mine = p
          /\ \A u \in Thread \ {t} : job'[u] = job[u]
      BY <1>0, <2>3 DEF Goto, Take, JobFields
    <3>2. /\ proc'[p].version = job[t].version /\ proc'[p].path = job[t].path
          /\ \A q \in Processor \ {p} : proc'[q] = proc[q]
      BY <1>0, <2>3 DEF NewProcessor
    <3>3. SeenBy(t)'
      BY <1>0, <2>1, <3>1, <3>2 DEF SeenBy
    <3>4. \A u \in Thread \ {t} : SeenBy(u)'
      BY <1>0, <2>1, <2>3, <3>1, <3>2, OthersKeepSeeing
    <3>5. \A q \in Processor : KnownVersion(q)'
      <4>1. Known(job[t].version, job[t].path)
        BY <1>0, <2>1 DEF SeenBy
      <4>2. KnownVersion(p)'
        BY <2>1, <3>2, <4>1 DEF KnownVersion, Known
      <4> QED BY <2>1, <3>2, <4>2 DEF Fresh, KnownVersion, Known
    <3> QED BY <2>1, <3>3, <3>4, <3>5 DEF Fresh
  <2>4. CASE Free # {}
    <3>1. (CHOOSE p \in Free : TRUE) \in Free
      BY <2>4
    <3> QED BY <1>5, <2>2, <2>3, <3>1 DEF Create, Free
  <2> QED BY <1>5, <2>2, <2>4 DEF Create
<1>6. ASSUME NEW t \in Thread, Stamp(t) PROVE Fresh'
  <2>1. UNCHANGED <<conf, job>> /\ pc[t] = "GetModificationTime"
    BY <1>6 DEF Stamp
  <2>2. PICK time : proc' = [proc EXCEPT ![job[t].mine].stamp = time]
    BY <1>6 DEF Stamp, Mine
  <2>3. pc' = [pc EXCEPT ![t] = "have"]
    BY <1>6 DEF Stamp, Goto
  <2>4. \A p \in Processor : /\ proc'[p].alive = proc[p].alive /\ proc'[p].path = proc[p].path
                             /\ proc'[p].version = proc[p].version
                             /\ proc'[p] = proc[p] \/ p = job[t].mine
    BY <1>0, <2>2 DEF ProcFields
  <2>5. job[t].mine \in Processor
    BY <2>1, HasProcessor DEF Holding
  <2>6. SeenBy(t)'
    BY <1>0, <2>1, <2>3, <2>4, <2>5 DEF SeenBy
  <2>7. \A u \in Thread \ {t} : SeenBy(u)'
    BY <1>0, <2>1, <2>3, <2>4, OthersKeepSeeing
  <2> QED BY <2>1, <2>4, <2>6, <2>7, VersionsStayKnown DEF Fresh
<1>7. ASSUME NEW t \in Thread, Process(t) PROVE Fresh'
  <2>1. UNCHANGED <<conf, job, pc>> /\ pc[t] = "have"
    BY <1>7 DEF Process
  <2>2. proc' = [proc EXCEPT ![job[t].mine].clean = FALSE]
    BY <1>7 DEF Process, Mine
  <2>3. \A p \in Processor : /\ proc'[p].alive = proc[p].alive /\ proc'[p].path = proc[p].path
                             /\ proc'[p].version = proc[p].version
                             /\ proc'[p].stamp = proc[p].stamp
                             /\ proc'[p] = proc[p] \/ p = job[t].mine
    BY <1>0, <2>2 DEF ProcFields
  <2>4. job[t].mine \in Processor
    BY <2>1, HasProcessor DEF Holding
  <2>5. SeenBy(t)'
    BY <1>0, <2>1, <2>3, <2>4 DEF SeenBy
  <2>6. \A u \in Thread \ {t} : SeenBy(u)'
    BY <1>0, <2>1, <2>3, OthersKeepSeeing
  <2> QED BY <2>1, <2>3, <2>5, <2>6, VersionsStayKnown DEF Fresh
<1>8. ASSUME NEW t \in Thread, UNCHANGED conf, Leave(t), job[t].mine \in Processor,
             \A p \in Processor \ {job[t].mine} : proc'[p] = proc[p],
             LET p == job[t].mine
             IN  \/ ~proc'[p].alive
                 \/ /\ proc'[p].alive = proc[p].alive /\ proc'[p].path = proc[p].path
                    /\ proc'[p].version = proc[p].version
      PROVE  Fresh'
  <2>1. pc' = [pc EXCEPT ![t] = "idle"] /\ \A u \in Thread \ {t} : job'[u] = job[u]
    BY <1>0, <1>8 DEF Leave, Goto
  <2>2. SeenBy(t)'
    BY <1>0, <2>1 DEF SeenBy
  <2>3. \A u \in Thread \ {t} : SeenBy(u)'
    BY <1>0, <1>8, <2>1, OthersKeepSeeing
  <2> QED BY <1>8, <2>2, <2>3, VersionsStayKnown DEF Fresh
<1>9. ASSUME NEW t \in Thread, Return(t) PROVE Fresh'
  <2>1. UNCHANGED conf /\ pc[t] = "have" /\ job[t].mine \in Processor
    BY <1>9, HasProcessor DEF Return, Holding
  <2>2. CASE Goto(t, "Return") /\ UNCHANGED <<proc, job>>
    <3>1. pc' = [pc EXCEPT ![t] = "Return"] /\ UNCHANGED <<proc, job>>
      BY <2>2 DEF Goto
    <3>2. SeenBy(t)'
      BY <1>0, <2>1, <3>1 DEF SeenBy
    <3>3. \A u \in Thread \ {t} : SeenBy(u)'
      BY <1>0, <2>1, <3>1, OthersKeepSeeing
    <3> QED BY <2>1, <3>1, <3>2, <3>3, VersionsStayKnown DEF Fresh
  <2>3. CASE Delete(Mine(t)) /\ Leave(t)
    <3>1. proc' = [proc EXCEPT ![job[t].mine] = NoProcessor]
      BY <2>3 DEF Delete, Mine
    <3>2. ~proc'[job[t].mine].alive
      BY <1>0, <2>1, <3>1 DEF NoProcessor
    <3> QED BY <1>0, <1>8, <2>1, <2>3, <3>1, <3>2
  <2> QED BY <1>9, <2>2, <2>3 DEF Return
<1>10. ASSUME NEW t \in Thread, Put(t) PROVE Fresh'
  <2>1. UNCHANGED conf /\ pc[t] = "Return" /\ job[t].mine \in Processor /\ Leave(t)
    BY <1>10, HasProcessor DEF Put, Holding
  <2>2. PICK p : p = job[t].mine
    OBVIOUS
  <2>3. CASE proc' = [proc EXCEPT ![p] = Reset(proc[p])]
    <3>1. /\ proc'[p].alive = proc[p].alive /\ proc'[p].path = proc[p].path
          /\ proc'[p].version = proc[p].version
      BY <1>0, <2>1, <2>2, <2>3 DEF Reset, ProcFields
    <3> QED BY <1>0, <1>8, <2>1, <2>2, <2>3, <3>1
  <2>4. CASE proc' = [proc EXCEPT ![p] = NoProcessor]
    <3>1. ~proc'[p].alive
      BY <1>0, <2>1, <2>2, <2>4 DEF NoProcessor
    <3> QED BY <1>0, <1>8, <2>1, <2>2, <2>4, <3>1
  <2> QED BY <1>10, <2>2, <2>3, <2>4 DEF Put, Delete, Mine
<1>11. ASSUME NEW c \in Path, NEW text \in Edits[c], Change(c, text) PROVE Fresh'
  <2>1. /\ UNCHANGED <<proc, pc>> /\ conf[c].mtime < clock
        /\ conf'[c] = [text |-> text, mtime |-> clock]
        /\ \A d \in Path \ {c} : conf'[d] = conf[d]
    BY <1>0, <1>11 DEF Change
  <2>2. \A v, d : d \in Path /\ Known(v, d) => Known(v, d)'
    <3> SUFFICES ASSUME NEW v, NEW d \in Path, Known(v, d) PROVE Known(v, d)'
      OBVIOUS
    <3>1. v.mtime \in Nat /\ conf[d].mtime \in Nat
      BY <1>0 DEF Known, Version
    <3>2. CASE d = c
      BY <1>0, <2>1, <3>1, <3>2 DEF Known
    <3>3. CASE d # c
      BY <2>1, <3>3 DEF Known
    <3> QED BY <3>2, <3>3
  <2>3. \A d \in Path : conf'[d].text \in Edits[d]
    BY <2>1 DEF Fresh
  <2>4. ASSUME NEW p \in Processor PROVE KnownVersion(p)'
    <3>1. proc[p].alive => proc[p].path \in Path
      BY DEF IInv, Types, TypeOK, Live
    <3> QED BY <2>1, <2>2, <3>1 DEF Fresh, KnownVersion
  <2>5. ASSUME NEW t \in Thread PROVE SeenBy(t)'
    <3>1. /\ job'[t].path = job[t].path /\ job'[t].mine = job[t].mine
          /\ job'[t].version = job[t].version /\ job[t].seen \subseteq job'[t].seen
          /\ job[t].path = c => text \in job'[t].seen
      BY <1>0, <1>11 DEF Change, Seeing, JobFields
    <3>2. pc[t] # "idle" => job[t].path \in Path
      BY DEF IInv, Types, TypeOK
    <3>3. SeenBy(t)
      BY <1>0
    <3>4. CASE job[t].path = c
      BY <2>1, <2>2, <3>1, <3>2, <3>3, <3>4 DEF SeenBy
    <3>5. CASE job[t].path # c
      BY <2>1, <2>2, <3>1, <3>2, <3>3, <3>5 DEF SeenBy
    <3> QED BY <3>4, <3>5
  <2> QED BY <2>3, <2>4, <2>5 DEF Fresh
<1>12. CASE UNCHANGED <<conf, proc, pc, job>>
  BY <1>12 DEF Fresh, KnownVersion, Known, SeenBy
<1> QED BY <1>1, <1>2, <1>3, <1>4, <1>5, <1>6, <1>7, <1>9, <1>10, <1>11, <1>12
        DEF Next, Opens, ParseStep, Tick, vars

\* An open gets a filter that its file described at some time since the open
\* began (processor-pool.h: "They only change if the configuration file is
\* touched"), however often files change, and come and go before it began.
THEOREM FiltersAreFresh == Spec => []FreshFilter
<1>1. Init => IInv /\ Fresh
  BY TypesInit, PlacesInit, FreshInit DEF IInv
<1>2. IInv /\ Fresh /\ [Next]_vars => (IInv /\ Fresh)'
  BY TypesStep, PlacesStep, FreshStep DEF IInv
<1>3. Fresh => FreshFilter
  BY DEF Fresh, SeenBy, FreshFilter, Mine
<1> QED BY <1>1, <1>2, <1>3, PTL DEF Spec

-----------------------------------------------------------------------------
(* The parser's choice of a fragment. Recursive functions are what they are *)
(* defined to be, and have the properties they have, by induction over sets *)
(* of numbers.                                                             *)

LEMMA SetInduction ==
  ASSUME NEW S, 0 \in S, \A n \in Nat : n \in S => n + 1 \in S
  PROVE  Nat \subseteq S
<1> DEFINE Left  == Nat \ S
           Below == OpToRel(<, Nat)
<1>1. SUFFICES ASSUME Left # {} PROVE FALSE
  OBVIOUS
<1>2. \A x, y \in Nat : <<x, y>> \in Below <=> x < y
  BY DEF OpToRel
<1>3. PICK x \in Left : \A y \in Left : <<y, x>> \notin Below
  <2>1. IsWellFoundedOn(Below, Nat)
    BY NatLessThanWellFounded
  <2> HIDE DEF Below
  <2> QED BY <1>1, <2>1, WFMin
<1> HIDE DEF Below
<1>4. PICK y \in Left : y < x
  <2>1. x \in Nat /\ x # 0 /\ x - 1 \in Nat /\ x - 1 < x /\ (x - 1) + 1 = x
    OBVIOUS
  <2> QED BY <2>1
<1>5. x \in Nat /\ y \in Nat
  OBVIOUS
<1> HIDE DEF Left
<1> QED BY <1>2, <1>3, <1>4, <1>5

\* The functions the model defines recursively: halved of Fragment, doubled of
\* Fragments.
Halves(h, n, twice) ==
  h = [f \in 1 .. n |-> IF f > MINPART /\ f >= twice THEN h[f \div 2] ELSE f]
Doubles(q, n) == q = [i \in 0 .. n |-> IF i = 0 THEN MINPART ELSE 2 * q[i - 1]]

LEMMA Lengths == {MAXQUANT, MINPART} \subseteq Nat \ {0} /\ MAXQUANT \in Fragments
BY FilterAssumption

LEMMA HalvedLemma ==
  ASSUME NEW twice \in Int
  PROVE  \E h : Halves(h, MAXQUANT, twice) /\ Fragment(twice) = h[MAXQUANT]
<1> DEFINE S == {n \in Nat : \E h : Halves(h, n, twice)}
<1> USE Lengths
<1>1. 0 \in S
  <2>1. Halves([f \in {} |-> f], 0, twice)
    BY DEF Halves
  <2> QED BY <2>1
<1>2. ASSUME NEW n \in Nat, n \in S PROVE n + 1 \in S
  <2>1. PICK h : Halves(h, n, twice)
    BY <1>2
  <2> DEFINE at(f)  == h[f \div 2]
             g == [f \in 1 .. n + 1 |-> IF f > MINPART /\ f >= twice THEN at(f) ELSE f]
  <2>2. ASSUME NEW f \in 1 .. n + 1, f > MINPART
        PROVE  g[f \div 2] = h[f \div 2]
    <3>1. f \div 2 \in 1 .. n
      BY <2>2
    <3> DEFINE k == f \div 2
    <3>2. h[k] = IF k > MINPART /\ k >= twice THEN h[k \div 2] ELSE k
      <4> HIDE DEF k
      <4> QED BY <2>1, <3>1 DEF Halves, k
    <3>3. g[k] = IF k > MINPART /\ k >= twice THEN h[k \div 2] ELSE k
      <4> HIDE DEF k
      <4> QED BY <3>1 DEF k
    <3> QED BY <3>2, <3>3
  <2>3. g = [f \in 1 .. n + 1 |-> IF f > MINPART /\ f >= twice THEN g[f \div 2] ELSE f]
    <3> HIDE DEF g
    <3> SUFFICES \A f \in 1 .. n + 1 : g[f] = IF f > MINPART /\ f >= twice THEN g[f \div 2] ELSE f
       BY DEF g
    <3> QED BY <2>2 DEF g
  <2>4. Halves(g, n + 1, twice)
    <3> HIDE DEF g
    <3> QED BY <2>3 DEF Halves
  <2> HIDE DEF g
  <2> QED BY <2>4
<1>3. MAXQUANT \in S
  <2> HIDE DEF S
  <2> QED BY <1>1, <1>2, SetInduction
<1> DEFINE halved == CHOOSE h : Halves(h, MAXQUANT, twice)
<1>4. Halves(halved, MAXQUANT, twice)
  BY <1>3
<1>5. Fragment(twice) = halved[MAXQUANT]
  BY DEF Fragment, Halves
<1> QED BY <1>4, <1>5

LEMMA DoublesLemma ==
  \E q : /\ Fragments = {q[n] : n \in 0 .. MAXQUANT}
         /\ q[0] = MINPART
         /\ \A n \in 1 .. MAXQUANT : q[n] = 2 * q[n - 1]
<1> DEFINE S == {n \in Nat : \E q : Doubles(q, n)}
<1> USE Lengths
<1>1. 0 \in S
  <2>1. Doubles([i \in 0 .. 0 |-> MINPART], 0)
    BY DEF Doubles
  <2> QED BY <2>1
<1>2. ASSUME NEW n \in Nat, n \in S PROVE n + 1 \in S
  <2>1. PICK q : Doubles(q, n)
    BY <1>2
  <2> DEFINE p == [i \in 0 .. n + 1 |-> IF i = 0 THEN MINPART ELSE 2 * q[i - 1]]
  <2>2. ASSUME NEW i \in 1 .. n + 1
        PROVE  p[i - 1] = q[i - 1]
    <3>1. PICK k \in 0 .. n : k = i - 1
      OBVIOUS
    <3>2. q[k] = (IF k = 0 THEN MINPART ELSE 2 * q[k - 1]) /\ p[k] = q[k]
      BY <2>1 DEF Doubles
    <3> HIDE DEF p
    <3> QED BY <3>1, <3>2
  <2>3. \A i \in 0 .. n + 1 : p[i] = IF i = 0 THEN MINPART ELSE 2 * p[i - 1]
    <3> SUFFICES ASSUME NEW i \in 0 .. n + 1
                 PROVE  p[i] = IF i = 0 THEN MINPART ELSE 2 * p[i - 1]
      OBVIOUS
    <3>1. p[i] = IF i = 0 THEN MINPART ELSE 2 * q[i - 1]
      OBVIOUS
    <3>2. i # 0 => i \in 1 .. n + 1
      OBVIOUS
    <3> HIDE DEF p
    <3> QED BY <2>2, <3>1, <3>2
  <2>4. Doubles(p, n + 1)
    <3>1. DOMAIN p = 0 .. n + 1 /\ p = [i \in 0 .. n + 1 |-> p[i]]
      OBVIOUS
    <3> HIDE DEF p
    <3> QED BY <2>3, <3>1 DEF Doubles
  <2> HIDE DEF p
  <2> QED BY <2>4
<1>3. MAXQUANT \in S
  <2> HIDE DEF S
  <2> QED BY <1>1, <1>2, SetInduction
<1> DEFINE quantum == CHOOSE q : Doubles(q, MAXQUANT)
<1>4. Doubles(quantum, MAXQUANT)
  BY <1>3
<1>5. Fragments = {quantum[n] : n \in 0 .. MAXQUANT}
  BY DEF Fragments, Doubles
<1> HIDE DEF quantum
<1>6. \A n \in 0 .. MAXQUANT : quantum[n] = IF n = 0 THEN MINPART ELSE 2 * quantum[n - 1]
  BY <1>4 DEF Doubles
<1> QED BY <1>5, <1>6

\* Allowed fragments differ by a factor of two at least. Halving ends at one of
\* them: the shortest, or one that is below the given length although its double
\* is not, or the longest.
LEMMA HalvingStops ==
  ASSUME NEW twice \in Int
  PROVE  /\ Fragment(twice) \in Fragments /\ Fragment(twice) <= MAXQUANT
         /\ Fragment(twice) = MINPART \/ Fragment(twice) < twice
         /\ twice <= 2 * Fragment(twice) \/ Fragment(twice) = MAXQUANT
         /\ \A g \in Fragments : /\ g \in Nat /\ g >= MINPART
                                 /\ g < Fragment(twice) => 2 * g <= Fragment(twice)
<1> USE Lengths
<1>1. PICK h : Halves(h, MAXQUANT, twice) /\ Fragment(twice) = h[MAXQUANT]
  BY HalvedLemma
<1>2. PICK q : /\ Fragments = {q[n] : n \in 0 .. MAXQUANT}
               /\ q[0] = MINPART
               /\ \A n \in 1 .. MAXQUANT : q[n] = 2 * q[n - 1]
  BY DoublesLemma
<1>3. \A n \in 0 .. MAXQUANT : q[n] \in Nat /\ q[n] >= MINPART
  <2> DEFINE S == {n \in Nat : n <= MAXQUANT => q[n] \in Nat /\ q[n] >= MINPART}
  <2>1. 0 \in S
    BY <1>2
  <2>2. ASSUME NEW n \in Nat, n \in S PROVE n + 1 \in S
    <3>1. CASE n + 1 <= MAXQUANT
      <4>1. n + 1 \in 1 .. MAXQUANT /\ (n + 1) - 1 = n /\ n <= MAXQUANT
        BY <3>1
      <4>2. q[n + 1] = 2 * q[n]
        BY <1>2, <4>1
      <4> QED BY <2>2, <4>1, <4>2
    <3> QED BY <3>1
  <2>3. Nat \subseteq S
    <3> HIDE DEF S
    <3> QED BY <2>1, <2>2, SetInduction
  <2>4. \A n \in 0 .. MAXQUANT : n \in S
    <3> HIDE DEF S
    <3> QED BY <2>3
  <2> QED BY <2>4
<1>4. \A i, j \in 0 .. MAXQUANT : i < j => 2 * q[i] <= q[j]
  <2> SUFFICES ASSUME NEW i \in 0 .. MAXQUANT
               PROVE  \A j \in 0 .. MAXQUANT : i < j => 2 * q[i] <= q[j]
    OBVIOUS
  <2> DEFINE S == {j \in Nat : j <= MAXQUANT /\ i < j => 2 * q[i] <= q[j]}
  <2>1. 0 \in S
    OBVIOUS
  <2>2. ASSUME NEW n \in Nat, n \in S PROVE n + 1 \in S
    <3>1. CASE n + 1 <= MAXQUANT /\ i <= n
      <4>1. n + 1 \in 1 .. MAXQUANT /\ (n + 1) - 1 = n /\ n \in 0 .. MAXQUANT
        BY <3>1
      <4>2. q[n + 1] = 2 * q[n]
        BY <1>2, <4>1
      <4>3. q[n] \in Nat /\ q[i] \in Nat
        BY <1>3, <4>1
      <4>4. i = n \/ 2 * q[i] <= q[n]
        BY <2>2, <3>1, <4>1
      <4> QED BY <4>2, <4>3, <4>4
    <3> QED BY <3>1
  <2>3. Nat \subseteq S
    <3> HIDE DEF S
    <3> QED BY <2>1, <2>2, SetInduction
  <2> QED BY <2>3
<1> DEFINE Stops(n, j) == /\ h[q[n]] = q[j]
                          /\ j = 0 \/ q[j] < twice
                          /\ twice <= 2 * q[j] \/ j = n
<1>5. \A f \in 1 .. MAXQUANT :
        h[f] = IF f > MINPART /\ f >= twice THEN h[f \div 2] ELSE f
  BY <1>1 DEF Halves
<1>6. \A n \in 0 .. MAXQUANT : q[n] <= MAXQUANT => \E j \in 0 .. n : Stops(n, j)
  <2> DEFINE S == {n \in Nat : n <= MAXQUANT /\ q[n] <= MAXQUANT =>
                                 \E j \in 0 .. n : Stops(n, j)}
  <2>1. 0 \in S
    <3>1. MINPART <= MAXQUANT => h[MINPART] = MINPART
      BY <1>5
    <3>2. q[0] <= MAXQUANT => Stops(0, 0)
      BY <1>2, <3>1
    <3> QED BY <3>2
  <2>2. ASSUME NEW n \in Nat, n \in S PROVE n + 1 \in S
    <3> SUFFICES ASSUME n + 1 <= MAXQUANT, q[n + 1] <= MAXQUANT
                 PROVE  \E j \in 0 .. n + 1 : Stops(n + 1, j)
      OBVIOUS
    <3>1. n + 1 \in 1 .. MAXQUANT /\ (n + 1) - 1 = n /\ n \in 0 .. MAXQUANT
      OBVIOUS
    <3>2. q[n + 1] = 2 * q[n] /\ q[n] \in Nat /\ q[n] >= MINPART
      BY <1>2, <1>3, <3>1
    <3>3. PICK j \in 0 .. n : Stops(n, j)
      BY <2>2, <3>2
    <3>4. (2 * q[n]) \div 2 = q[n] /\ q[n + 1] \in 1 .. MAXQUANT /\ q[n + 1] > MINPART
      BY <3>2
    <3>5. CASE q[n + 1] >= twice
      <4>1. h[q[n + 1]] = h[q[n]]
        BY <1>5, <3>2, <3>4, <3>5
      <4>2. twice <= 2 * q[n]
        BY <3>2, <3>5
      <4>3. Stops(n + 1, j)
        BY <3>3, <4>1, <4>2
      <4> HIDE DEF Stops
      <4> QED BY <4>3
    <3>6. CASE ~(q[n + 1] >= twice)
      <4>1. h[q[n + 1]] = q[n + 1]
        BY <1>5, <3>4, <3>6
      <4>2. Stops(n + 1, n + 1)
        BY <4>1, <3>4, <3>6
      <4> HIDE DEF Stops
      <4> QED BY <4>2
    <3> QED BY <3>5, <3>6
  <2>3. Nat \subseteq S
    <3> HIDE DEF S
    <3> QED BY <2>1, <2>2, SetInduction
  <2> HIDE DEF Stops
  <2> QED BY <2>3
<1>7. PICK top \in 0 .. MAXQUANT : q[top] = MAXQUANT
  BY <1>2
<1>8. PICK j \in 0 .. top : Stops(top, j)
  <2> HIDE DEF Stops
  <2> QED BY <1>6, <1>7
<1>9. j \in 0 .. MAXQUANT /\ Fragment(twice) = q[j]
  BY <1>1, <1>7, <1>8
<1>10. q[j] \in Fragments /\ q[j] <= MAXQUANT
  BY <1>2, <1>3, <1>4, <1>7, <1>9
<1>11. q[j] = MINPART \/ q[j] < twice
  BY <1>2, <1>8
<1>12. twice <= 2 * q[j] \/ q[j] = MAXQUANT
  BY <1>7, <1>8
<1>13. ASSUME NEW g \in Fragments
       PROVE  g \in Nat /\ g >= MINPART /\ (g < q[j] => 2 * g <= q[j])
  <2>1. PICK i \in 0 .. MAXQUANT : g = q[i]
    BY <1>2
  <2>2. q[i] \in Nat /\ q[j] \in Nat /\ q[i] >= MINPART
    BY <1>3, <1>9
  <2>3. j <= i => q[j] <= q[i]
    BY <1>4, <1>9, <2>2
  <2> QED BY <1>4, <1>9, <2>1, <2>2, <2>3
<1> QED BY <1>9, <1>10, <1>11, <1>12, <1>13

\* Halving while the fragment is at least twice the impulse response ends at the
\* shortest length that holds it (zita-fconfig.cc:74-77).
LEMMA FragmentIsShortest ==
  ASSUME NEW size \in Nat
  PROVE  IsShortestFragment(Fragment(2 * size), size)
<1> DEFINE f == Fragment(2 * size)
<1>1. /\ f \in Fragments /\ f <= MAXQUANT
      /\ f = MINPART \/ f < 2 * size
      /\ 2 * size <= 2 * f \/ f = MAXQUANT
      /\ \A g \in Fragments : g \in Nat /\ g >= MINPART /\ (g < f => 2 * g <= f)
  <2>1. 2 * size \in Int
    OBVIOUS
  <2> QED BY <2>1, HalvingStops
<1> HIDE DEF f
<1>2. f \in LongEnough(size)
  BY <1>1 DEF LongEnough
<1>3. ASSUME NEW g \in LongEnough(size) PROVE f <= g
  <2>1. g \in Fragments /\ g <= MAXQUANT /\ (size <= g \/ g = MAXQUANT)
    BY DEF LongEnough
  <2>2. g \in Nat /\ f \in Nat /\ g >= MINPART /\ (g < f => 2 * g <= f)
    BY <1>1, <2>1
  <2> QED BY <1>1, <2>1, <2>2, Lengths
<1>4. IsShortestFragment(f, size)
  BY <1>2, <1>3 DEF IsShortestFragment
<1> QED BY <1>4 DEF f

-----------------------------------------------------------------------------
(* Engines that fit.                                                       *)

ZitaFields == {"owner", "lines", "lnum", "stat", "ninp", "nout", "size", "fragm",
               "engine", "audio"}

\* The engine is configured with what the parser has noted.
Fitted(z) ==
  /\ z.engine = [ninp |-> z.ninp, nout |-> z.nout, fragm |-> z.fragm]
  /\ z.size \in Int /\ z.size <= MAXSIZE
  /\ \E twice \in Twice(z.size) : z.fragm = Fragment(twice)

\* Only a /convolver/new configures an engine. If there is no second one, the
\* numbers stay as they are.
ParserInv(z) ==
  /\ DOMAIN z = ZitaFields /\ z.lnum \in Nat \ {0} /\ IsConfig(z.lines)
  /\ z.engine # NoEngine =>
       \E i \in DOMAIN z.lines : i < z.lnum /\ z.lines[i].cmd = "/convolver/new"
  /\ ConfiguredOnce(z.lines) => z.engine = NoEngine \/ Fitted(z)

\* What Create makes of that.
InRange(z) == z.ninp \in 1 .. MAXINP \/ z.nout \in 1 .. MAXOUT
Fits(z) ==
  /\ z.ninp \in 1 .. MAXINP => z.ninp <= z.engine.ninp
  /\ z.nout \in 1 .. MAXOUT => z.nout <= z.engine.nout
  /\ ConfiguredOnce(z.lines) /\ InRange(z) => Fitted(z)

FitInv == ParserInv(zita) /\ \A p \in Live : Fits(proc[p].zita)

\* What other commands leave alone.
SameEngine(y, z) ==
  /\ DOMAIN y = ZitaFields
  /\ y.lines = z.lines /\ y.lnum = z.lnum /\ y.engine = z.engine
  /\ y.ninp = z.ninp /\ y.nout = z.nout /\ y.size = z.size /\ y.fragm = z.fragm

LEMMA ErrorKeepsEngine ==
  ASSUME NEW z, DOMAIN z = ZitaFields
  PROVE  /\ SameEngine(z, z)
         /\ \A stat : SameEngine(Error(z, stat), z)
         /\ \A pairs : \A y \in impdata_create(z, pairs) : SameEngine(y, z)
<1>1. SameEngine(z, z)
  BY DEF SameEngine
<1>2. ASSUME NEW stat PROVE SameEngine(Error(z, stat), z)
  BY DEF SameEngine, Error, ZitaFields
<1> QED BY <1>1, <1>2 DEF impdata_create

LEMMA CommandKeepsEngine ==
  ASSUME NEW z, DOMAIN z = ZitaFields, NEW l,
         l.cmd \in {"/impulse/read", "/impulse/dirac", "/impulse/hilbert",
                    "/impulse/copy", "nothing", "error"},
         NEW y \in Command(z, l)
  PROVE  SameEngine(y, z)
<1>1. CASE l.cmd = "/impulse/read"
  <2>1. y \in readfile(z, l)
    BY <1>1 DEF Command
  <2>2. \A audio : SameEngine([z EXCEPT !.audio = audio], z)
    BY DEF SameEngine, ZitaFields
  <2> QED BY <2>1, <2>2, ErrorKeepsEngine DEF readfile
<1>2. CASE l.cmd = "/impulse/dirac"
  <2>1. y \in impdirac(z, l)
    BY <1>2 DEF Command
  <2> QED BY <2>1, ErrorKeepsEngine DEF impdirac
<1>3. CASE l.cmd = "/impulse/hilbert"
  <2>1. y \in imphilbert(z, l)
    BY <1>3 DEF Command
  <2> QED BY <2>1, ErrorKeepsEngine DEF imphilbert
<1>4. CASE l.cmd = "/impulse/copy"
  <2>1. y \in impcopy(z, l)
    BY <1>4 DEF Command
  <2> QED BY <2>1, ErrorKeepsEngine DEF impcopy
<1>5. CASE l.cmd = "nothing"
  <2>1. y = z
    BY <1>5 DEF Command
  <2> QED BY <2>1, ErrorKeepsEngine
<1>6. CASE l.cmd = "error"
  <2>1. y = Error(z, l.stat)
    BY <1>6 DEF Command
  <2> QED BY <2>1, ErrorKeepsEngine
<1> QED BY <1>1, <1>2, <1>3, <1>4, <1>5, <1>6

\* /convolver/new configures an engine that is not configured with the numbers
\* it leaves, or leaves the engine as it is (zita-fconfig.cc:38-97).
LEMMA ConvnewFits ==
  ASSUME NEW z, DOMAIN z = ZitaFields, NEW l, l.size \in 0 .. UINT - 1,
         NEW y \in convnew(z, l)
  PROVE  /\ DOMAIN y = ZitaFields /\ y.lines = z.lines /\ y.lnum = z.lnum
         /\ y.engine = z.engine \/ Fitted(y)
<1> DEFINE numbers == [z EXCEPT !.ninp = Wrapped(l.ninp), !.nout = Wrapped(l.nout),
                                !.size = Wrapped(l.size)]
           whole(twice) == [numbers EXCEPT !.fragm = Fragment(twice)]
<1>1. /\ DOMAIN numbers = ZitaFields /\ numbers.lines = z.lines
      /\ numbers.lnum = z.lnum /\ numbers.engine = z.engine
      /\ numbers.size = Wrapped(l.size)
  BY DEF ZitaFields
<1>2. Wrapped(l.size) \in Int
  BY FilterAssumption DEF Wrapped
<1>3. \/ y = Error(numbers, "ERR_OTHER")
      \/ /\ ~(numbers.size > MAXSIZE)
         /\ \E twice \in Twice(numbers.size) : y \in configure(whole(twice))
  BY DEF convnew
<1> HIDE DEF numbers
<1>4. ASSUME NEW c, DOMAIN c = ZitaFields
      PROVE  SameEngine(Error(c, "ERR_OTHER"), c)
  BY <1>4, ErrorKeepsEngine
<1>5. CASE y = Error(numbers, "ERR_OTHER")
  BY <1>1, <1>4, <1>5 DEF SameEngine
<1>6. ASSUME ~(numbers.size > MAXSIZE),
             NEW twice \in Twice(numbers.size), y \in configure(whole(twice))
      PROVE  /\ DOMAIN y = ZitaFields /\ y.lines = z.lines /\ y.lnum = z.lnum
             /\ y.engine = z.engine \/ Fitted(y)
  <2> DEFINE c == whole(twice)
  <2>1. /\ DOMAIN c = ZitaFields /\ c.lines = z.lines /\ c.lnum = z.lnum
        /\ c.engine = z.engine /\ c.size = numbers.size /\ c.fragm = Fragment(twice)
    BY <1>1 DEF ZitaFields
  <2>2. y = Error(c, "ERR_OTHER") \/ y = Configured(c)
    BY <1>6 DEF configure
  <2> HIDE DEF c
  <2>3. CASE y = Error(c, "ERR_OTHER")
    BY <1>4, <2>1, <2>3 DEF SameEngine
  <2>4. CASE y = Configured(c)
    <3>1. /\ DOMAIN y = ZitaFields /\ y.lines = c.lines /\ y.lnum = c.lnum
          /\ y.engine = [ninp |-> c.ninp, nout |-> c.nout, fragm |-> c.fragm]
          /\ y.ninp = c.ninp /\ y.nout = c.nout /\ y.fragm = c.fragm /\ y.size = c.size
      BY <2>1, <2>4 DEF Configured, ZitaFields
    <3>2. y.size \in Int /\ y.size <= MAXSIZE
      BY <1>1, <1>2, <1>6, <2>1, <3>1, FilterAssumption
    <3> QED BY <1>6, <2>1, <3>1, <3>2 DEF Fitted
  <2> QED BY <2>2, <2>3, <2>4
<1> QED BY <1>3, <1>5, <1>6

LEMMA ParserKeepsInv ==
  ASSUME ParserInv(zita), NEW t, ConfigLine(t) \/ ReadBlock(t)
  PROVE  ParserInv(zita')
<1> USE DEF ParserInv
<1>1. CASE ConfigLine(t)
  <2> DEFINE l == zita.lines[zita.lnum]
  <2>1. PICK y \in Command(zita, l) : zita' = [y EXCEPT !.lnum = @ + 1]
    BY <1>1 DEF ConfigLine
  <2>2. zita.lnum \in DOMAIN zita.lines
    BY <1>1 DEF ConfigLine, AtEnd, IsConfig
  <2>3. CASE l.cmd = "/convolver/new"
    <3>1. y \in convnew(zita, l) /\ l.size \in 0 .. UINT - 1
      BY <2>2, <2>3 DEF Command, IsConfig
    <3>2. /\ DOMAIN y = ZitaFields /\ y.lines = zita.lines /\ y.lnum = zita.lnum
          /\ y.engine = zita.engine \/ Fitted(y)
      <4> HIDE DEF l
      <4> QED BY <3>1, ConvnewFits
    <3>3. /\ DOMAIN zita' = ZitaFields /\ zita'.lnum = zita.lnum + 1
          /\ zita'.lines = zita.lines /\ zita'.engine = y.engine
          /\ zita'.ninp = y.ninp /\ zita'.nout = y.nout
          /\ zita'.size = y.size /\ zita'.fragm = y.fragm
      BY <2>1, <3>2 DEF ZitaFields
    <3>4. zita.lnum \in DOMAIN zita'.lines /\ zita'.lines[zita.lnum].cmd = "/convolver/new"
          /\ zita.lnum < zita'.lnum
      BY <2>2, <2>3, <3>3
    <3>5. ASSUME ConfiguredOnce(zita.lines), y.engine = zita.engine
          PROVE  zita.engine = NoEngine
      BY <2>2, <2>3, <3>5 DEF ConfiguredOnce, IsConfig
    <3>6. Fitted(y) => Fitted(zita')
      BY <3>3 DEF Fitted
    <3> QED BY <3>2, <3>3, <3>4, <3>5, <3>6
  <2>4. CASE l.cmd # "/convolver/new"
    <3>1. SameEngine(y, zita)
      BY <2>1, <2>2, <2>4, CommandKeepsEngine DEF IsConfig
    <3>2. /\ DOMAIN zita' = ZitaFields /\ zita'.lnum = zita.lnum + 1
          /\ zita'.lines = zita.lines /\ zita'.engine = zita.engine
          /\ zita'.ninp = zita.ninp /\ zita'.nout = zita.nout
          /\ zita'.size = zita.size /\ zita'.fragm = zita.fragm
      BY <2>1, <3>1 DEF SameEngine, ZitaFields
    <3>3. Fitted(zita) => Fitted(zita')
      BY <3>2 DEF Fitted
    <3>4. \A i \in DOMAIN zita.lines : i < zita.lnum => i < zita'.lnum
      BY <3>2 DEF IsConfig
    <3> QED BY <3>2, <3>3, <3>4
  <2> QED BY <2>3, <2>4
<1>2. CASE ReadBlock(t)
  <2>1. PICK y, audio : /\ SameEngine(y, zita)
                        /\ zita' = [y EXCEPT !.audio = audio]
    BY <1>2, ErrorKeepsEngine DEF ReadBlock
  <2>2. SameEngine(zita', zita)
    BY <2>1 DEF SameEngine, ZitaFields
  <2>3. Fitted(zita) => Fitted(zita')
    BY <2>2 DEF SameEngine, Fitted
  <2> QED BY <2>2, <2>3 DEF SameEngine
<1> QED BY <1>1, <1>2

\* Create looks up the last input and the last output of the engine.
LEMMA AcceptedFits ==
  ASSUME NEW z, ParserInv(z), TRUE \in Accepted(z)
  PROVE  Fits(z)
<1>1. /\ TRUE \in NotNull(z.ninp, z.engine.ninp, MAXINP)
      /\ TRUE \in NotNull(z.nout, z.engine.nout, MAXOUT)
  BY DEF Accepted
<1>2. /\ z.ninp \in 1 .. MAXINP => z.ninp \in 1 .. z.engine.ninp
      /\ z.nout \in 1 .. MAXOUT => z.nout \in 1 .. z.engine.nout
  BY <1>1 DEF NotNull
<1>3. InRange(z) => z.engine # NoEngine
  BY <1>2 DEF InRange, NoEngine
<1>4. /\ z.ninp \in 1 .. MAXINP => z.ninp <= z.engine.ninp
      /\ z.nout \in 1 .. MAXOUT => z.nout <= z.engine.nout
  BY <1>2
<1> QED BY <1>3, <1>4 DEF Fits, ParserInv

LEMMA FitInit == Init => FitInv
<1> SUFFICES ASSUME Init PROVE FitInv OBVIOUS
<1>1. ParserInv(Unlocked)
  BY DEF ParserInv, Unlocked, ZitaFields, IsConfig
<1> QED BY <1>1 DEF Init, FitInv, Live, NoProcessor

\* Others than the parser and Create leave it at that, or delete.
LEMMA FitStays ==
  ASSUME FitInv, UNCHANGED zita,
         \A p \in Processor : ~proc'[p].alive \/ /\ proc'[p].alive = proc[p].alive
                                                 /\ proc'[p].zita = proc[p].zita
  PROVE  FitInv'
BY DEF FitInv, Live

LEMMA FitStep == IInv /\ FitInv /\ [Next]_vars => FitInv'
<1> SUFFICES ASSUME IInv, FitInv, [Next]_vars PROVE FitInv' OBVIOUS
<1>0. DOMAIN proc = Processor /\ \A p \in Processor : DOMAIN proc[p] = ProcFields
  BY DEF IInv, Types, Shape
<1>1. ASSUME NEW p, Delete(p), UNCHANGED zita PROVE FitInv'
  <2>1. \A q \in Processor : proc'[q] = IF q = p THEN NoProcessor ELSE proc[q]
    BY <1>0, <1>1 DEF Delete
  <2> QED BY <1>1, <2>1, FitStays DEF NoProcessor
<1>2. ASSUME UNCHANGED <<zita, proc>> PROVE FitInv'
  BY <1>2, FitStays
<1>3. ASSUME NEW t \in Thread, Verify(t) \/ Return(t) PROVE FitInv'
  BY <1>1, <1>2, <1>3 DEF Verify, Return
<1>4. ASSUME NEW t \in Thread, LockConfig(t) PROVE FitInv'
  <2>1. CASE UNCHANGED zita
    BY <1>2, <1>4, <2>1 DEF LockConfig
  <2>2. CASE ~UNCHANGED zita
    <3> DEFINE c == job[t].path
               lines == Text[conf[c].text]
    <3>1. PICK n : zita' = Zeroed(t, lines, n) /\ Exists(c) /\ UNCHANGED proc
      BY <1>4, <2>2 DEF LockConfig
    <3>2. conf[c].text \in DOMAIN Text
      <4>1. c \in Path
        BY <1>4 DEF LockConfig, IInv, Types, TypeOK
      <4> QED BY <3>1, <4>1 DEF Exists, IInv, Types, Shape, Version
    <3>3. IsConfig(lines)
      BY <3>2, PoolAssumption
    <3> HIDE DEF lines
    <3>4. ParserInv(zita')
      BY <3>1, <3>3 DEF ParserInv, Zeroed, Unlocked, ZitaFields, NotReading
    <3> QED BY <3>1, <3>4 DEF FitInv, Live
  <2> QED BY <2>1, <2>2
<1>5. ASSUME NEW t \in Thread, ParseStep(t) PROVE FitInv'
  <2>1. ParserInv(zita') /\ UNCHANGED proc
    BY <1>5, ParserKeepsInv DEF ParseStep, FitInv
  <2> QED BY <2>1 DEF FitInv, Live
<1>6. ASSUME NEW t \in Thread, Create(t) PROVE FitInv'
  <2>1. ParserInv(Unlocked)
    BY DEF ParserInv, Unlocked, ZitaFields, IsConfig
  <2>2. zita' = Unlocked
    BY <1>6 DEF Create, Released
  <2>3. CASE UNCHANGED proc
    BY <2>1, <2>2, <2>3 DEF FitInv, Live
  <2>4. CASE ~UNCHANGED proc
    <3>1. PICK p \in Processor : proc' = [proc EXCEPT ![p] = NewProcessor(t)]
      BY <1>6, <2>4 DEF Create, Free
    <3>2. TRUE \in Accepted(zita)
      BY <1>6, <2>4 DEF Create
    <3>3. Fits(zita)
      BY <3>2, AcceptedFits DEF FitInv
    <3> DEFINE z == Kept(zita)
    <3>4. /\ z.lines = zita.lines /\ z.engine = zita.engine /\ z.ninp = zita.ninp
          /\ z.nout = zita.nout /\ z.size = zita.size /\ z.fragm = zita.fragm
      BY DEF Kept, FitInv, ParserInv, ZitaFields
    <3>5. /\ proc'[p].zita = z
          /\ \A q \in Processor \ {p} : proc'[q] = proc[q]
      BY <1>0, <3>1 DEF NewProcessor
    <3> HIDE DEF z
    <3>6. Fits(z)
      BY <3>3, <3>4 DEF Fits, Fitted, InRange
    <3> QED BY <2>1, <2>2, <3>5, <3>6 DEF FitInv, Live
  <2> QED BY <2>3, <2>4
<1>7. ASSUME NEW t \in Thread, Stamp(t) \/ Process(t) PROVE FitInv'
  <2>1. /\ UNCHANGED zita
        /\ \A p \in Processor : proc'[p].alive = proc[p].alive /\ proc'[p].zita = proc[p].zita
    BY <1>0, <1>7 DEF Stamp, Process, ProcFields
  <2> QED BY <2>1, FitStays
<1>8. ASSUME NEW t \in Thread, Put(t) PROVE FitInv'
  <2>1. CASE HasRoom(pool[proc[Mine(t)].path])
    <3>1. UNCHANGED zita /\ proc' = [proc EXCEPT ![Mine(t)] = Reset(@)]
      BY <1>8, <2>1 DEF Put
    <3>2. \A p \in Processor : proc'[p].alive = proc[p].alive /\ proc'[p].zita = proc[p].zita
      BY <1>0, <3>1 DEF Reset, ProcFields
    <3> QED BY <3>1, <3>2, FitStays
  <2>2. CASE ~HasRoom(pool[proc[Mine(t)].path])
    BY <1>1, <1>8, <2>2 DEF Put
  <2> QED BY <2>1, <2>2
<1>9. ASSUME NEW t \in Thread, CheckOutOfPool(t) PROVE FitInv'
  BY <1>2, <1>9 DEF CheckOutOfPool
<1>10. ASSUME NEW t \in Thread, NEW k \in DOMAIN Sound, FindFirstAccessiblePath(t, k)
       PROVE  FitInv'
  BY <1>2, <1>10 DEF FindFirstAccessiblePath
<1>11. ASSUME NEW c \in Path, NEW text \in Edits[c], Change(c, text) PROVE FitInv'
  BY <1>2, <1>11 DEF Change
<1>12. CASE Tick
  BY <1>2, <1>12 DEF Tick
<1>13. CASE UNCHANGED vars
  BY <1>2, <1>13 DEF vars
<1> QED BY <1>3, <1>4, <1>5, <1>6, <1>7, <1>8, <1>9, <1>10, <1>11, <1>12, <1>13
        DEF Next, Opens

\* A size that is not negative does not overflow when it is doubled.
LEMMA FittedIsShortest ==
  ASSUME NEW z, Fitted(z)
  PROVE  /\ z.fragm \in Fragments
         /\ z.size >= 0 => z.size <= MAXSIZE /\ IsShortestFragment(z.fragm, z.size)
<1>1. PICK twice \in Twice(z.size) : z.fragm = Fragment(twice)
  BY DEF Fitted
<1>2. z.size \in Int /\ z.size <= MAXSIZE
  BY DEF Fitted
<1>3. twice \in Int
  BY <1>1, <1>2, FilterAssumption DEF Twice, Wrapped
<1>4. z.fragm \in Fragments
  BY <1>1, <1>3, HalvingStops
<1>5. ASSUME z.size >= 0 PROVE IsShortestFragment(z.fragm, z.size)
  <2>1. z.size \in Nat
    BY <1>2, <1>5
  <2>2. twice = 2 * z.size
    BY <1>2, <1>5, FilterAssumption DEF Twice, Wrapped
  <2> QED BY <1>1, <2>1, <2>2, FragmentIsShortest
<1> QED BY <1>2, <1>4, <1>5

\* What Create makes of any configuration has no more channels than its engine;
\* with one /convolver/new at most it fits its engine, and the fragment is the
\* shortest for its impulse responses unless the size is a negative int
\* (zita-fconfig.cc:38-97, sound-processor.cc:44-47). For any texts, errors of
\* the library or of reading in between, and limits of the engine.
THEOREM EnginesFit == Spec => []EngineFits
<1>1. Init => IInv /\ FitInv
  BY TypesInit, PlacesInit, FitInit DEF IInv
<1>2. IInv /\ FitInv /\ [Next]_vars => (IInv /\ FitInv)'
  BY TypesStep, PlacesStep, FitStep DEF IInv
<1>3. ASSUME FitInv, NEW p \in Live
      PROVE  LET z == proc[p].zita
             IN  /\ Fits(z)
                 /\ Fitted(z) =>
                      /\ z.fragm \in Fragments
                      /\ z.size >= 0 =>
                           z.size <= MAXSIZE /\ IsShortestFragment(z.fragm, z.size)
  BY <1>3, FittedIsShortest DEF FitInv
<1>4. FitInv => EngineFits
  BY <1>3 DEF EngineFits, Fits, InRange, Fitted
<1> QED BY <1>1, <1>2, <1>4, PTL DEF Spec
=============================================================================
