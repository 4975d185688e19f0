------------------------- MODULE FolveThreads_proofs -------------------------
(***************************************************************************)
(* Proofs that no thread of folve uses what another one deletes, and that  *)
(* no threads wait for each other in a circle, for any number of players,  *)
(* files and handlers.                                                     *)
(***************************************************************************)
EXTENDS FolveThreads, FileHandlerCache_proofs, SequenceTheorems

\* The pre-buffer thread is there from the start, or there is no second player
\* to start another one: the code looks and starts without a lock
\* (folve-filesystem.cc:59-60), and Forget reaches one thread only.
OneThreadAtMost ==
  NoThread \in InitialThread => \A p, q \in Player : p = q

Place == {"off", "idle", "find", "create", "insert", "fill", "passover", "unpin",
          "complete", "request", "start", "enqueue", "again", "drop"}
OpenPlace == {"find", "create", "insert"}
RequestPlace == {"request", "start", "enqueue"}

ThTypeOK ==
  /\ pc \in [Caller -> Place]
  /\ handle \in [Player -> Handler \cup {NoHandler}]
  /\ opening \in [Caller -> Key]
  /\ filling \in [Caller -> Handler \cup {NoHandler}]
  /\ destructor \in [Caller -> {"notify", "forget", "delete"}]
  /\ buffer_thread \in PreBuffer \cup {NoThread}
  /\ queue \in [PreBuffer -> Seq(Handler)]
  /\ current \in [PreBuffer -> Handler \cup {NoHandler}]

\* What nests an operation is the fill of the thread's own file, for which it
\* opens the next one.
NestedInFill(c) ==
  IF Nested(c)
  THEN /\ filling[c] = FillTarget(c)
       /\ opening[c] = FileOf(filling[c]) + 1
       /\ pc[c] \in OpenPlace \cup RequestPlace \cup {"passover", "unpin", "complete"}
  ELSE pc[c] \notin {"passover", "unpin", "complete"}

\* A player opens when it has no file, and reads when it has one.
PlayerPlace(p) ==
  p \in Player =>
    /\ pc[p] \notin {"off", "again", "drop"}
    /\ ~Nested(p) =>
         /\ pc[p] \in OpenPlace => handle[p] = NoHandler
         /\ pc[p] \in RequestPlace \cup {"fill"} => handle[p] # NoHandler

\* There is one pre-buffer thread, which has the head of its queue in hand
\* unless it is idle.
ThreadPlace(w) ==
  w \in PreBuffer =>
    IF w = buffer_thread
    THEN /\ pc[w] # "off"
         /\ current[w] = NoHandler <=> pc[w] = "idle"
         /\ current[w] # NoHandler => queue[w] # <<>> /\ current[w] = Head(queue[w])
         /\ ~Nested(w) => pc[w] \in {"idle", "fill", "again", "drop"}
    ELSE pc[w] = "off" /\ queue[w] = <<>> /\ current[w] = NoHandler /\ ~Nested(w)

\* Who starts the thread is a player, when there is none.
Starting(c) ==
  /\ pc[c] = "start" => c \in Player /\ buffer_thread = NoThread
  /\ pc[c] = "enqueue" => buffer_thread # NoThread

PlaceOK(c) == NestedInFill(c) /\ PlayerPlace(c) /\ ThreadPlace(c) /\ Starting(c)

PlacesOK ==
  /\ buffer_thread = NoThread => \A p, q \in Player : p = q
  /\ \A c \in Caller : PlaceOK(c)

\* What a thread made and did not file yet is for what it opens.
MadeForOpening ==
  \A c \in Caller : \A h \in created[c] :
    pc[c] = "insert" /\ FileOf(h) = opening[c] /\ \A g \in created[c] : g = h

\* An entry is used by the players that have its file open, and by who has
\* obtained it as the next file.
HasOpen(c, k) == c \in Player /\ handle[c] # NoHandler /\ k = FileOf(handle[c])
Uses(c, k) == HasOpen(c, k) \/ (NextFileObtained(c) /\ k = opening[c])
UsersOf(k) == {c \in Caller : Uses(c, k)}
Users == {c \in Caller : \E k \in Key : Uses(c, k)}

FiledByFile == \A k \in DOMAIN cache : FileOf(cache[k].handler) = k
OpenIsCached ==
  \A p \in Player : handle[p] # NoHandler =>
    /\ FileOf(handle[p]) \in DOMAIN cache
    /\ cache[FileOf(handle[p])].handler = handle[p]
NextIsCached == \A c \in Caller : NextFileObtained(c) => opening[c] \in DOMAIN cache
RefsCountUsers ==
  \A k \in DOMAIN cache : cache[k].references = Cardinality(UsersOf(k))

UseOK ==
  /\ FiledByFile /\ OpenIsCached /\ NextIsCached
  /\ IsFiniteSet(Users) /\ RefsCountUsers

\* Handlers the cache had: those it has, and those erased from it.
Filed == {cache[k].handler : k \in DOMAIN cache} \cup UNION {to_delete[c] : c \in Caller}

NoneTwice(q) == \A i, j \in 1 .. Len(q) : q[i] = q[j] => i = j

QueuesOK ==
  \A w \in PreBuffer : NoneTwice(queue[w]) /\ ToSet(queue[w]) \subseteq Filed

\* A call erases one handler at most, and a destructor that is past Forget has
\* left no work behind.
DestructorsOK ==
  \A c \in Caller :
    /\ to_delete[c] = {} => destructor[c] = "notify"
    /\ \A g, h \in to_delete[c] : g = h
    /\ destructor[c] = "delete" =>
         \A h \in to_delete[c], w \in PreBuffer : h \notin ToSet(queue[w])

ThInv ==
  /\ IInv /\ ThTypeOK /\ PlacesOK /\ MadeForOpening /\ UseOK /\ QueuesOK
  /\ DestructorsOK

-----------------------------------------------------------------------------
(* Queues.                                                                 *)

LEMMA AppendedOnce ==
  ASSUME NEW q \in Seq(Handler), NoneTwice(q), NEW h \in Handler, h \notin ToSet(q)
  PROVE  /\ Append(q, h) \in Seq(Handler)
         /\ NoneTwice(Append(q, h))
         /\ ToSet(Append(q, h)) = ToSet(q) \cup {h}
         /\ Append(q, h) # <<>>
         /\ q # <<>> => Head(Append(q, h)) = Head(q)
<1> DEFINE r == Append(q, h)
<1>1. /\ r \in Seq(Handler) /\ Len(r) = Len(q) + 1 /\ r[Len(q) + 1] = h
      /\ \A i \in 1 .. Len(q) : r[i] = q[i]
  OBVIOUS
<1>2. r # <<>>
  BY <1>1
<1>3. q # <<>> => Head(r) = Head(q)
  <2>1. SUFFICES ASSUME q # <<>> PROVE Head(r) = Head(q)
    OBVIOUS
  <2>2. 1 \in 1 .. Len(q) /\ Head(q) = q[1] /\ Head(r) = r[1]
    BY <2>1
  <2> QED BY <1>1, <2>2
<1>4. \A i \in 1 .. Len(q) : q[i] # h
  BY DEF ToSet
<1> HIDE DEF r
<1>5. NoneTwice(r)
  BY <1>1, <1>4 DEF NoneTwice
<1>6. ToSet(r) = ToSet(q) \cup {h}
  BY <1>1 DEF ToSet
<1> QED BY <1>1, <1>2, <1>3, <1>5, <1>6 DEF r

LEMMA TailOnce ==
  ASSUME NEW q \in Seq(Handler), NoneTwice(q), q # <<>>
  PROVE  /\ Tail(q) \in Seq(Handler)
         /\ NoneTwice(Tail(q))
         /\ ToSet(Tail(q)) = ToSet(q) \ {Head(q)}
         /\ Head(q) \in ToSet(q)
<1> DEFINE r == Tail(q)
<1>1. /\ r \in Seq(Handler) /\ Len(r) = Len(q) - 1 /\ Len(q) \in Nat \ {0}
      /\ \A i \in 1 .. Len(q) - 1 : r[i] = q[i + 1]
      /\ Head(q) = q[1]
  OBVIOUS
<1> HIDE DEF r
<1>2. NoneTwice(r)
  BY <1>1 DEF NoneTwice
<1>3. \A x : x \in ToSet(r) <=> \E i \in 1 .. Len(q) - 1 : x = q[i + 1]
  BY <1>1 DEF ToSet
<1>4. \A x : x \in ToSet(q) <=> \E j \in 1 .. Len(q) : x = q[j]
  BY DEF ToSet
<1>5. \A j \in 1 .. Len(q) : j = 1 \/ (j - 1 \in 1 .. Len(q) - 1 /\ q[j] = q[(j - 1) + 1])
  BY <1>1
<1>6. \A i \in 1 .. Len(q) - 1 : i + 1 \in 1 .. Len(q) /\ q[i + 1] # q[1]
  BY <1>1 DEF NoneTwice
<1>7. ToSet(r) = ToSet(q) \ {q[1]}
  BY <1>3, <1>4, <1>5, <1>6
<1>8. q[1] \in ToSet(q)
  BY <1>1, <1>4
<1> QED BY <1>1, <1>2, <1>7, <1>8 DEF r

LEMMA RotatedOnce ==
  ASSUME NEW q \in Seq(Handler), NoneTwice(q), q # <<>>
  PROVE  /\ Append(Tail(q), Head(q)) \in Seq(Handler)
         /\ NoneTwice(Append(Tail(q), Head(q)))
         /\ ToSet(Append(Tail(q), Head(q))) = ToSet(q)
<1> DEFINE t == Tail(q)
           h == Head(q)
<1>1. h \in Handler
  OBVIOUS
<1>2. /\ t \in Seq(Handler) /\ NoneTwice(t)
      /\ ToSet(t) = ToSet(q) \ {h} /\ h \in ToSet(q)
  BY TailOnce
<1> HIDE DEF t, h
<1>3. /\ Append(t, h) \in Seq(Handler) /\ NoneTwice(Append(t, h))
      /\ ToSet(Append(t, h)) = ToSet(t) \cup {h}
  BY <1>1, <1>2, AppendedOnce
<1>4. ToSet(Append(t, h)) = ToSet(q)
  BY <1>2, <1>3
<1> QED BY <1>3, <1>4 DEF t, h

\* What Forget makes of a queue: the work for h is gone, the rest is in order.
LEMMA ForgottenOnce ==
  ASSUME NEW q \in Seq(Handler), NoneTwice(q), NEW h
  PROVE  /\ RemoveFirst(q, h) \in Seq(Handler)
         /\ NoneTwice(RemoveFirst(q, h))
         /\ ToSet(RemoveFirst(q, h)) = ToSet(q) \ {h}
         /\ q # <<>> /\ Head(q) # h =>
              RemoveFirst(q, h) # <<>> /\ Head(RemoveFirst(q, h)) = Head(q)
<1>1. CASE ~\E i \in 1 .. Len(q) : q[i] = h
  <2>1. RemoveFirst(q, h) = q
    BY <1>1 DEF RemoveFirst
  <2>2. h \notin ToSet(q)
    BY <1>1 DEF ToSet
  <2> QED BY <2>1, <2>2
<1>2. CASE \E i \in 1 .. Len(q) : q[i] = h
  <2>1. PICK p \in 1 .. Len(q) : q[p] = h
    BY <1>2
  <2> DEFINE I == {i \in 1 .. Len(q) : q[i] = h}
             r == RemoveFirst(q, h)
             front == SubSeq(q, 1, p - 1)
             back  == SubSeq(q, p + 1, Len(q))
  <2>2. I = {p}
    BY <2>1 DEF NoneTwice
  <2>3. Min(I) = p
    <3>1. p \in I /\ \A y \in I : p <= y
      BY <2>1, <2>2
    <3>2. Min(I) \in I
      BY <3>1 DEF Min
    <3> QED BY <2>2, <3>2
  <2>4. r = front \o back
    <3>1. r = RemoveAt(q, Min(I))
      BY <2>1 DEF RemoveFirst, SelectInSeq
    <3> QED BY <2>3, <3>1 DEF RemoveAt
  <2>5. /\ front \in Seq(Handler) /\ Len(front) = p - 1
        /\ \A i \in 1 .. p - 1 : front[i] = q[i]
    OBVIOUS
  <2>6. /\ back \in Seq(Handler) /\ Len(back) = Len(q) - p
        /\ \A i \in 1 .. Len(q) - p : back[i] = q[p + i]
    OBVIOUS
  <2> HIDE DEF r, front, back
  <2>7. /\ r \in Seq(Handler) /\ Len(r) = Len(q) - 1
    BY <2>4, <2>5, <2>6
  <2>8. ASSUME NEW i \in 1 .. Len(q) - 1 PROVE r[i] = IF i < p THEN q[i] ELSE q[i + 1]
    <3>1. CASE i < p
      BY <2>4, <2>5, <2>6, <3>1
    <3>2. CASE ~(i < p)
      <4>1. i - (p - 1) \in 1 .. Len(q) - p /\ p + (i - (p - 1)) = i + 1
        BY <3>2
      <4>2. i \in 1 .. Len(front) + Len(back) /\ ~(i <= Len(front))
        BY <2>5, <2>6, <3>2
      <4>3. r[i] = back[i - Len(front)]
        BY <2>4, <2>5, <2>6, <4>2, ConcatProperties
      <4>4. back[i - Len(front)] = q[i + 1]
        BY <2>5, <2>6, <4>1
      <4> QED BY <3>2, <4>3, <4>4
    <3> QED BY <3>1, <3>2
  <2> DEFINE at(k) == IF k < p THEN k ELSE k + 1
  <2>9. \A i \in 1 .. Len(r) : at(i) \in 1 .. Len(q) /\ at(i) # p /\ r[i] = q[at(i)]
    BY <2>7, <2>8
  <2>10. \A j \in 1 .. Len(q) \ {p} : \E i \in 1 .. Len(r) : at(i) = j
    <3> SUFFICES ASSUME NEW j \in 1 .. Len(q) \ {p}
                 PROVE  \E i \in 1 .. Len(r) : at(i) = j
      OBVIOUS
    <3>1. CASE j < p
      BY <2>7, <3>1
    <3>2. CASE ~(j < p)
      <4>1. j - 1 \in 1 .. Len(r) /\ at(j - 1) = j
        BY <2>7, <3>2
      <4> QED BY <4>1
    <3> QED BY <3>1, <3>2
  <2>11. \A i, j \in 1 .. Len(r) : at(i) = at(j) => i = j
    BY <2>7
  <2> HIDE DEF at
  <2>12. NoneTwice(r)
    BY <2>9, <2>11 DEF NoneTwice
  <2>13. \A x : x \in ToSet(r) <=> \E i \in 1 .. Len(r) : x = r[i]
    BY DEF ToSet
  <2>14. \A x : x \in ToSet(q) <=> \E j \in 1 .. Len(q) : x = q[j]
    BY DEF ToSet
  <2>15. \A j \in 1 .. Len(q) : j # p => q[j] # h
    BY <2>1 DEF NoneTwice
  <2>16. ToSet(r) = ToSet(q) \ {h}
    <3>1. ASSUME NEW x \in ToSet(r) PROVE x \in ToSet(q) \ {h}
      <4>1. PICK i \in 1 .. Len(r) : x = r[i]
        BY <2>13, <3>1
      <4>2. at(i) \in 1 .. Len(q) /\ at(i) # p /\ x = q[at(i)]
        BY <2>9, <4>1
      <4> QED BY <2>14, <2>15, <4>2
    <3>2. ASSUME NEW x \in ToSet(q) \ {h} PROVE x \in ToSet(r)
      <4>1. PICK j \in 1 .. Len(q) : x = q[j]
        BY <2>14, <3>2
      <4>2. j # p
        BY <2>1, <3>2, <4>1
      <4>3. PICK i \in 1 .. Len(r) : at(i) = j
        BY <2>10, <4>2
      <4> QED BY <2>9, <2>13, <4>1, <4>3
    <3> QED BY <3>1, <3>2
  <2>17. q # <<>> /\ Head(q) # h => r # <<>> /\ Head(r) = Head(q)
    BY <2>1, <2>7, <2>8
  <2> QED BY <2>7, <2>12, <2>16, <2>17 DEF r
<1> QED BY <1>1, <1>2

-----------------------------------------------------------------------------
(* The threads are clients that keep to the cache's contract.              *)

LEMMA InitThInv == Init /\ OneThreadAtMost => ThInv
<1> SUFFICES ASSUME Init, OneThreadAtMost PROVE ThInv
  OBVIOUS
<1>1. IInv
  BY InitIInv DEF Init
<1>2. (CHOOSE k \in Key : TRUE) \in Key
  BY ThreadsAssumption
<1>3. ThTypeOK
  BY <1>2, ThreadsAssumption DEF Init, ThTypeOK, Place
<1>4. /\ \A c \in Caller : ~Nested(c) /\ created[c] = {} /\ to_delete[c] = {}
      /\ \A c \in Caller : pc[c] \in {"idle", "off"}
      /\ \A p \in Player : pc[p] = "idle" /\ handle[p] = NoHandler
      /\ DOMAIN cache = {}
  BY ThreadsAssumption DEF Init, CacheInit, Nested
<1>5. PlacesOK
  <2>1. buffer_thread = NoThread => \A p, q \in Player : p = q
    BY DEF OneThreadAtMost, Init
  <2>2. SUFFICES ASSUME NEW c \in Caller PROVE PlaceOK(c)
    BY <2>1 DEF PlacesOK
  <2>3. NestedInFill(c) /\ PlayerPlace(c) /\ Starting(c)
    BY <1>4 DEF NestedInFill, PlayerPlace, Starting, OpenPlace, RequestPlace
  <2>4. ThreadPlace(c)
    BY <1>4, ThreadsAssumption DEF ThreadPlace, Init
  <2> QED BY <2>3, <2>4 DEF PlaceOK
<1>6. MadeForOpening
  BY <1>4 DEF MadeForOpening
<1>7. \A c \in Caller : \A k : ~Uses(c, k)
  BY <1>4 DEF Uses, HasOpen, NextFileObtained
<1>8. Users = {}
  BY <1>7 DEF Users
<1>9. UseOK
  BY <1>4, <1>7, <1>8, FS_EmptySet
     DEF UseOK, FiledByFile, OpenIsCached, NextIsCached, RefsCountUsers, NextFileObtained
<1>10. QueuesOK
  BY DEF QueuesOK, NoneTwice, ToSet, Init
<1>11. DestructorsOK
  BY <1>4 DEF DestructorsOK, Init
<1> QED BY <1>1, <1>3, <1>5, <1>6, <1>9, <1>10, <1>11 DEF ThInv

LEMMA UsersOfFinite ==
  ASSUME ThInv, NEW k \in Key
  PROVE  IsFiniteSet(UsersOf(k)) /\ Cardinality(UsersOf(k)) \in Nat
<1>1. UsersOf(k) \subseteq Users
  BY DEF UsersOf, Users
<1> QED BY <1>1, FS_Subset, FS_CardinalityType DEF ThInv, UseOK

\* What a thread uses is there, and pinned.
LEMMA UsedIsPinned ==
  ASSUME ThInv, NEW c \in Caller, NEW k, Uses(c, k)
  PROVE  /\ k \in Key /\ k \in DOMAIN cache /\ k \notin Idle(cache)
         /\ cache[k].handler \in Handler /\ cache[k].handler \in alive
         /\ FileOf(cache[k].handler) = k
<1>1. k \in DOMAIN cache
  BY DEF Uses, HasOpen, ThInv, UseOK, OpenIsCached, NextIsCached
<1>2. k \in Key /\ cache[k].handler \in Handler /\ cache[k].handler \in alive
  BY <1>1 DEF ThInv, IInv, CacheTypeOK, Entry, OneOwner, Owned
<1>3. c \in UsersOf(k)
  BY DEF UsersOf
<1>4. Cardinality(UsersOf(k)) # 0
  BY <1>2, <1>3, UsersOfFinite, FS_EmptySet
<1> QED BY <1>1, <1>2, <1>4 DEF ThInv, UseOK, RefsCountUsers, Idle, FiledByFile

\* The file a player has open is the one in the cache.
LEMMA OpenIsUsed ==
  ASSUME ThInv, NEW p \in Player, handle[p] # NoHandler
  PROVE  /\ Uses(p, FileOf(handle[p]))
         /\ cache[FileOf(handle[p])].handler = handle[p]
         /\ handle[p] \in Handler /\ handle[p] \in alive
<1>1. p \in Caller
  BY ThreadsAssumption
<1>2. Uses(p, FileOf(handle[p]))
  BY DEF Uses, HasOpen
<1>3. cache[FileOf(handle[p])].handler = handle[p]
  BY DEF ThInv, UseOK, OpenIsCached
<1> QED BY <1>1, <1>2, <1>3, UsedIsPinned

LEMMA ThStepIsCacheStep ==
  ASSUME ThInv, [Next]_vars
  PROVE  [CacheNext]_cache_vars
<1>0. \A c \in Caller : opening[c] \in Key /\ Nested(c) \in BOOLEAN
  BY DEF ThInv, ThTypeOK, Nested
<1>1. ASSUME NEW c \in Caller, Find(c) PROVE [CacheNext]_cache_vars
  <2>1. \/ FindAndPinMiss(c, opening[c])
        \/ FindAndPinReplace(c, opening[c], Nested(c))
        \/ FindAndPinHit(c, opening[c], Nested(c))
    BY <1>1 DEF Find
  <2> QED BY <1>0, <2>1 DEF CacheNext
<1>2. ASSUME NEW c \in Caller, NEW h \in Handler, Create(c, h) \/ Insert(c, h)
      PROVE  [CacheNext]_cache_vars
  BY <1>0, <1>2 DEF Create, Insert, CacheNext
<1>3. ASSUME NEW p \in Player, Release(p) PROVE [CacheNext]_cache_vars
  <2>1. p \in Caller
    BY ThreadsAssumption
  <2>2. Uses(p, FileOf(handle[p]))
    BY <1>3, OpenIsUsed DEF Release
  <2> QED BY <1>3, <2>1, <2>2, UsedIsPinned DEF Release, CacheNext
<1>4. ASSUME NEW c \in Caller, PassoverProcessor(c) \/ CloseNext(c)
      PROVE  [CacheNext]_cache_vars
  <2>1. Uses(c, opening[c])
    BY <1>4 DEF PassoverProcessor, CloseNext, At, Uses, NextFileObtained, ThInv, PlacesOK,
       PlaceOK, NestedInFill
  <2>2. opening[c] \in Key /\ opening[c] \in DOMAIN cache \ Idle(cache)
    BY <2>1, UsedIsPinned
  <2>3. CASE CloseNext(c)
    BY <2>2, <2>3 DEF CloseNext, CacheNext
  <2>4. CASE PassoverProcessor(c)
    <3>1. BecomeGapless(opening[c]) \/ UNCHANGED cache_vars
      BY <2>2, <2>4 DEF PassoverProcessor, BecomeGapless, cache_vars
    <3> QED BY <2>2, <3>1 DEF CacheNext
  <2> QED BY <1>4, <2>3, <2>4
<1>5. ASSUME NEW c \in Caller, Destroy(c) PROVE [CacheNext]_cache_vars
  <2>1. PICK h \in to_delete[c] :
          NotifyFileComplete(c, h) \/ QuitBuffering(c, h) \/ DeleteHandler(c, h)
    BY <1>5 DEF Destroy
  <2>2. h \in Handler
    BY <2>1 DEF ThInv, IInv, CacheTypeOK
  <2>3. UNCHANGED cache_vars \/ DeleteErased(c, h)
    BY <2>1 DEF NotifyFileComplete, QuitBuffering, DeleteHandler
  <2> QED BY <2>2, <2>3 DEF CacheNext
<1>6. ASSUME NEW c \in Caller,
             OpenFails(c) \/ FillUntil(c) \/ AddMoreSoundData(c) \/ RequestPrebuffer(c)
             \/ EnqueueWork(c) \/ FillComplete(c) \/ PickWork(c) \/ FinishWork(c)
             \/ Read(c) \/ (\E w \in PreBuffer : StartThread(c, w))
             \/ (\E k \in Key : Open(c, k))
      PROVE  UNCHANGED cache_vars
  BY <1>6 DEF OpenFails, FillUntil, AddMoreSoundData, RequestPrebuffer, EnqueueWork,
     FillComplete, PickWork, FinishWork, Read, StartThread, Open
<1>7. CASE UNCHANGED vars
  BY <1>7 DEF vars, cache_vars
<1>8. Player \subseteq Caller /\ PreBuffer \subseteq Caller
  BY ThreadsAssumption
<1>9. ASSUME NEW c \in Caller, Proceed(c) PROVE [CacheNext]_cache_vars
  BY <1>1, <1>2, <1>4, <1>5, <1>6, <1>9 DEF Proceed
<1> QED BY <1>3, <1>6, <1>7, <1>8, <1>9 DEF Next, Run

-----------------------------------------------------------------------------
(* What the invariant says of the properties.                              *)

\* Handlers the cache had exist, and are not what somebody has just made.
LEMMA FiledIsAlive ==
  ASSUME ThInv, NEW h \in Filed
  PROVE  h \in alive /\ \A c \in Caller : h \notin created[c]
BY DEF ThInv, IInv, CacheTypeOK, Entry, OneOwner, Owned, Filed

\* The pre-buffer thread works on what is at the head of its queue.
LEMMA CurrentIsQueued ==
  ASSUME ThInv, NEW w \in PreBuffer, current[w] # NoHandler
  PROVE  /\ w = buffer_thread
         /\ current[w] \in ToSet(queue[w])
         /\ current[w] \in Filed
         /\ current[w] \in alive
<1>1. w = buffer_thread /\ queue[w] # <<>> /\ current[w] = Head(queue[w])
  BY ThreadsAssumption DEF ThInv, PlacesOK, PlaceOK, ThreadPlace
<1>2. queue[w] \in Seq(Handler) /\ NoneTwice(queue[w]) /\ ToSet(queue[w]) \subseteq Filed
  BY DEF ThInv, ThTypeOK, QueuesOK
<1>3. current[w] \in ToSet(queue[w])
  BY <1>1, <1>2, TailOnce
<1>4. current[w] \in Filed
  BY <1>2, <1>3
<1> QED BY <1>1, <1>3, <1>4, FiledIsAlive

LEMMA ThInvNoUseOfDeleted == ThInv => NoUseOfDeleted
<1> SUFFICES ASSUME ThInv PROVE NoUseOfDeleted
  OBVIOUS
<1>1. \A p \in Player : handle[p] \in alive \cup {NoHandler}
  BY OpenIsUsed
<1>2. \A w \in PreBuffer : current[w] \in alive \cup {NoHandler}
  BY CurrentIsQueued
<1>3. \A c \in Caller : filling[c] \in alive \cup {NoHandler}
  <2> SUFFICES ASSUME NEW c \in Caller, Nested(c)
               PROVE  filling[c] \in alive \cup {NoHandler}
    BY DEF Nested
  <2>1. filling[c] = FillTarget(c)
    BY DEF ThInv, PlacesOK, PlaceOK, NestedInFill
  <2> QED BY <1>1, <1>2, <2>1, ThreadsAssumption DEF FillTarget
<1>4. \A w \in PreBuffer : ToSet(queue[w]) \subseteq alive
  BY FiledIsAlive DEF ThInv, QueuesOK
<1>5. InUse \subseteq alive \cup {NoHandler}
  BY <1>1, <1>2, <1>3, <1>4 DEF InUse
<1>6. ASSUME NEW c \in Caller, NextFileObtained(c)
      PROVE  opening[c] \in DOMAIN cache /\ cache[opening[c]].references > 0
  <2>1. Uses(c, opening[c])
    BY <1>6 DEF Uses
  <2>2. opening[c] \in DOMAIN cache /\ opening[c] \notin Idle(cache)
    BY <2>1, UsedIsPinned
  <2>3. cache[opening[c]].references \in Nat
    BY <2>2 DEF ThInv, IInv, CacheTypeOK, Entry
  <2> QED BY <2>2, <2>3 DEF Idle
<1> QED BY <1>5, <1>6 DEF NoUseOfDeleted

\* Who keeps a buffer's mutex is in the steps of opening the next file, and so
\* waits for no mutex but in a destructor. For whom a destructor waits, is the
\* pre-buffer thread: nobody else is busy with a file that was erased.
LEMMA DestructorsWaitForThread ==
  ASSUME ThInv, NEW c \in Caller, NEW d \in Caller, WaitsFor(c, d), ~At(c, "fill")
  PROVE  d = buffer_thread
<1>1. CASE WaitsToForget(c, d)
  BY <1>1 DEF WaitsToForget
<1>2. CASE \E h \in Handler : WantsLock(c, h) /\ Holds(d, h)
  <2>1. PICK h \in Handler : h \in to_delete[c] /\ filling[d] = h
    BY <1>2 DEF WantsLock, Holds
  <2>2. filling[d] = FillTarget(d) /\ h # NoHandler
    BY <2>1, ThreadsAssumption DEF ThInv, PlacesOK, PlaceOK, NestedInFill, Nested
  <2>3. d \notin Player
    <3> SUFFICES ASSUME d \in Player PROVE FALSE
      OBVIOUS
    <3>1. handle[d] = h
      BY <2>1, <2>2 DEF FillTarget
    <3>2. FileOf(h) \in DOMAIN cache /\ cache[FileOf(h)].handler = h
      BY <2>2, <3>1 DEF ThInv, UseOK, OpenIsCached
    <3> QED BY <2>1, <3>2 DEF ThInv, IInv, OneOwner
  <2>4. d \in PreBuffer /\ current[d] = h
    BY <2>1, <2>2, <2>3, ThreadsAssumption DEF FillTarget
  <2> QED BY <2>2, <2>4, CurrentIsQueued
<1> QED BY <1>1, <1>2 DEF WaitsFor, WaitsForCache, KeepsMutex

LEMMA ThInvNoCircularWait == ThInv => NoCircularWait
<1> SUFFICES ASSUME ThInv, NEW S \in (SUBSET Caller) \ {{}},
                    \A c \in S : \E d \in S \ {c} : WaitsFor(c, d)
             PROVE  FALSE
  BY DEF NoCircularWait
<1> DEFINE w == buffer_thread
<1>1. ASSUME NEW c \in S, NEW d \in S, WaitsFor(c, d), At(c, "fill")
      PROVE  /\ FillTarget(c) # NoHandler /\ filling[d] = FillTarget(c)
             /\ ~At(d, "fill") /\ ~Nested(c)
  <2>1. to_delete[c] = {} /\ pc[c] = "fill"
    BY <1>1 DEF At, Ready
  <2>2. PICK h \in Handler : WantsLock(c, h) /\ Holds(d, h)
    BY <1>1, <2>1 DEF WaitsFor, WaitsForCache, KeepsMutex, WaitsToForget
  <2>3. h = FillTarget(c) /\ filling[d] = h /\ h # NoHandler
    BY <2>1, <2>2, ThreadsAssumption DEF WantsLock, Holds
  <2>4. \A b \in Caller : pc[b] = "fill" => ~Nested(b)
    BY DEF ThInv, PlacesOK, PlaceOK, NestedInFill, OpenPlace, RequestPlace
  <2> QED BY <2>1, <2>3, <2>4 DEF Nested, At
<1>2. w \in S
  <2>1. PICK c \in S : TRUE
    OBVIOUS
  <2>2. PICK d \in S \ {c} : WaitsFor(c, d)
    OBVIOUS
  <2>3. CASE ~At(c, "fill")
    BY <2>2, <2>3, DestructorsWaitForThread
  <2>4. CASE At(c, "fill")
    <3>1. ~At(d, "fill")
      BY <1>1, <2>2, <2>4
    <3>2. PICK e \in S \ {d} : WaitsFor(d, e)
      OBVIOUS
    <3> QED BY <3>1, <3>2, DestructorsWaitForThread
  <2> QED BY <2>3, <2>4
<1>3. PICK q \in S \ {w} : WaitsFor(w, q)
  BY <1>2
<1>4. At(w, "fill")
  BY <1>2, <1>3, DestructorsWaitForThread
<1>5. PICK e \in S \ {q} : WaitsFor(q, e)
  OBVIOUS
<1>6. FillTarget(w) # NoHandler /\ filling[q] = FillTarget(w) /\ ~At(q, "fill") /\ ~Nested(w)
  BY <1>1, <1>2, <1>3, <1>4
<1>7. e = w
  BY <1>5, <1>6, DestructorsWaitForThread
<1>8. w \in PreBuffer
  BY <1>2, ThreadsAssumption DEF ThInv, ThTypeOK
<1>9. q \in Player
  BY <1>3, <1>6, ThreadsAssumption DEF ThInv, PlacesOK, PlaceOK, ThreadPlace, Nested
<1>10. handle[q] = current[w] /\ handle[q] # NoHandler
  BY <1>6, <1>8, <1>9, ThreadsAssumption
     DEF FillTarget, ThInv, PlacesOK, PlaceOK, NestedInFill, Nested
<1>11. cache[FileOf(handle[q])].handler = handle[q] /\ FileOf(handle[q]) \in DOMAIN cache
  BY <1>9, <1>10 DEF ThInv, UseOK, OpenIsCached
<1>12. handle[q] \notin to_delete[q]
  BY <1>11 DEF ThInv, IInv, OneOwner
<1>13. CASE WaitsToForget(q, w)
  BY <1>10, <1>12, <1>13 DEF WaitsToForget, MustWait
<1>14. CASE \E h \in Handler : WantsLock(q, h) /\ Holds(w, h)
  BY <1>6, <1>14, ThreadsAssumption DEF Holds, Nested
<1> QED BY <1>5, <1>7, <1>13, <1>14 DEF WaitsFor, WaitsForCache, KeepsMutex

-----------------------------------------------------------------------------
(* The invariant, conjunct by conjunct: types.                             *)

LEMMA ObtainType ==
  ASSUME ThInv, NEW c \in Caller, c \in Player \/ Nested(c), NEW h \in Handler, Obtain(c, h)
  PROVE  pc' \in [Caller -> Place] /\ handle' \in [Player -> Handler \cup {NoHandler}]
BY DEF ThInv, ThTypeOK, Obtain, Goto, Place

\* Only players open a file, unless it is the next one.
LEMMA WhoOpens ==
  ASSUME ThInv, NEW c \in Caller, pc[c] \in OpenPlace \cup RequestPlace, ~Nested(c)
  PROVE  c \in Player
<1> SUFFICES ASSUME c \in PreBuffer PROVE FALSE
  BY ThreadsAssumption
<1> QED BY DEF ThInv, PlacesOK, PlaceOK, ThreadPlace, OpenPlace, RequestPlace

\* What a thread asks the pre-buffer thread to work on is in the cache.
LEMMA TargetIsUsed ==
  ASSUME ThInv, NEW c \in Caller, pc[c] \in RequestPlace
  PROVE  /\ PrebufferTarget(c) \in Handler
         /\ \E k \in DOMAIN cache : PrebufferTarget(c) = cache[k].handler
<1>1. CASE Nested(c)
  <2>1. Uses(c, opening[c])
    BY <1>1 DEF Uses, NextFileObtained, RequestPlace
  <2> QED BY <1>1, <2>1, UsedIsPinned DEF PrebufferTarget
<1>2. CASE ~Nested(c)
  <2>1. c \in Player
    BY <1>2, WhoOpens
  <2>2. handle[c] # NoHandler
    BY <1>2, <2>1 DEF ThInv, PlacesOK, PlaceOK, PlayerPlace
  <2> QED BY <1>2, <2>1, <2>2, OpenIsUsed, UsedIsPinned DEF PrebufferTarget
<1> QED BY <1>1, <1>2

LEMMA ThStepKeepsType ==
  ASSUME ThInv, IInv', [Next]_vars
  PROVE  ThTypeOK'
<1>0. /\ pc \in [Caller -> Place]
      /\ handle \in [Player -> Handler \cup {NoHandler}]
      /\ opening \in [Caller -> Key]
      /\ filling \in [Caller -> Handler \cup {NoHandler}]
      /\ destructor \in [Caller -> {"notify", "forget", "delete"}]
      /\ buffer_thread \in PreBuffer \cup {NoThread}
      /\ queue \in [PreBuffer -> Seq(Handler)]
      /\ current \in [PreBuffer -> Handler \cup {NoHandler}]
      /\ Player \subseteq Caller /\ PreBuffer \subseteq Caller
  BY ThreadsAssumption DEF ThInv, ThTypeOK
<1>1. ASSUME NEW c \in Caller, NEW place \in Place, Goto(c, place)
      PROVE  pc' \in [Caller -> Place]
  BY <1>0, <1>1 DEF Goto
<1>2. \A c \in Caller : \A b : AfterFill(c, b) \subseteq Place
  BY DEF AfterFill, Place
<1>3. ASSUME NEW p \in Player, NEW k \in Key, Open(p, k) PROVE ThTypeOK'
  BY <1>0, <1>1, <1>3 DEF Open, ThTypeOK, buffer_vars, thread_vars, Place
<1>4. ASSUME NEW c \in Caller, Find(c) PROVE ThTypeOK'
  <2>1. CASE Goto(c, "create") /\ UNCHANGED handle
    BY <1>0, <1>1, <1>4, <2>1 DEF Find, ThTypeOK, thread_vars, Place
  <2>2. CASE /\ FindAndPinHit(c, opening[c], Nested(c))
             /\ Obtain(c, cache[opening[c]].handler)
    <3>1. cache[opening[c]].handler \in Handler
      BY <2>2 DEF FindAndPinHit, ThInv, IInv, CacheTypeOK, Entry
    <3>2. c \in Player \/ Nested(c)
      BY <1>4, WhoOpens DEF Find, At, OpenPlace
    <3> QED BY <1>0, <1>4, <2>2, <3>1, <3>2, ObtainType DEF Find, ThTypeOK, thread_vars
  <2> QED BY <1>4, <2>1, <2>2 DEF Find
<1>5. ASSUME NEW c \in Caller, OpenFails(c) PROVE ThTypeOK'
  BY <1>0, <1>1, <1>5 DEF OpenFails, ThTypeOK, thread_vars, Place
<1>6. ASSUME NEW c \in Caller, NEW h \in Handler, Create(c, h) PROVE ThTypeOK'
  BY <1>0, <1>1, <1>6 DEF Create, ThTypeOK, thread_vars, Place
<1>7. ASSUME NEW c \in Caller, NEW h \in Handler, Insert(c, h) PROVE ThTypeOK'
  <2>1. opening[c] \in DOMAIN cache'
    BY <1>7, InsertKeepsTheKey DEF Insert, ThInv
  <2>2. cache'[opening[c]].handler \in Handler
    BY <2>1 DEF IInv, CacheTypeOK, Entry
  <2>3. c \in Player \/ Nested(c)
    BY <1>7, WhoOpens DEF Insert, At, OpenPlace
  <2> QED BY <1>0, <1>7, <2>2, <2>3, ObtainType DEF Insert, ThTypeOK, thread_vars
<1>8. ASSUME NEW p \in Player, Release(p) \/ Read(p) PROVE ThTypeOK'
  BY <1>0, <1>1, <1>8 DEF Release, Read, ThTypeOK, thread_vars, Place
<1>9. ASSUME NEW c \in Caller, FillUntil(c) PROVE ThTypeOK'
  <2>1. PICK place \in AfterFill(c, FillTarget(c) \in file_complete') : Goto(c, place)
    BY <1>9 DEF FillUntil
  <2>2. pc' \in [Caller -> Place]
    BY <1>1, <1>2, <2>1
  <2> QED BY <1>0, <1>9, <2>2 DEF FillUntil, ThTypeOK, thread_vars
<1>10. ASSUME NEW c \in Caller, AddMoreSoundData(c) PROVE ThTypeOK'
  <2>1. FillTarget(c) \in Handler \cup {NoHandler}
    BY <1>0, ThreadsAssumption DEF FillTarget
  <2> QED BY <1>0, <1>1, <1>10, <2>1 DEF AddMoreSoundData, ThTypeOK, thread_vars, Place
<1>11. ASSUME NEW c \in Caller, PassoverProcessor(c) \/ CloseNext(c) PROVE ThTypeOK'
  BY <1>0, <1>1, <1>11 DEF PassoverProcessor, CloseNext, ThTypeOK, thread_vars, Place
<1>12. ASSUME NEW c \in Caller, FillComplete(c) PROVE ThTypeOK'
  <2>1. PICK place \in AfterFill(c, TRUE) : Goto(c, place)
    BY <1>12 DEF FillComplete
  <2>2. pc' \in [Caller -> Place]
    BY <1>1, <1>2, <2>1
  <2> QED BY <1>0, <1>12, <2>2 DEF FillComplete, Unlocking, ThTypeOK, thread_vars
<1>13. ASSUME NEW c \in Caller, RequestPrebuffer(c) PROVE ThTypeOK'
  BY <1>0, <1>1, <1>13 DEF RequestPrebuffer, ThTypeOK, thread_vars, Place
<1>14. ASSUME NEW c \in Caller, NEW w \in PreBuffer, StartThread(c, w) PROVE ThTypeOK'
  BY <1>0, <1>14 DEF StartThread, ThTypeOK, Place
<1>15. ASSUME NEW c \in Caller, EnqueueWork(c) PROVE ThTypeOK'
  <2>1. PrebufferTarget(c) \in Handler
    BY <1>15, TargetIsUsed DEF EnqueueWork, At, RequestPlace
  <2> DEFINE b == buffer_thread
  <2>2. Append(queue[b], PrebufferTarget(c)) \in Seq(Handler) \/ b \notin PreBuffer
    BY <1>0, <2>1
  <2>3. queue' = [queue EXCEPT ![b] = IF Contains(queue[b], PrebufferTarget(c)) THEN queue[b]
                                      ELSE Append(queue[b], PrebufferTarget(c))]
    BY <1>0, <1>15 DEF EnqueueWork
  <2>4. queue' \in [PreBuffer -> Seq(Handler)]
    BY <1>0, <2>2, <2>3
  <2> QED BY <1>0, <1>1, <1>15, <2>4 DEF EnqueueWork, ThTypeOK, Place
<1>16. ASSUME NEW w \in PreBuffer, PickWork(w) PROVE ThTypeOK'
  <2>1. Head(queue[w]) \in Handler
    BY <1>0, <1>16 DEF PickWork
  <2> QED BY <1>0, <1>1, <1>16, <2>1 DEF PickWork, ThTypeOK, Place
<1>17. ASSUME NEW w \in PreBuffer, FinishWork(w) PROVE ThTypeOK'
  <2>1. queue[w] # <<>>
    BY <1>17, ThreadsAssumption DEF FinishWork, At, ThInv, PlacesOK, PlaceOK, ThreadPlace
  <2>2. Tail(queue[w]) \in Seq(Handler) /\ Append(Tail(queue[w]), Head(queue[w])) \in Seq(Handler)
    BY <1>0, <2>1
  <2>3. queue' \in [PreBuffer -> Seq(Handler)]
    BY <1>0, <1>17, <2>2 DEF FinishWork
  <2> QED BY <1>0, <1>1, <1>17, <2>3 DEF FinishWork, ThTypeOK, Place
<1>18. ASSUME NEW c \in Caller, Destroy(c) PROVE ThTypeOK'
  <2>1. PICK h \in to_delete[c] :
          NotifyFileComplete(c, h) \/ QuitBuffering(c, h) \/ DeleteHandler(c, h)
    BY <1>18 DEF Destroy
  <2>2. CASE NotifyFileComplete(c, h)
    BY <1>0, <2>2 DEF NotifyFileComplete, ThTypeOK, thread_vars
  <2>3. CASE DeleteHandler(c, h)
    BY <1>0, <2>3 DEF DeleteHandler, ThTypeOK, thread_vars
  <2>4. CASE QuitBuffering(c, h)
    <3>1. \A w \in PreBuffer : RemoveFirst(queue[w], h) \in Seq(Handler)
      BY <1>0, ForgottenOnce DEF ThInv, QueuesOK
    <3>2. queue' \in [PreBuffer -> Seq(Handler)]
      BY <1>0, <2>4, <3>1 DEF QuitBuffering, WorkForgotten
    <3> QED BY <1>0, <2>4, <3>2 DEF QuitBuffering, ThTypeOK
  <2> QED BY <2>1, <2>2, <2>3, <2>4
<1>19. CASE UNCHANGED vars
  BY <1>0, <1>19 DEF vars, ThTypeOK, thread_vars
<1>20. ASSUME NEW c \in Caller, Proceed(c) PROVE ThTypeOK'
  BY <1>4, <1>5, <1>6, <1>7, <1>9, <1>10, <1>11, <1>12, <1>13, <1>14, <1>15, <1>18, <1>20
     DEF Proceed
<1> QED BY <1>0, <1>3, <1>8, <1>16, <1>17, <1>19, <1>20 DEF Next, Run

-----------------------------------------------------------------------------
(* Places.                                                                 *)

\* A step of c changes nobody else's place.
OwnStep(c) ==
  /\ \A d \in Caller \ {c} :
       pc'[d] = pc[d] /\ filling'[d] = filling[d] /\ opening'[d] = opening[d]
  /\ \A p \in Player \ {c} : handle'[p] = handle[p]
  /\ \A w \in PreBuffer \ {c} : current'[w] = current[w]
  /\ UNCHANGED buffer_thread

\* What is in hand stays at the head of the queue.
HeadKept(w) ==
  /\ w # buffer_thread => queue'[w] = queue[w]
  /\ current[w] # NoHandler =>
       queue'[w] # <<>> /\ Head(queue'[w]) = Head(queue[w])

LEMMA OwnStepKeepsPlaces ==
  ASSUME ThInv, NEW c \in Caller, OwnStep(c), \A w \in PreBuffer \ {c} : HeadKept(w),
         PlaceOK(c)'
  PROVE  PlacesOK'
<1> SUFFICES ASSUME NEW d \in Caller \ {c} PROVE PlaceOK(d)'
  BY DEF PlacesOK, ThInv, OwnStep, PlaceOK, NestedInFill, PlayerPlace, ThreadPlace, Starting,
     Nested, FillTarget
<1>1. PlaceOK(d)
  BY DEF ThInv, PlacesOK
<1>2. NestedInFill(d)'
  BY <1>1, ThreadsAssumption DEF PlaceOK, OwnStep, NestedInFill, Nested, FillTarget
<1>3. PlayerPlace(d)'
  BY <1>1 DEF PlaceOK, OwnStep, PlayerPlace, Nested
<1>4. ThreadPlace(d)'
  BY <1>1 DEF PlaceOK, OwnStep, ThreadPlace, Nested, HeadKept
<1>5. Starting(d)'
  BY <1>1 DEF PlaceOK, OwnStep, Starting
<1> QED BY <1>2, <1>3, <1>4, <1>5 DEF PlaceOK

\* What a queue does not contain is not among its elements.
LEMMA NotContained ==
  ASSUME NEW q \in Seq(Handler), NEW h, ~Contains(q, h)
  PROVE  h \notin ToSet(q)
<1>1. DOMAIN q = 1 .. Len(q)
  OBVIOUS
<1>2. \A i \in 1 .. Len(q) : q[i] # h
  BY DEF Contains
<1> QED BY <1>1, <1>2 DEF ToSet

\* When c calls for work, or forgets it, the thread keeps what it has in hand.
LEMMA EnqueueKeepsHeads ==
  ASSUME ThInv, NEW c \in Caller, EnqueueWork(c), NEW w \in PreBuffer
  PROVE  HeadKept(w)
<1> DEFINE h == PrebufferTarget(c)
<1>1. h \in Handler
  BY TargetIsUsed DEF EnqueueWork, At, RequestPlace
<1>2. queue[w] \in Seq(Handler) /\ NoneTwice(queue[w])
  BY DEF ThInv, ThTypeOK, QueuesOK
<1>3. queue'[w] = IF w = buffer_thread /\ ~Contains(queue[w], h)
                  THEN Append(queue[w], h) ELSE queue[w]
  BY DEF EnqueueWork, ThInv, ThTypeOK
<1>4. current[w] # NoHandler => queue[w] # <<>>
  BY ThreadsAssumption DEF ThInv, PlacesOK, PlaceOK, ThreadPlace
<1>5. ~Contains(queue[w], h) => h \notin ToSet(queue[w])
  BY <1>2, NotContained
<1> HIDE DEF h
<1>6. CASE w = buffer_thread /\ ~Contains(queue[w], h)
  <2>1. /\ Append(queue[w], h) # <<>>
        /\ queue[w] # <<>> => Head(Append(queue[w], h)) = Head(queue[w])
    BY <1>1, <1>2, <1>5, <1>6, AppendedOnce
  <2> QED BY <1>3, <1>4, <1>6, <2>1 DEF HeadKept
<1>7. CASE ~(w = buffer_thread /\ ~Contains(queue[w], h))
  BY <1>3, <1>4, <1>7 DEF HeadKept
<1> QED BY <1>6, <1>7

LEMMA ForgetKeepsHeads ==
  ASSUME ThInv, NEW c \in Caller, NEW h, QuitBuffering(c, h), NEW w \in PreBuffer
  PROVE  HeadKept(w)
<1>1. queue[w] \in Seq(Handler) /\ NoneTwice(queue[w])
  BY DEF ThInv, ThTypeOK, QueuesOK
<1>2. queue'[w] = IF w = buffer_thread THEN RemoveFirst(queue[w], h) ELSE queue[w]
  BY ThreadsAssumption DEF QuitBuffering, WorkForgotten, ThInv, ThTypeOK
<1>3. current[w] # NoHandler => /\ queue[w] # <<>>
                                /\ Head(queue[w]) = current[w]
  BY ThreadsAssumption DEF ThInv, PlacesOK, PlaceOK, ThreadPlace
<1>4. w = buffer_thread => current[w] # h
  BY ThreadsAssumption DEF QuitBuffering, MustWait
<1>5. queue[w] # <<>> /\ Head(queue[w]) # h =>
        /\ RemoveFirst(queue[w], h) # <<>>
        /\ Head(RemoveFirst(queue[w], h)) = Head(queue[w])
  BY <1>1, ForgottenOnce
<1> QED BY <1>2, <1>3, <1>4, <1>5 DEF HeadKept

LEMMA ThStepKeepsPlaces ==
  ASSUME ThInv, ThTypeOK', [Next]_vars
  PROVE  PlacesOK'
<1>0. /\ pc \in [Caller -> Place]
      /\ handle \in [Player -> Handler \cup {NoHandler}]
      /\ opening \in [Caller -> Key]
      /\ filling \in [Caller -> Handler \cup {NoHandler}]
      /\ queue \in [PreBuffer -> Seq(Handler)]
      /\ current \in [PreBuffer -> Handler \cup {NoHandler}]
      /\ Player \subseteq Caller /\ PreBuffer \subseteq Caller
      /\ Player \cap PreBuffer = {}
      /\ \A c \in Caller : c \in Player \/ c \in PreBuffer
      /\ NoHandler \notin Handler /\ NoThread \notin Caller
  BY ThreadsAssumption DEF ThInv, ThTypeOK
<1>1. \A c \in Caller : NestedInFill(c) /\ PlayerPlace(c) /\ ThreadPlace(c) /\ Starting(c)
  BY DEF ThInv, PlacesOK, PlaceOK
<1>2. ASSUME UNCHANGED queue PROVE \A w \in PreBuffer : HeadKept(w)
  BY <1>1, <1>0, <1>2 DEF HeadKept, ThreadPlace
<1>3. ASSUME NEW p \in Player, NEW k \in Key, Open(p, k) PROVE PlacesOK'
  <2>1. OwnStep(p) /\ UNCHANGED queue
    BY <1>0, <1>3 DEF Open, Goto, OwnStep, thread_vars
  <2>2. PlaceOK(p)'
    BY <1>0, <1>1, <1>3 DEF Open, At, Goto, thread_vars, PlaceOK, NestedInFill, PlayerPlace,
       ThreadPlace, Starting, Nested, OpenPlace, RequestPlace
  <2> QED BY <1>0, <1>2, <2>1, <2>2, OwnStepKeepsPlaces
<1>4. ASSUME NEW c \in Caller, NEW h, Obtain(c, h), h \in Handler,
             pc[c] \in OpenPlace,
             UNCHANGED <<opening, filling, thread_vars>>
      PROVE  PlacesOK'
  <2>1. OwnStep(c) /\ UNCHANGED queue
    BY <1>0, <1>4 DEF Obtain, Goto, OwnStep, thread_vars
  <2>2. CASE Nested(c)
    <3>1. pc' = [pc EXCEPT ![c] = "passover"] /\ handle' = handle
      BY <1>4, <2>2 DEF Obtain, Goto
    <3>2. PlaceOK(c)'
      BY <1>0, <1>1, <1>4, <2>2, <3>1 DEF thread_vars, PlaceOK, NestedInFill, PlayerPlace,
         ThreadPlace, Starting, Nested, OpenPlace, RequestPlace, FillTarget
    <3> QED BY <1>2, <2>1, <3>2, OwnStepKeepsPlaces
  <2>3. CASE ~Nested(c)
    <3>1. pc' = [pc EXCEPT ![c] = "idle"] /\ handle' = [handle EXCEPT ![c] = h]
      BY <1>4, <2>3 DEF Obtain, Goto
    <3>2. c \in Player
      BY <1>4, <2>3, WhoOpens
    <3>3. PlaceOK(c)'
      BY <1>0, <1>1, <1>4, <2>3, <3>1, <3>2 DEF thread_vars, PlaceOK, NestedInFill,
         PlayerPlace, ThreadPlace, Starting, Nested, OpenPlace, RequestPlace
    <3> QED BY <1>2, <2>1, <3>3, OwnStepKeepsPlaces
  <2> QED BY <2>2, <2>3
<1>5. ASSUME NEW c \in Caller, NEW place \in OpenPlace, pc[c] \in OpenPlace,
             Goto(c, place), UNCHANGED <<handle, opening, filling, thread_vars>>
      PROVE  PlacesOK'
  <2>1. OwnStep(c) /\ UNCHANGED queue
    BY <1>0, <1>5 DEF Goto, OwnStep, thread_vars
  <2>2. PlaceOK(c)'
    BY <1>0, <1>1, <1>5 DEF Goto, thread_vars, PlaceOK, NestedInFill, PlayerPlace,
       ThreadPlace, Starting, Nested, OpenPlace, RequestPlace, FillTarget
  <2> QED BY <1>2, <2>1, <2>2, OwnStepKeepsPlaces
<1>6. ASSUME NEW c \in Caller, Find(c) PROVE PlacesOK'
  <2>1. CASE Goto(c, "create") /\ UNCHANGED handle
    BY <1>5, <1>6, <2>1 DEF Find, At, OpenPlace
  <2>2. CASE /\ FindAndPinHit(c, opening[c], Nested(c))
             /\ Obtain(c, cache[opening[c]].handler)
    <3>1. cache[opening[c]].handler \in Handler
      BY <2>2 DEF FindAndPinHit, ThInv, IInv, CacheTypeOK, Entry
    <3> QED BY <1>4, <1>6, <2>2, <3>1 DEF Find, At, OpenPlace
  <2> QED BY <1>6, <2>1, <2>2 DEF Find
<1>7. ASSUME NEW c \in Caller, OpenFails(c) PROVE PlacesOK'
  <2>1. OwnStep(c) /\ UNCHANGED queue
    BY <1>0, <1>7 DEF OpenFails, Goto, OwnStep, thread_vars
  <2>2. PlaceOK(c)'
    <3>1. CASE Nested(c)
      BY <1>0, <1>1, <1>7, <3>1 DEF OpenFails, At, Goto, thread_vars, PlaceOK, NestedInFill,
         PlayerPlace, ThreadPlace, Starting, Nested, OpenPlace, RequestPlace, FillTarget
    <3>2. CASE ~Nested(c)
      <4>1. c \in Player
        BY <1>7, <3>2, WhoOpens DEF OpenFails, At, OpenPlace
      <4> QED BY <1>0, <1>1, <1>7, <3>2, <4>1 DEF OpenFails, At, Goto, thread_vars, PlaceOK,
              NestedInFill, PlayerPlace, ThreadPlace, Starting, Nested, OpenPlace, RequestPlace
    <3> QED BY <3>1, <3>2
  <2> QED BY <1>2, <2>1, <2>2, OwnStepKeepsPlaces
<1>8. ASSUME NEW c \in Caller, NEW h \in Handler, Create(c, h) PROVE PlacesOK'
  BY <1>5, <1>8 DEF Create, At, OpenPlace
<1>9. ASSUME NEW c \in Caller, NEW h \in Handler, Insert(c, h), IInv' PROVE PlacesOK'
  <2>1. opening[c] \in DOMAIN cache'
    BY <1>9, InsertKeepsTheKey DEF Insert, ThInv
  <2>2. cache'[opening[c]].handler \in Handler
    BY <1>9, <2>1 DEF IInv, CacheTypeOK, Entry
  <2> QED BY <1>4, <1>9, <2>2 DEF Insert, At, OpenPlace
<1>10. ASSUME NEW p \in Player, Release(p) PROVE PlacesOK'
  <2>1. OwnStep(p) /\ UNCHANGED queue
    BY <1>0, <1>10 DEF Release, OwnStep, thread_vars
  <2>2. PlaceOK(p)'
    BY <1>0, <1>1, <1>10 DEF Release, At, thread_vars, PlaceOK, NestedInFill, PlayerPlace,
       ThreadPlace, Starting, Nested, OpenPlace, RequestPlace
  <2> QED BY <1>0, <1>2, <2>1, <2>2, OwnStepKeepsPlaces
<1>11. ASSUME NEW p \in Player, Read(p) PROVE PlacesOK'
  <2>1. OwnStep(p) /\ UNCHANGED queue
    BY <1>0, <1>11 DEF Read, Goto, OwnStep, thread_vars
  <2>2. PlaceOK(p)'
    BY <1>0, <1>1, <1>11 DEF Read, At, Goto, thread_vars, PlaceOK, NestedInFill, PlayerPlace,
       ThreadPlace, Starting, Nested, OpenPlace, RequestPlace
  <2> QED BY <1>0, <1>2, <2>1, <2>2, OwnStepKeepsPlaces
<1>12. ASSUME NEW c \in Caller, NEW b, NEW place \in AfterFill(c, b), Goto(c, place),
              pc[c] \in {"fill", "complete"}, pc[c] = "complete" => b = TRUE,
              filling' = [filling EXCEPT ![c] = NoHandler],
              UNCHANGED <<handle, opening, thread_vars>>
       PROVE  PlacesOK'
  <2>1. OwnStep(c) /\ UNCHANGED queue
    BY <1>0, <1>12 DEF Goto, OwnStep, thread_vars
  <2>2. CASE c \in Player
    <3>1. place \in {"idle", "request"} /\ (pc[c] = "complete" => place = "idle")
      BY <1>12, <2>2 DEF AfterFill
    <3>2. PlaceOK(c)'
      BY <1>0, <1>1, <1>12, <2>2, <3>1 DEF Goto, thread_vars, PlaceOK, NestedInFill,
         PlayerPlace, ThreadPlace, Starting, Nested, OpenPlace, RequestPlace
    <3> QED BY <1>2, <2>1, <3>2, OwnStepKeepsPlaces
  <2>3. CASE c \in PreBuffer
    <3>1. place \in {"drop", "again"}
      BY <1>0, <1>12, <2>3 DEF AfterFill
    <3>2. PlaceOK(c)'
      BY <1>0, <1>1, <1>12, <2>3, <3>1 DEF Goto, thread_vars, PlaceOK, NestedInFill,
         PlayerPlace, ThreadPlace, Starting, Nested, OpenPlace, RequestPlace
    <3> QED BY <1>2, <2>1, <3>2, OwnStepKeepsPlaces
  <2> QED BY <1>0, <2>2, <2>3
<1>13. ASSUME NEW c \in Caller, FillUntil(c) PROVE PlacesOK'
  <2>1. PICK place \in AfterFill(c, FillTarget(c) \in file_complete') : Goto(c, place)
    BY <1>13 DEF FillUntil
  <2>2. filling' = [filling EXCEPT ![c] = NoHandler]
    BY <1>0, <1>1, <1>13 DEF FillUntil, At, NestedInFill, Nested, OpenPlace, RequestPlace
  <2>3. pc[c] = "fill" /\ UNCHANGED <<handle, opening, thread_vars>>
    BY <1>13 DEF FillUntil, At
  <2> QED BY <1>12, <2>1, <2>2, <2>3
<1>14. ASSUME NEW c \in Caller, FillComplete(c) PROVE PlacesOK'
  <2>1. PICK place \in AfterFill(c, TRUE) : Goto(c, place)
    BY <1>14 DEF FillComplete
  <2> QED BY <1>12, <1>14, <2>1 DEF FillComplete, At, Unlocking
<1>15. ASSUME NEW c \in Caller, AddMoreSoundData(c) PROVE PlacesOK'
  <2>1. OwnStep(c) /\ UNCHANGED queue
    BY <1>0, <1>15 DEF AddMoreSoundData, Goto, OwnStep, thread_vars
  <2>2. FillTarget(c) # NoHandler
    BY <1>0, <1>1, <1>15 DEF AddMoreSoundData, At, FillTarget, NestedInFill, PlayerPlace,
       ThreadPlace, Nested, OpenPlace, RequestPlace
  <2>3. PlaceOK(c)'
    BY <1>0, <1>1, <1>15, <2>2 DEF AddMoreSoundData, At, Goto, FillTarget, thread_vars,
       PlaceOK, NestedInFill, PlayerPlace, ThreadPlace, Starting, Nested, OpenPlace,
       RequestPlace
  <2> QED BY <1>2, <2>1, <2>3, OwnStepKeepsPlaces
<1>16. ASSUME NEW c \in Caller, PassoverProcessor(c) \/ CloseNext(c) PROVE PlacesOK'
  <2>1. OwnStep(c) /\ UNCHANGED queue
    BY <1>0, <1>16 DEF PassoverProcessor, CloseNext, Goto, OwnStep, thread_vars
  <2>2. \E place \in {"request", "unpin", "complete"} : Goto(c, place)
    BY <1>16 DEF PassoverProcessor, CloseNext
  <2>3. /\ pc[c] \in {"passover", "unpin"}
        /\ UNCHANGED <<handle, opening, filling, thread_vars>>
    BY <1>16 DEF PassoverProcessor, CloseNext, At
  <2>4. PlaceOK(c)'
    BY <1>0, <1>1, <2>2, <2>3 DEF Goto, thread_vars, PlaceOK, NestedInFill, PlayerPlace,
       ThreadPlace, Starting, Nested, OpenPlace, RequestPlace, FillTarget
  <2> QED BY <1>2, <2>1, <2>4, OwnStepKeepsPlaces
<1>17. ASSUME NEW c \in Caller, RequestPrebuffer(c) PROVE PlacesOK'
  <2>1. OwnStep(c) /\ UNCHANGED queue
    BY <1>0, <1>17 DEF RequestPrebuffer, Goto, OwnStep, thread_vars
  <2>2. buffer_thread = NoThread => c \in Player
    BY <1>0, <1>1, <1>17 DEF RequestPrebuffer, At, ThreadPlace
  <2>3. PlaceOK(c)'
    BY <1>0, <1>1, <1>17, <2>2 DEF RequestPrebuffer, At, Goto, thread_vars, PlaceOK,
       NestedInFill, PlayerPlace, ThreadPlace, Starting, Nested, OpenPlace, RequestPlace,
       FillTarget
  <2> QED BY <1>2, <2>1, <2>3, OwnStepKeepsPlaces
<1>18. ASSUME NEW c \in Caller, NEW w \in PreBuffer, StartThread(c, w) PROVE PlacesOK'
  <2>1. c \in Player /\ buffer_thread = NoThread /\ buffer_thread' = w /\ pc[w] = "off"
    BY <1>1, <1>18 DEF StartThread, At, Starting
  <2>2. /\ pc'[c] = "enqueue" /\ pc'[w] = "idle" /\ c # w /\ pc[c] = "start"
        /\ \A d \in Caller \ {c, w} : pc'[d] = pc[d]
        /\ UNCHANGED <<handle, opening, filling, queue, current>>
    BY <1>0, <1>18, <2>1 DEF StartThread, At
  <2>3. \A v \in PreBuffer : pc[v] = "off" /\ queue[v] = <<>> /\ current[v] = NoHandler
                             /\ ~Nested(v)
    BY <1>0, <1>1, <2>1 DEF ThreadPlace
  <2>4. \A p \in Player : p = c
    BY <2>1 DEF ThInv, PlacesOK
  <2>5. PlaceOK(c)'
    BY <1>0, <1>1, <2>1, <2>2 DEF PlaceOK, NestedInFill, PlayerPlace, ThreadPlace, Starting,
       Nested, OpenPlace, RequestPlace, FillTarget
  <2>6. ASSUME NEW v \in PreBuffer PROVE PlaceOK(v)'
    BY <1>0, <1>1, <2>1, <2>2, <2>3, <2>6 DEF PlaceOK, NestedInFill, PlayerPlace, ThreadPlace,
       Starting, Nested, OpenPlace, RequestPlace, FillTarget
  <2>7. \A d \in Caller : PlaceOK(d)'
    BY <1>0, <2>4, <2>5, <2>6
  <2>8. buffer_thread' # NoThread
    BY <1>0, <2>1
  <2> QED BY <2>7, <2>8 DEF PlacesOK, PlaceOK, NestedInFill, PlayerPlace, ThreadPlace,
             Starting, Nested, FillTarget
<1>19. ASSUME NEW c \in Caller, EnqueueWork(c) PROVE PlacesOK'
  <2>1. OwnStep(c)
    BY <1>0, <1>19 DEF EnqueueWork, Goto, OwnStep
  <2>2. \A w \in PreBuffer : HeadKept(w)
    BY <1>19, EnqueueKeepsHeads
  <2>3. ~Nested(c) => c \in Player
    BY <1>19, WhoOpens DEF EnqueueWork, At, RequestPlace
  <2>4. PlaceOK(c)'
    BY <1>0, <1>1, <1>19, <2>2, <2>3 DEF EnqueueWork, At, Goto, PlaceOK, NestedInFill,
       PlayerPlace, ThreadPlace, Starting, Nested, OpenPlace, RequestPlace, FillTarget,
       HeadKept
  <2> QED BY <2>1, <2>2, <2>4, OwnStepKeepsPlaces
<1>20. ASSUME NEW w \in PreBuffer, PickWork(w) PROVE PlacesOK'
  <2>1. OwnStep(w) /\ UNCHANGED queue
    BY <1>0, <1>20 DEF PickWork, Goto, OwnStep
  <2>2. Head(queue[w]) \in Handler
    BY <1>0, <1>20 DEF PickWork
  <2>3. PlaceOK(w)'
    BY <1>0, <1>1, <1>20, <2>2 DEF PickWork, At, Goto, PlaceOK, NestedInFill, PlayerPlace,
       ThreadPlace, Starting, Nested, OpenPlace, RequestPlace, FillTarget
  <2> QED BY <1>0, <1>2, <2>1, <2>3, OwnStepKeepsPlaces
<1>21. ASSUME NEW w \in PreBuffer, FinishWork(w) PROVE PlacesOK'
  <2>1. OwnStep(w) /\ \A v \in PreBuffer \ {w} : queue'[v] = queue[v]
    BY <1>0, <1>21 DEF FinishWork, Goto, OwnStep
  <2>2. \A v \in PreBuffer \ {w} : HeadKept(v)
    BY <1>0, <1>1, <2>1 DEF HeadKept, ThreadPlace
  <2>3. PlaceOK(w)'
    BY <1>0, <1>1, <1>21 DEF FinishWork, At, Goto, PlaceOK, NestedInFill, PlayerPlace,
       ThreadPlace, Starting, Nested, OpenPlace, RequestPlace, FillTarget
  <2> QED BY <1>0, <2>1, <2>2, <2>3, OwnStepKeepsPlaces
<1>22. ASSUME NEW c \in Caller, UNCHANGED <<pc, handle, opening, filling>>,
              UNCHANGED <<buffer_thread, current>>, \A w \in PreBuffer : HeadKept(w)
       PROVE  PlacesOK'
  <2>1. OwnStep(c)
    BY <1>22 DEF OwnStep
  <2>2. PlaceOK(c)'
    BY <1>0, <1>1, <1>22 DEF PlaceOK, NestedInFill, PlayerPlace, ThreadPlace, Starting,
       Nested, FillTarget, HeadKept
  <2> QED BY <1>22, <2>1, <2>2, OwnStepKeepsPlaces
<1>23. ASSUME NEW c \in Caller, Destroy(c) PROVE PlacesOK'
  <2>1. PICK h \in to_delete[c] :
          NotifyFileComplete(c, h) \/ QuitBuffering(c, h) \/ DeleteHandler(c, h)
    BY <1>23 DEF Destroy
  <2>2. CASE NotifyFileComplete(c, h) \/ DeleteHandler(c, h)
    BY <1>2, <1>22, <2>2 DEF NotifyFileComplete, DeleteHandler, thread_vars
  <2>3. CASE QuitBuffering(c, h)
    <3>1. \A w \in PreBuffer : HeadKept(w)
      BY <2>3, ForgetKeepsHeads
    <3> QED BY <1>22, <2>3, <3>1 DEF QuitBuffering
  <2> QED BY <2>1, <2>2, <2>3
<1>24. CASE UNCHANGED vars
  BY <1>24 DEF vars, thread_vars, ThInv, PlacesOK, PlaceOK, NestedInFill, PlayerPlace,
     ThreadPlace, Starting, Nested, FillTarget
<1>25. IInv'
  BY ThStepIsCacheStep, NextKeepsIInv DEF ThInv
<1>26. ASSUME NEW c \in Caller, Proceed(c) PROVE PlacesOK'
  BY <1>6, <1>7, <1>8, <1>9, <1>13, <1>14, <1>15, <1>16, <1>17, <1>18, <1>19, <1>23, <1>25,
     <1>26 DEF Proceed
<1> QED BY <1>0, <1>3, <1>10, <1>11, <1>20, <1>21, <1>24, <1>26 DEF Next, Run

-----------------------------------------------------------------------------
(* What is made for the cache.                                             *)

LEMMA StepsAreOwn ==
  ASSUME ThInv, NEW c \in Caller,
         \/ (\E k \in Key : Open(c, k)) \/ Release(c) \/ Read(c)
         \/ Find(c) \/ OpenFails(c) \/ (\E h \in Handler : Create(c, h) \/ Insert(c, h))
         \/ FillUntil(c) \/ AddMoreSoundData(c) \/ PassoverProcessor(c) \/ CloseNext(c)
         \/ FillComplete(c) \/ RequestPrebuffer(c) \/ EnqueueWork(c)
         \/ PickWork(c) \/ FinishWork(c) \/ Destroy(c)
  PROVE  OwnStep(c)
<1>0. /\ pc \in [Caller -> Place]
      /\ handle \in [Player -> Handler \cup {NoHandler}]
      /\ opening \in [Caller -> Key]
      /\ filling \in [Caller -> Handler \cup {NoHandler}]
      /\ current \in [PreBuffer -> Handler \cup {NoHandler}]
      /\ Player \subseteq Caller /\ PreBuffer \subseteq Caller
  BY ThreadsAssumption DEF ThInv, ThTypeOK
<1>1. CASE (\E k \in Key : Open(c, k)) \/ Release(c) \/ Read(c)
  BY <1>0, <1>1 DEF Open, Release, Read, Goto, OwnStep, thread_vars
<1>2. ASSUME NEW h, Obtain(c, h), UNCHANGED <<opening, filling, thread_vars>>
      PROVE  OwnStep(c)
  BY <1>0, <1>2 DEF Obtain, Goto, OwnStep, thread_vars
<1>3. CASE Find(c)
  <2>1. CASE Goto(c, "create") /\ UNCHANGED handle
    BY <1>0, <1>3, <2>1 DEF Find, Goto, OwnStep, thread_vars
  <2>2. CASE Obtain(c, cache[opening[c]].handler)
    BY <1>2, <1>3, <2>2 DEF Find
  <2> QED BY <1>3, <2>1, <2>2 DEF Find
<1>4. CASE OpenFails(c) \/ (\E h \in Handler : Create(c, h))
  BY <1>0, <1>4 DEF OpenFails, Create, Goto, OwnStep, thread_vars
<1>5. CASE \E h \in Handler : Insert(c, h)
  BY <1>2, <1>5 DEF Insert
<1>6. CASE FillUntil(c) \/ AddMoreSoundData(c)
  BY <1>0, <1>6 DEF FillUntil, AddMoreSoundData, Goto, OwnStep, thread_vars
<1>7. CASE PassoverProcessor(c) \/ CloseNext(c)
  BY <1>0, <1>7 DEF PassoverProcessor, CloseNext, Goto, OwnStep, thread_vars
<1>8. CASE FillComplete(c)
  BY <1>0, <1>8 DEF FillComplete, Unlocking, Goto, OwnStep, thread_vars
<1>9. CASE RequestPrebuffer(c) \/ EnqueueWork(c)
  BY <1>0, <1>9 DEF RequestPrebuffer, EnqueueWork, Goto, OwnStep, thread_vars
<1>10. CASE PickWork(c) \/ FinishWork(c)
  BY <1>0, <1>10 DEF PickWork, FinishWork, Goto, OwnStep
<1>11. CASE Destroy(c)
  BY <1>11 DEF Destroy, NotifyFileComplete, QuitBuffering, DeleteHandler, OwnStep,
     thread_vars
<1> QED BY <1>1, <1>3, <1>4, <1>5, <1>6, <1>7, <1>8, <1>9, <1>10, <1>11

LEMMA ThStepKeepsMade ==
  ASSUME ThInv, [Next]_vars
  PROVE  MadeForOpening'
<1>0. /\ pc \in [Caller -> Place] /\ created \in [Caller -> SUBSET Handler]
      /\ opening \in [Caller -> Key]
      /\ Player \subseteq Caller /\ PreBuffer \subseteq Caller
  BY ThreadsAssumption DEF ThInv, ThTypeOK, IInv, CacheTypeOK
<1>1. \A c \in Caller : \A h \in created[c] :
        pc[c] = "insert" /\ FileOf(h) = opening[c] /\ \A g \in created[c] : g = h
  BY DEF ThInv, MadeForOpening
<1>2. ASSUME UNCHANGED created,
             \A c \in Caller : created[c] # {} => pc'[c] = pc[c] /\ opening'[c] = opening[c]
      PROVE  MadeForOpening'
  BY <1>1, <1>2 DEF MadeForOpening
<1>3. ASSUME NEW c \in Caller, OwnStep(c), pc[c] # "insert", UNCHANGED created
      PROVE  MadeForOpening'
  BY <1>1, <1>2, <1>3 DEF OwnStep
<1>4. ASSUME NEW p \in Caller, (\E k \in Key : Open(p, k)) \/ Release(p) \/ Read(p)
      PROVE  MadeForOpening'
  <2>1. pc[p] # "insert" /\ UNCHANGED created
    BY <1>4 DEF Open, Release, Read, At, Unpin, cache_vars
  <2> QED BY <1>3, <1>4, <2>1, StepsAreOwn
<1>5. ASSUME NEW c \in Caller, Find(c) \/ OpenFails(c) PROVE MadeForOpening'
  <2>1. pc[c] # "insert" /\ UNCHANGED created
    BY <1>5 DEF Find, OpenFails, At, FindAndPinMiss, FindAndPinReplace, FindAndPinHit,
       cache_vars
  <2> QED BY <1>3, <1>5, <2>1, StepsAreOwn
<1>6. ASSUME NEW c \in Caller,
             FillUntil(c) \/ AddMoreSoundData(c) \/ PassoverProcessor(c) \/ CloseNext(c)
      PROVE  MadeForOpening'
  <2>1. pc[c] # "insert" /\ UNCHANGED created
    BY <1>6 DEF FillUntil, AddMoreSoundData, PassoverProcessor, CloseNext, At, Unpin,
       cache_vars
  <2> QED BY <1>3, <1>6, <2>1, StepsAreOwn
<1>7. ASSUME NEW c \in Caller,
             FillComplete(c) \/ RequestPrebuffer(c) \/ EnqueueWork(c) \/ PickWork(c)
             \/ FinishWork(c)
      PROVE  MadeForOpening'
  <2>1. pc[c] # "insert" /\ UNCHANGED created
    BY <1>7 DEF FillComplete, RequestPrebuffer, EnqueueWork, PickWork, FinishWork, At,
       cache_vars
  <2> QED BY <1>3, <1>7, <2>1, StepsAreOwn
<1>8. ASSUME NEW c \in Caller, NEW h \in Handler, Create(c, h) PROVE MadeForOpening'
  <2>1. OwnStep(c)
    BY <1>8, StepsAreOwn
  <2>2. /\ created'[c] = {h} /\ pc'[c] = "insert" /\ opening' = opening
        /\ FileOf(h) = opening[c]
        /\ \A d \in Caller \ {c} : created'[d] = created[d]
    BY <1>0, <1>8 DEF Create, Construct, Goto
  <2> QED BY <1>1, <2>1, <2>2 DEF MadeForOpening, OwnStep
<1>9. ASSUME NEW c \in Caller, NEW h \in Handler, Insert(c, h) PROVE MadeForOpening'
  <2>1. OwnStep(c)
    BY <1>9, StepsAreOwn
  <2>2. /\ h \in created[c] /\ created'[c] = created[c] \ {h}
        /\ \A d \in Caller \ {c} : created'[d] = created[d]
    BY <1>0, <1>9 DEF Insert, InsertPinned
  <2>3. created'[c] = {}
    BY <1>1, <2>2
  <2> QED BY <1>1, <2>1, <2>2, <2>3 DEF MadeForOpening, OwnStep
<1>10. ASSUME NEW c \in Caller, NEW w \in PreBuffer, StartThread(c, w) PROVE MadeForOpening'
  <2>1. /\ pc[c] = "start" /\ pc[w] = "off"
        /\ UNCHANGED <<created, opening>>
        /\ \A d \in Caller \ {c, w} : pc'[d] = pc[d]
    BY <1>0, <1>10 DEF StartThread, At, cache_vars
  <2> QED BY <1>0, <1>1, <1>2, <2>1
<1>11. ASSUME NEW c \in Caller, Destroy(c) PROVE MadeForOpening'
  <2>1. UNCHANGED <<pc, opening, created>>
    BY <1>11 DEF Destroy, NotifyFileComplete, QuitBuffering, DeleteHandler, DeleteErased,
       cache_vars
  <2> QED BY <1>2, <2>1
<1>12. CASE UNCHANGED vars
  BY <1>2, <1>12 DEF vars, cache_vars
<1>13. ASSUME NEW c \in Caller, Proceed(c) PROVE MadeForOpening'
  BY <1>5, <1>6, <1>7, <1>8, <1>9, <1>10, <1>11, <1>13 DEF Proceed
<1> QED BY <1>0, <1>4, <1>7, <1>12, <1>13 DEF Next, Run

-----------------------------------------------------------------------------
(* Uses of entries.                                                        *)

UsersNext(k) == {c \in Caller : Uses(c, k)'}

LEMMA OwnStepKeepsUses ==
  ASSUME NEW c \in Caller, OwnStep(c), NEW d \in Caller \ {c}, NEW k
  PROVE  Uses(d, k)' <=> Uses(d, k)
BY DEF OwnStep, Uses, HasOpen, NextFileObtained, Nested

\* A step in which nobody begins or ends a use, and which erases none but idle
\* entries.
LEMMA QuietKeepsUse ==
  ASSUME ThInv, NEW gone \in SUBSET Idle(cache), cache' = Erase(cache, gone),
         \A c \in Caller : \A k : Uses(c, k)' <=> Uses(c, k),
         UNCHANGED handle
  PROVE  UseOK'
<1>1. \A k : UsersNext(k) = UsersOf(k)
  BY DEF UsersOf, UsersNext
<1>2. Users' = Users
  BY DEF Users
<1>3. ASSUME NEW c \in Caller, NEW k, Uses(c, k)' PROVE k \in DOMAIN cache' /\ cache'[k] = cache[k]
  <2>1. k \in DOMAIN cache \ gone
    BY <1>3, UsedIsPinned
  <2> QED BY <2>1 DEF Erase
<1>4. FiledByFile'
  BY DEF FiledByFile, Erase, ThInv, UseOK
<1>5. OpenIsCached'
  <2> SUFFICES ASSUME NEW p \in Player, handle[p] # NoHandler
               PROVE  /\ FileOf(handle[p]) \in DOMAIN cache'
                      /\ cache'[FileOf(handle[p])].handler = handle[p]
    BY DEF OpenIsCached
  <2>1. p \in Caller /\ Uses(p, FileOf(handle[p]))'
    BY ThreadsAssumption DEF Uses, HasOpen
  <2> QED BY <1>3, <2>1, OpenIsUsed
<1>6. NextIsCached'
  <2> SUFFICES ASSUME NEW c \in Caller, NextFileObtained(c)', NEW k, k = opening'[c]
               PROVE  k \in DOMAIN cache'
    BY DEF NextIsCached
  <2>1. Uses(c, k)'
    BY DEF Uses
  <2> QED BY <1>3, <2>1
<1>7. RefsCountUsers'
  <2> SUFFICES ASSUME NEW k \in DOMAIN cache'
               PROVE  cache'[k].references = Cardinality(UsersNext(k))
    BY DEF RefsCountUsers, UsersOf, UsersNext
  <2>1. k \in DOMAIN cache /\ cache'[k] = cache[k]
    BY DEF Erase
  <2> QED BY <1>1, <2>1 DEF ThInv, UseOK, RefsCountUsers
<1> QED BY <1>2, <1>4, <1>5, <1>6, <1>7 DEF UseOK, ThInv

\* A step in which c begins to use the entry of k: G is the table with that use
\* counted, from which none but idle entries are erased.
LEMMA LeaseKeepsUse ==
  ASSUME ThInv, NEW c \in Caller, NEW k \in Key, ~Uses(c, k),
         \A d \in Caller : \A x : Uses(d, x)' <=> Uses(d, x) \/ (d = c /\ x = k),
         NEW G, DOMAIN G = DOMAIN cache \cup {k},
         \A x \in DOMAIN cache \ {k} : G[x] = cache[x],
         k \in DOMAIN cache => cache[k].handler = G[k].handler,
         FileOf(G[k].handler) = k,
         G[k].references = Cardinality(UsersOf(k)) + 1,
         \A p \in Player : handle'[p] \in {handle[p], G[k].handler},
         NEW gone \in SUBSET Idle(G), cache' = Erase(G, gone)
  PROVE  UseOK'
<1>1. IsFiniteSet(UsersOf(k)) /\ Cardinality(UsersOf(k)) \in Nat
  BY UsersOfFinite
<1>2. UsersNext(k) = UsersOf(k) \cup {c} /\ c \notin UsersOf(k)
  BY DEF UsersOf, UsersNext
<1>3. Cardinality(UsersNext(k)) = Cardinality(UsersOf(k)) + 1
  BY <1>1, <1>2, FS_AddElement
<1>4. \A x : x # k => UsersNext(x) = UsersOf(x)
  BY DEF UsersOf, UsersNext
<1>5. IsFiniteSet(Users')
  <2>1. Users' = Users \cup {c}
    BY DEF Users
  <2> QED BY <2>1, FS_AddElement DEF ThInv, UseOK
<1>6. k \in DOMAIN cache' /\ cache'[k] = G[k]
  BY <1>1 DEF Idle, Erase
<1>7. ASSUME NEW d \in Caller, NEW x, Uses(d, x)', x # k
      PROVE  x \in DOMAIN cache' /\ cache'[x] = cache[x]
  <2>1. x \in DOMAIN cache /\ x \notin Idle(cache)
    BY <1>7, UsedIsPinned
  <2> QED BY <1>7, <2>1 DEF Idle, Erase
<1>8. FiledByFile'
  <2> SUFFICES ASSUME NEW x \in DOMAIN cache' PROVE FileOf(cache'[x].handler) = x
    BY DEF FiledByFile
  <2>1. CASE x = k
    BY <1>6, <2>1
  <2>2. CASE x # k
    <3>1. x \in DOMAIN cache /\ cache'[x] = cache[x]
      BY <2>2 DEF Erase
    <3> QED BY <3>1 DEF ThInv, UseOK, FiledByFile
  <2> QED BY <2>1, <2>2
<1>9. OpenIsCached'
  <2> SUFFICES ASSUME NEW p \in Player, handle'[p] # NoHandler, NEW x, x = FileOf(handle'[p])
               PROVE  x \in DOMAIN cache' /\ cache'[x].handler = handle'[p]
    BY DEF OpenIsCached
  <2>1. p \in Caller /\ Uses(p, x)'
    BY ThreadsAssumption DEF Uses, HasOpen
  <2>2. CASE handle'[p] = G[k].handler
    BY <1>6, <2>2
  <2>3. CASE handle'[p] = handle[p]
    <3>1. x \in DOMAIN cache /\ cache[x].handler = handle[p]
      BY <2>3, OpenIsUsed, UsedIsPinned, <2>1
    <3>2. CASE x = k
      BY <1>6, <2>3, <3>1, <3>2
    <3>3. CASE x # k
      BY <1>7, <2>1, <2>3, <3>1, <3>3
    <3> QED BY <3>2, <3>3
  <2> QED BY <2>2, <2>3
<1>10. NextIsCached'
  <2> SUFFICES ASSUME NEW d \in Caller, NextFileObtained(d)', NEW x, x = opening'[d]
               PROVE  x \in DOMAIN cache'
    BY DEF NextIsCached
  <2>1. Uses(d, x)'
    BY DEF Uses
  <2> QED BY <1>6, <1>7, <2>1
<1>11. RefsCountUsers'
  <2> SUFFICES ASSUME NEW x \in DOMAIN cache'
               PROVE  cache'[x].references = Cardinality(UsersNext(x))
    BY DEF RefsCountUsers, UsersOf, UsersNext
  <2>1. CASE x = k
    BY <1>3, <1>6, <2>1
  <2>2. CASE x # k
    <3>1. x \in DOMAIN cache /\ cache'[x] = cache[x]
      BY <2>2 DEF Erase
    <3> QED BY <1>4, <2>2, <3>1 DEF ThInv, UseOK, RefsCountUsers
  <2> QED BY <2>1, <2>2
<1> QED BY <1>5, <1>8, <1>9, <1>10, <1>11 DEF UseOK

\* A step in which c ends its use of the entry of k, which is erased if nobody
\* else uses it and the cache is too large.
LEMMA ReturnKeepsUse ==
  ASSUME ThInv, NEW c \in Caller, NEW k, Uses(c, k), Unpin(c, k),
         \A d \in Caller : \A x : Uses(d, x)' <=> Uses(d, x) /\ ~(d = c /\ x = k),
         \A p \in Player : handle'[p] \in {handle[p], NoHandler}
  PROVE  UseOK'
<1> DEFINE U    == [cache EXCEPT ![k] = Unpinned(@)]
           gone == ErasedByUnpin(U, k)
<1>1. k \in Key /\ k \in DOMAIN cache
  BY UsedIsPinned
<1>2. IsFiniteSet(UsersOf(k)) /\ c \in UsersOf(k)
  BY <1>1, UsersOfFinite DEF UsersOf
<1>3. UsersNext(k) = UsersOf(k) \ {c} /\ \A x : x # k => UsersNext(x) = UsersOf(x)
  BY DEF UsersOf, UsersNext
<1>4. /\ IsFiniteSet(UsersNext(k))
      /\ Cardinality(UsersNext(k)) = Cardinality(UsersOf(k)) - 1
  BY <1>2, <1>3, FS_RemoveElement
<1>5. IsFiniteSet(Users')
  <2>1. Users' \subseteq Users
    BY DEF Users
  <2> QED BY <2>1, FS_Subset DEF ThInv, UseOK
<1>6. /\ DOMAIN U = DOMAIN cache
      /\ \A x \in DOMAIN cache \ {k} : U[x] = cache[x]
      /\ U[k].handler = cache[k].handler /\ U[k].references = cache[k].references - 1
  BY <1>1 DEF Unpinned
<1>7. U[k].references = Cardinality(UsersNext(k))
  BY <1>1, <1>4, <1>6 DEF ThInv, UseOK, RefsCountUsers
<1>8. cache' = Erase(U, gone) /\ gone \subseteq Idle(U) \cap {k}
  BY DEF Unpin, ErasedByUnpin
<1> HIDE DEF U, gone
<1>9. ASSUME NEW d \in Caller, NEW x, Uses(d, x)'
      PROVE  x \in DOMAIN cache' /\ cache'[x].handler = cache[x].handler
  <2>1. x \in DOMAIN cache
    BY <1>9, UsedIsPinned
  <2>2. CASE x # k
    BY <1>6, <1>8, <2>1, <2>2 DEF Erase
  <2>3. CASE x = k
    <3>1. d \in UsersNext(k)
      BY <1>9, <2>3 DEF UsersNext
    <3>2. U[k].references # 0
      BY <1>4, <1>7, <3>1, FS_EmptySet
    <3> QED BY <1>1, <1>6, <1>8, <2>3, <3>2 DEF Erase, Idle
  <2> QED BY <2>2, <2>3
<1>10. ASSUME NEW x \in DOMAIN cache'
       PROVE  /\ x \in DOMAIN cache /\ cache'[x].handler = cache[x].handler
              /\ cache'[x].references = Cardinality(UsersNext(x))
  <2>1. x \in DOMAIN cache /\ cache'[x] = U[x]
    BY <1>6, <1>8, <1>10 DEF Erase
  <2>2. CASE x = k
    BY <1>6, <1>7, <2>1, <2>2
  <2>3. CASE x # k
    BY <1>3, <1>6, <2>1, <2>3 DEF ThInv, UseOK, RefsCountUsers
  <2> QED BY <2>1, <2>2, <2>3
<1>11. FiledByFile'
  BY <1>10 DEF FiledByFile, ThInv, UseOK
<1>12. OpenIsCached'
  <2> SUFFICES ASSUME NEW p \in Player, handle'[p] # NoHandler, NEW x, x = FileOf(handle'[p])
               PROVE  x \in DOMAIN cache' /\ cache'[x].handler = handle'[p]
    BY DEF OpenIsCached
  <2>1. handle'[p] = handle[p]
    OBVIOUS
  <2>2. p \in Caller /\ Uses(p, x)'
    BY ThreadsAssumption DEF Uses, HasOpen
  <2>3. cache[x].handler = handle[p]
    BY <2>1, OpenIsUsed
  <2> QED BY <1>9, <2>1, <2>2, <2>3
<1>13. NextIsCached'
  <2> SUFFICES ASSUME NEW d \in Caller, NextFileObtained(d)', NEW x, x = opening'[d]
               PROVE  x \in DOMAIN cache'
    BY DEF NextIsCached
  <2>1. Uses(d, x)'
    BY DEF Uses
  <2> QED BY <1>9, <2>1
<1>14. RefsCountUsers'
  BY <1>10 DEF RefsCountUsers, UsersOf, UsersNext
<1> QED BY <1>5, <1>11, <1>12, <1>13, <1>14 DEF UseOK

\* A step of c in which it neither begins nor ends a use.
LEMMA QuietStepKeepsUse ==
  ASSUME ThInv, NEW c \in Caller, OwnStep(c), UNCHANGED handle,
         NextFileObtained(c)' <=> NextFileObtained(c),
         NextFileObtained(c) => opening'[c] = opening[c],
         NEW gone \in SUBSET Idle(cache), cache' = Erase(cache, gone)
  PROVE  UseOK'
<1>1. \A k : Uses(c, k)' <=> Uses(c, k)
  BY DEF Uses, HasOpen
<1>2. \A d \in Caller : \A k : Uses(d, k)' <=> Uses(d, k)
  BY <1>1, OwnStepKeepsUses
<1> QED BY <1>2, QuietKeepsUse

\* Who opens a file has not obtained it already.
LEMMA OpenerHasNoUse ==
  ASSUME ThInv, NEW c \in Caller, pc[c] \in OpenPlace
  PROVE  /\ ~Uses(c, opening[c])
         /\ ~NextFileObtained(c)
         /\ ~Nested(c) => c \in Player /\ \A k : ~Uses(c, k)
<1>1. ~NextFileObtained(c)
  BY DEF NextFileObtained, OpenPlace
<1>2. CASE ~Nested(c)
  <2>1. c \in Player /\ handle[c] = NoHandler
    BY <1>2, WhoOpens DEF ThInv, PlacesOK, PlaceOK, PlayerPlace
  <2> QED BY <1>1, <2>1 DEF Uses, HasOpen
<1>3. CASE Nested(c)
  <2>1. c \in Player => opening[c] = FileOf(handle[c]) + 1
    BY <1>3 DEF ThInv, PlacesOK, PlaceOK, NestedInFill, FillTarget
  <2>2. c \in Player => FileOf(handle[c]) + 1 # FileOf(handle[c])
    <3> SUFFICES ASSUME c \in Player PROVE FileOf(handle[c]) + 1 # FileOf(handle[c])
      OBVIOUS
    <3>1. handle[c] \in Handler
      BY <1>3, ThreadsAssumption
         DEF ThInv, ThTypeOK, PlacesOK, PlaceOK, NestedInFill, FillTarget, Nested
    <3>2. FileOf(handle[c]) \in Nat
      BY <3>1, ThreadsAssumption DEF FileOf
    <3> QED BY <3>2
  <2> QED BY <1>1, <1>3, <2>1, <2>2 DEF Uses, HasOpen
<1> QED BY <1>1, <1>2, <1>3

\* What Obtain adds to the uses of c: the entry of what it opens.
LEMMA ObtainBeginsUse ==
  ASSUME ThInv, NEW c \in Caller, pc[c] \in OpenPlace, OwnStep(c),
         NEW h \in Handler, FileOf(h) = opening[c],
         Obtain(c, h), UNCHANGED <<opening, filling>>
  PROVE  /\ \A d \in Caller : \A x : Uses(d, x)' <=> Uses(d, x) \/ (d = c /\ x = opening[c])
         /\ \A p \in Player : handle'[p] \in {handle[p], h}
<1>0. /\ pc \in [Caller -> Place]
      /\ handle \in [Player -> Handler \cup {NoHandler}]
      /\ h # NoHandler
  BY ThreadsAssumption DEF ThInv, ThTypeOK
<1>1. CASE Nested(c)
  <2>1. pc'[c] = "passover" /\ handle' = handle
    BY <1>0, <1>1 DEF Obtain, Goto
  <2>2. NextFileObtained(c)' /\ ~NextFileObtained(c)
    BY <1>1, <2>1, OpenerHasNoUse DEF NextFileObtained, Nested
  <2>3. \A x : Uses(c, x)' <=> Uses(c, x) \/ x = opening[c]
    BY <2>1, <2>2 DEF Uses, HasOpen
  <2> QED BY <2>1, <2>3, OwnStepKeepsUses
<1>2. CASE ~Nested(c)
  <2>1. c \in Player /\ \A x : ~Uses(c, x)
    BY <1>2, OpenerHasNoUse
  <2>2. handle' = [handle EXCEPT ![c] = h]
    BY <1>2 DEF Obtain
  <2>3. handle'[c] = h /\ \A p \in Player \ {c} : handle'[p] = handle[p]
    BY <1>0, <2>1, <2>2
  <2>4. ~NextFileObtained(c)'
    BY <1>2 DEF NextFileObtained, Nested
  <2>5. \A x : Uses(c, x)' <=> x = opening[c]
    BY <1>0, <2>1, <2>3, <2>4 DEF Uses, HasOpen
  <2> QED BY <2>1, <2>3, <2>5, OwnStepKeepsUses
<1> QED BY <1>1, <1>2

LEMMA ThStepKeepsUse ==
  ASSUME ThInv, IInv', [Next]_vars
  PROVE  UseOK'
<1>0. /\ pc \in [Caller -> Place]
      /\ handle \in [Player -> Handler \cup {NoHandler}]
      /\ opening \in [Caller -> Key]
      /\ filling \in [Caller -> Handler \cup {NoHandler}]
      /\ Player \subseteq Caller /\ PreBuffer \subseteq Caller
      /\ Player \cap PreBuffer = {}
      /\ NoHandler \notin Handler
  BY ThreadsAssumption DEF ThInv, ThTypeOK
<1>1. \A c \in Caller : NestedInFill(c) /\ PlayerPlace(c) /\ ThreadPlace(c) /\ Starting(c)
  BY DEF ThInv, PlacesOK, PlaceOK
<1>2. cache = Erase(cache, {}) /\ {} \in SUBSET Idle(cache)
  BY DEF Erase, ThInv, IInv, CacheTypeOK
<1>3. ASSUME NEW c \in Caller, OwnStep(c), UNCHANGED <<handle, cache>>,
             NextFileObtained(c)' <=> NextFileObtained(c),
             NextFileObtained(c) => opening'[c] = opening[c]
      PROVE  UseOK'
  BY <1>2, <1>3, QuietStepKeepsUse
<1>4. ASSUME NEW p \in Caller, (\E k \in Key : Open(p, k)) \/ Read(p) PROVE UseOK'
  <2>1. OwnStep(p)
    BY <1>4, StepsAreOwn
  <2>2. pc[p] = "idle" /\ pc'[p] \in {"find", "fill"} /\ UNCHANGED <<handle, cache, filling>>
    BY <1>0, <1>4 DEF Open, Read, At, Goto, cache_vars
  <2>3. ~NextFileObtained(p) /\ ~NextFileObtained(p)'
    BY <2>2 DEF NextFileObtained
  <2> QED BY <1>3, <2>1, <2>2, <2>3
<1>5. ASSUME NEW c \in Caller, Find(c) PROVE UseOK'
  <2> DEFINE k == opening[c]
             h == cache[k].handler
             G == [cache EXCEPT ![k] = Pinned(@)]
  <2>1. OwnStep(c) /\ pc[c] \in OpenPlace /\ k \in Key
    BY <1>0, <1>5, StepsAreOwn DEF Find, At, OpenPlace
  <2>2. ASSUME Goto(c, "create"), UNCHANGED handle
        PROVE  /\ NextFileObtained(c)' <=> NextFileObtained(c)
               /\ NextFileObtained(c) => opening'[c] = opening[c]
    <3>1. pc'[c] = "create"
      BY <1>0, <2>2 DEF Goto
    <3> QED BY <2>1, <3>1, OpenerHasNoUse DEF NextFileObtained
  <2>3. CASE FindAndPinMiss(c, k) /\ Goto(c, "create") /\ UNCHANGED handle
    BY <1>3, <2>1, <2>2, <2>3 DEF FindAndPinMiss, cache_vars
  <2>4. CASE FindAndPinReplace(c, k, Nested(c)) /\ Goto(c, "create") /\ UNCHANGED handle
    <3>1. {k} \in SUBSET Idle(cache) /\ cache' = Erase(cache, {k})
      BY <2>4 DEF FindAndPinReplace, PretendMissing
    <3> QED BY <2>1, <2>2, <2>4, <3>1, QuietStepKeepsUse
  <2>5. CASE FindAndPinHit(c, k, Nested(c)) /\ Obtain(c, h)
    <3>1. k \in DOMAIN cache /\ cache' = G
      BY <2>5 DEF FindAndPinHit
    <3>2. /\ DOMAIN G = DOMAIN cache \cup {k}
          /\ \A x \in DOMAIN cache \ {k} : G[x] = cache[x]
          /\ G[k].handler = h /\ G[k].references = cache[k].references + 1
      BY <3>1 DEF Pinned
    <3>3. G[k].references = Cardinality(UsersOf(k)) + 1
      BY <3>1, <3>2 DEF ThInv, UseOK, RefsCountUsers
    <3>4. cache' = Erase(G, {})
      BY <3>1 DEF Erase
    <3>5. h \in Handler /\ FileOf(h) = k
      BY <3>1 DEF ThInv, UseOK, FiledByFile, IInv, CacheTypeOK, Entry
    <3>6. UNCHANGED <<opening, filling>>
      BY <1>5 DEF Find
    <3>7. /\ ~Uses(c, k)
          /\ \A d \in Caller : \A x : Uses(d, x)' <=> Uses(d, x) \/ (d = c /\ x = k)
          /\ \A p \in Player : handle'[p] \in {handle[p], h}
      BY <2>1, <2>5, <3>5, <3>6, OpenerHasNoUse, ObtainBeginsUse
    <3> HIDE DEF G
    <3> QED BY <2>1, <3>2, <3>3, <3>4, <3>5, <3>7, LeaseKeepsUse
  <2> QED BY <1>5, <2>3, <2>4, <2>5 DEF Find
<1>6. ASSUME NEW c \in Caller, OpenFails(c) \/ (\E h \in Handler : Create(c, h)) PROVE UseOK'
  <2>1. OwnStep(c)
    BY <1>6, StepsAreOwn
  <2>2. /\ pc[c] = "create" /\ pc'[c] \in {"complete", "idle", "insert"}
        /\ UNCHANGED <<handle, cache, filling>>
    BY <1>0, <1>6 DEF OpenFails, Create, Construct, At, Goto, cache_vars
  <2>3. ~NextFileObtained(c) /\ ~NextFileObtained(c)'
    BY <2>2 DEF NextFileObtained
  <2> QED BY <1>3, <2>1, <2>2, <2>3
<1>7. ASSUME NEW c \in Caller, NEW x \in Handler, Insert(c, x) PROVE UseOK'
  <2> DEFINE k == opening[c]
             h == cache'[k].handler
             G == Store(cache, k, Inserted(cache, k, x))
  <2>1. /\ OwnStep(c) /\ pc[c] \in OpenPlace /\ k \in Key
        /\ InsertPinned(c, k, x) /\ Obtain(c, h) /\ UNCHANGED <<opening, filling>>
    BY <1>0, <1>7, StepsAreOwn DEF Insert, At, OpenPlace
  <2>2. PICK gone \in CleanupChoices(G) : cache' = Erase(G, gone)
    BY <2>1 DEF InsertPinned
  <2>3. gone \in SUBSET Idle(G)
    BY <2>2, CleanupErasesIdle
  <2>4. k \in DOMAIN cache' /\ G[k].handler = h
    BY <2>1, <2>2, InsertKeepsTheKey DEF Erase, ThInv
  <2>5. /\ DOMAIN G = DOMAIN cache \cup {k}
        /\ \A y \in DOMAIN cache \ {k} : G[y] = cache[y]
        /\ G[k] = Inserted(cache, k, x)
    BY DEF Store
  <2>6. h \in Handler
    BY <2>4 DEF IInv, CacheTypeOK, Entry
  <2>7. /\ k \in DOMAIN cache => cache[k].handler = h
        /\ FileOf(h) = k
        /\ G[k].references = Cardinality(UsersOf(k)) + 1
    <3>1. CASE k \in DOMAIN cache
      <4>1. cache[k].handler = h /\ G[k].references = cache[k].references + 1
        BY <2>4, <2>5, <3>1 DEF Inserted, Pinned
      <4> QED BY <3>1, <4>1 DEF ThInv, UseOK, RefsCountUsers, FiledByFile
    <3>2. CASE k \notin DOMAIN cache
      <4>1. h = x /\ G[k].references = 1
        BY <2>4, <2>5, <3>2 DEF Inserted, Pinned
      <4>2. FileOf(x) = k
        BY <2>1 DEF InsertPinned, ThInv, MadeForOpening
      <4>3. UsersOf(k) = {}
        BY <3>2, UsedIsPinned DEF UsersOf
      <4> QED BY <3>2, <4>1, <4>2, <4>3, FS_EmptySet
    <3> QED BY <3>1, <3>2
  <2>8. /\ ~Uses(c, k)
        /\ \A d \in Caller : \A y : Uses(d, y)' <=> Uses(d, y) \/ (d = c /\ y = k)
        /\ \A p \in Player : handle'[p] \in {handle[p], h}
    BY <2>1, <2>6, <2>7, OpenerHasNoUse, ObtainBeginsUse
  <2> HIDE DEF G
  <2> QED BY <2>1, <2>2, <2>3, <2>4, <2>5, <2>7, <2>8, LeaseKeepsUse
<1>8. ASSUME NEW p \in Player, Release(p) PROVE UseOK'
  <2> DEFINE k == FileOf(handle[p])
  <2>1. OwnStep(p) /\ p \in Caller
    BY <1>0, <1>8, StepsAreOwn
  <2>2. Uses(p, k) /\ Unpin(p, k)
    BY <1>8, OpenIsUsed DEF Release
  <2>3. /\ pc' = pc /\ pc[p] = "idle" /\ handle' = [handle EXCEPT ![p] = NoHandler]
    BY <1>8 DEF Release, At
  <2>4. ~NextFileObtained(p) /\ ~NextFileObtained(p)'
    BY <2>3 DEF NextFileObtained
  <2>5. handle'[p] = NoHandler /\ \A q \in Player \ {p} : handle'[q] = handle[q]
    BY <1>0, <2>3
  <2>6. \A x : ~Uses(p, x)' /\ (Uses(p, x) => x = k)
    BY <2>4, <2>5 DEF Uses, HasOpen
  <2>7. \A d \in Caller : \A x : Uses(d, x)' <=> Uses(d, x) /\ ~(d = p /\ x = k)
    BY <2>1, <2>6, OwnStepKeepsUses
  <2>8. \A q \in Player : handle'[q] \in {handle[q], NoHandler}
    BY <2>5
  <2> QED BY <2>1, <2>2, <2>7, <2>8, ReturnKeepsUse
<1>9. ASSUME NEW c \in Caller, FillUntil(c) \/ AddMoreSoundData(c) PROVE UseOK'
  <2>1. OwnStep(c)
    BY <1>9, StepsAreOwn
  <2>2. pc[c] = "fill" /\ UNCHANGED <<handle, cache>>
    BY <1>9 DEF FillUntil, AddMoreSoundData, At, cache_vars
  <2>3. ~NextFileObtained(c)
    BY <2>2 DEF NextFileObtained
  <2>4. ~NextFileObtained(c)'
    <3>1. CASE FillUntil(c)
      <4>1. ~Nested(c) /\ filling' = filling
        BY <1>1, <2>2, <3>1 DEF FillUntil, NestedInFill, OpenPlace, RequestPlace
      <4> QED BY <4>1 DEF NextFileObtained, Nested
    <3>2. CASE AddMoreSoundData(c)
      <4>1. pc'[c] = "find"
        BY <1>0, <3>2 DEF AddMoreSoundData, Goto
      <4> QED BY <4>1 DEF NextFileObtained
    <3> QED BY <1>9, <3>1, <3>2
  <2> QED BY <1>3, <2>1, <2>2, <2>3, <2>4
<1>10. ASSUME NEW c \in Caller, PassoverProcessor(c) PROVE UseOK'
  <2>1. OwnStep(c)
    BY <1>10, StepsAreOwn
  <2>2. /\ pc[c] = "passover" /\ pc'[c] \in {"request", "unpin"}
        /\ UNCHANGED <<handle, cache, filling, opening>>
    BY <1>0, <1>10 DEF PassoverProcessor, At, Goto
  <2>3. NextFileObtained(c)' <=> NextFileObtained(c)
    BY <2>2 DEF NextFileObtained, Nested
  <2> QED BY <1>3, <2>1, <2>2, <2>3
<1>11. ASSUME NEW c \in Caller, CloseNext(c) PROVE UseOK'
  <2> DEFINE k == opening[c]
  <2>1. OwnStep(c)
    BY <1>11, StepsAreOwn
  <2>2. /\ pc[c] = "unpin" /\ pc'[c] = "complete" /\ Unpin(c, k) /\ handle' = handle
    BY <1>0, <1>11 DEF CloseNext, At, Goto
  <2>3. NextFileObtained(c) /\ ~NextFileObtained(c)'
    BY <1>1, <2>2 DEF NextFileObtained, NestedInFill
  <2>4. ~HasOpen(c, k)
    <3> SUFFICES ASSUME c \in Player, handle[c] # NoHandler PROVE k # FileOf(handle[c])
      BY DEF HasOpen
    <3>1. k = FileOf(handle[c]) + 1
      BY <1>1, <2>3 DEF NextFileObtained, NestedInFill, FillTarget
    <3>2. FileOf(handle[c]) \in Nat
      BY <1>0, ThreadsAssumption DEF FileOf
    <3> QED BY <3>1, <3>2
  <2>5. Uses(c, k) /\ \A x : Uses(c, x)' <=> Uses(c, x) /\ x # k
    BY <2>2, <2>3, <2>4 DEF Uses, HasOpen
  <2>6. \A d \in Caller : \A x : Uses(d, x)' <=> Uses(d, x) /\ ~(d = c /\ x = k)
    BY <2>1, <2>5, OwnStepKeepsUses
  <2> QED BY <2>2, <2>5, <2>6, ReturnKeepsUse
<1>12. ASSUME NEW c \in Caller, FillComplete(c) PROVE UseOK'
  <2>1. OwnStep(c)
    BY <1>12, StepsAreOwn
  <2>2. pc[c] = "complete" /\ filling'[c] = NoHandler /\ UNCHANGED <<handle, cache>>
    BY <1>0, <1>12 DEF FillComplete, Unlocking, At, cache_vars
  <2>3. ~NextFileObtained(c) /\ ~NextFileObtained(c)'
    BY <2>2 DEF NextFileObtained, Nested
  <2> QED BY <1>3, <2>1, <2>2, <2>3
<1>13. ASSUME NEW c \in Caller, RequestPrebuffer(c) \/ EnqueueWork(c) PROVE UseOK'
  <2>1. OwnStep(c)
    BY <1>13, StepsAreOwn
  <2>2. /\ pc[c] \in {"request", "enqueue"}
        /\ Nested(c) => pc'[c] \in {"start", "enqueue", "unpin"}
        /\ UNCHANGED <<handle, cache, filling, opening>>
    BY <1>0, <1>13 DEF RequestPrebuffer, EnqueueWork, At, Goto, cache_vars
  <2>3. NextFileObtained(c)' <=> NextFileObtained(c)
    BY <2>2 DEF NextFileObtained, Nested
  <2> QED BY <1>3, <2>1, <2>2, <2>3
<1>14. ASSUME NEW c \in Caller, PickWork(c) \/ FinishWork(c) PROVE UseOK'
  <2>1. OwnStep(c)
    BY <1>14, StepsAreOwn
  <2>2. /\ pc[c] \in {"idle", "drop", "again"} /\ pc'[c] \in {"fill", "idle"}
        /\ UNCHANGED <<handle, cache>>
    BY <1>0, <1>14 DEF PickWork, FinishWork, At, Goto, cache_vars
  <2>3. ~NextFileObtained(c) /\ ~NextFileObtained(c)'
    BY <2>2 DEF NextFileObtained
  <2> QED BY <1>3, <2>1, <2>2, <2>3
<1>15. ASSUME NEW c \in Caller, NEW w \in PreBuffer, StartThread(c, w) PROVE UseOK'
  <2>1. /\ pc[c] = "start" /\ pc[w] = "off" /\ pc'[c] = "enqueue" /\ pc'[w] = "idle"
        /\ \A d \in Caller \ {c, w} : pc'[d] = pc[d]
        /\ UNCHANGED <<handle, cache, filling, opening>>
    BY <1>0, <1>15 DEF StartThread, At, cache_vars
  <2>2. \A d \in Caller : NextFileObtained(d)' <=> NextFileObtained(d)
    BY <1>0, <2>1 DEF NextFileObtained, Nested
  <2>3. \A d \in Caller : \A k : Uses(d, k)' <=> Uses(d, k)
    BY <2>1, <2>2 DEF Uses, HasOpen
  <2> QED BY <1>2, <2>1, <2>3, QuietKeepsUse
<1>16. ASSUME UNCHANGED <<cache, pc, handle, opening, filling>> PROVE UseOK'
  <2>1. \A d \in Caller : \A k : Uses(d, k)' <=> Uses(d, k)
    BY <1>16 DEF Uses, HasOpen, NextFileObtained, Nested
  <2> QED BY <1>2, <1>16, <2>1, QuietKeepsUse
<1>17. ASSUME NEW c \in Caller, Destroy(c) PROVE UseOK'
  BY <1>16, <1>17 DEF Destroy, NotifyFileComplete, QuitBuffering, DeleteHandler,
     DeleteErased, cache_vars
<1>18. CASE UNCHANGED vars
  BY <1>16, <1>18 DEF vars, cache_vars
<1>19. ASSUME NEW c \in Caller, Proceed(c) PROVE UseOK'
  BY <1>5, <1>6, <1>7, <1>9, <1>10, <1>11, <1>12, <1>13, <1>15, <1>17, <1>19 DEF Proceed
<1> QED BY <1>0, <1>4, <1>8, <1>14, <1>18, <1>19 DEF Next, Run

-----------------------------------------------------------------------------
(* Queues, and destructors.                                                *)

Cached == {cache[k].handler : k \in DOMAIN cache}

\* What is queued anew is in the cache, and Forget takes away what it was asked
\* to.
LEMMA ThStepOfQueues ==
  ASSUME ThInv, [Next]_vars, NEW w \in PreBuffer
  PROVE  NoneTwice(queue'[w]) /\ ToSet(queue'[w]) \subseteq ToSet(queue[w]) \cup Cached
<1>0. /\ queue \in [PreBuffer -> Seq(Handler)] /\ queue[w] \in Seq(Handler)
      /\ NoneTwice(queue[w])
      /\ Player \subseteq Caller /\ PreBuffer \subseteq Caller
  BY ThreadsAssumption DEF ThInv, ThTypeOK, QueuesOK
<1>1. CASE queue'[w] = queue[w]
  BY <1>0, <1>1
<1>2. ASSUME NEW c \in Caller, EnqueueWork(c), queue'[w] # queue[w]
      PROVE  NoneTwice(queue'[w]) /\ ToSet(queue'[w]) \subseteq ToSet(queue[w]) \cup Cached
  <2> DEFINE h == PrebufferTarget(c)
  <2>1. h \in Handler /\ h \in Cached
    BY <1>2, TargetIsUsed DEF EnqueueWork, At, RequestPlace, Cached
  <2>2. ~Contains(queue[w], h) /\ queue'[w] = Append(queue[w], h)
    BY <1>0, <1>2 DEF EnqueueWork
  <2>3. h \notin ToSet(queue[w])
    BY <1>0, <2>2, NotContained
  <2> HIDE DEF h
  <2>4. NoneTwice(queue'[w]) /\ ToSet(queue'[w]) = ToSet(queue[w]) \cup {h}
    BY <1>0, <2>1, <2>2, <2>3, AppendedOnce
  <2> QED BY <2>1, <2>4
<1>3. ASSUME NEW v \in PreBuffer, FinishWork(v), queue'[w] # queue[w]
      PROVE  NoneTwice(queue'[w]) /\ ToSet(queue'[w]) \subseteq ToSet(queue[w]) \cup Cached
  <2>1. v = w
    BY <1>0, <1>3 DEF FinishWork
  <2>2. queue[w] # <<>>
    BY <1>0, <1>3, <2>1 DEF FinishWork, At, ThInv, PlacesOK, PlaceOK, ThreadPlace
  <2>3. CASE queue'[w] = Tail(queue[w])
    BY <1>0, <2>2, <2>3, TailOnce
  <2>4. CASE queue'[w] = Append(Tail(queue[w]), Head(queue[w]))
    BY <1>0, <2>2, <2>4, RotatedOnce
  <2> QED BY <1>0, <1>3, <2>1, <2>3, <2>4 DEF FinishWork
<1>4. ASSUME NEW c \in Caller, Destroy(c), queue'[w] # queue[w]
      PROVE  NoneTwice(queue'[w]) /\ ToSet(queue'[w]) \subseteq ToSet(queue[w]) \cup Cached
  <2>1. PICK h \in to_delete[c] : QuitBuffering(c, h)
    BY <1>4 DEF Destroy, NotifyFileComplete, DeleteHandler, thread_vars
  <2>2. queue'[w] = RemoveFirst(queue[w], h)
    BY <1>0, <1>4, <2>1 DEF QuitBuffering, WorkForgotten
  <2>3. NoneTwice(queue'[w]) /\ ToSet(queue'[w]) = ToSet(queue[w]) \ {h}
    BY <1>0, <2>2, ForgottenOnce
  <2> QED BY <2>3
<1>5. ASSUME NEW c \in Caller,
             \/ (\E k \in Key : Open(c, k)) \/ Release(c) \/ Read(c)
             \/ Find(c) \/ OpenFails(c) \/ (\E h \in Handler : Create(c, h) \/ Insert(c, h))
             \/ FillUntil(c) \/ AddMoreSoundData(c) \/ PassoverProcessor(c) \/ CloseNext(c)
             \/ FillComplete(c) \/ RequestPrebuffer(c)
             \/ (\E v \in PreBuffer : StartThread(c, v)) \/ PickWork(c)
      PROVE  queue' = queue
  BY <1>5 DEF Open, Release, Read, Find, OpenFails, Create, Insert, FillUntil,
     AddMoreSoundData, PassoverProcessor, CloseNext, FillComplete, RequestPrebuffer,
     StartThread, PickWork, thread_vars
<1>6. CASE UNCHANGED vars
  BY <1>1, <1>6 DEF vars, thread_vars
<1>7. ASSUME NEW c \in Caller, Proceed(c), queue'[w] # queue[w]
      PROVE  NoneTwice(queue'[w]) /\ ToSet(queue'[w]) \subseteq ToSet(queue[w]) \cup Cached
  BY <1>2, <1>4, <1>5, <1>7 DEF Proceed
<1> QED BY <1>0, <1>1, <1>3, <1>5, <1>6, <1>7 DEF Next, Run

\* Handlers the cache had stay that until they are deleted.
LEMMA CacheKeepsFiled ==
  ASSUME IInv, NEW c \in Caller, NEW k,
         \/ FindAndPinMiss(c, k)
         \/ (\E g \in BOOLEAN : FindAndPinReplace(c, k, g) \/ FindAndPinHit(c, k, g))
         \/ (\E h \in Handler : InsertPinned(c, k, h) \/ Construct(c, h))
         \/ Unpin(c, k)
  PROVE  Filed \subseteq Filed'
<1>0. /\ to_delete \in [Caller -> SUBSET Handler]
      /\ to_delete[c] = {}
  BY DEF IInv, CacheTypeOK, FindAndPinMiss, FindAndPinReplace, FindAndPinHit, InsertPinned,
     Construct, Unpin, Ready
<1>1. ASSUME NEW G, NEW gone, cache' = Erase(G, gone),
             DOMAIN cache \subseteq DOMAIN G,
             \A x \in DOMAIN cache : G[x].handler = cache[x].handler,
             NEW E, to_delete' = [to_delete EXCEPT ![c] = E],
             \A x \in DOMAIN cache \cap gone : cache[x].handler \in E
      PROVE  Filed \subseteq Filed'
  <2>1. ASSUME NEW x \in DOMAIN cache PROVE cache[x].handler \in Filed'
    <3>1. CASE x \in gone
      BY <1>0, <1>1, <3>1 DEF Filed
    <3>2. CASE x \notin gone
      BY <1>1, <3>2 DEF Filed, Erase
    <3> QED BY <3>1, <3>2
  <2>2. ASSUME NEW d \in Caller, NEW h \in to_delete[d] PROVE h \in Filed'
    <3>1. d # c /\ h \in to_delete'[d]
      BY <1>0, <1>1, <2>2
    <3> QED BY <3>1 DEF Filed
  <2> QED BY <2>1, <2>2 DEF Filed
<1>2. CASE FindAndPinMiss(c, k) \/ (\E h \in Handler : Construct(c, h))
  BY <1>2 DEF FindAndPinMiss, Construct, cache_vars, Filed
<1>3. CASE \E g \in BOOLEAN : FindAndPinReplace(c, k, g)
  <2>1. /\ cache' = Erase(cache, {k})
        /\ to_delete' = [to_delete EXCEPT ![c] = HandlersOf(cache, {k})]
    BY <1>3 DEF FindAndPinReplace
  <2>2. \A x \in DOMAIN cache \cap {k} : cache[x].handler \in HandlersOf(cache, {k})
    BY DEF HandlersOf
  <2> QED BY <1>1, <2>1, <2>2
<1>4. CASE \E g \in BOOLEAN : FindAndPinHit(c, k, g)
  <2>1. cache' = [cache EXCEPT ![k] = Pinned(@)] /\ to_delete' = to_delete
    BY <1>4 DEF FindAndPinHit
  <2>2. DOMAIN cache' = DOMAIN cache /\ \A x \in DOMAIN cache : cache'[x].handler = cache[x].handler
    BY <2>1 DEF Pinned
  <2> QED BY <2>1, <2>2 DEF Filed
<1>5. CASE \E h \in Handler : InsertPinned(c, k, h)
  <2>1. PICK h \in Handler : InsertPinned(c, k, h)
    BY <1>5
  <2> DEFINE G == Store(cache, k, Inserted(cache, k, h))
  <2>2. PICK gone \in CleanupChoices(G) :
          /\ cache' = Erase(G, gone)
          /\ to_delete' = [to_delete EXCEPT ![c] = HandlersOf(G, gone)]
    BY <2>1 DEF InsertPinned
  <2>3. /\ DOMAIN cache \subseteq DOMAIN G
        /\ \A x \in DOMAIN cache : G[x].handler = cache[x].handler
    BY DEF Store, Inserted, Pinned
  <2>4. \A x \in DOMAIN cache \cap gone : cache[x].handler \in HandlersOf(G, gone)
    BY <2>3 DEF HandlersOf
  <2> HIDE DEF G
  <2> QED BY <1>1, <2>2, <2>3, <2>4
<1>6. CASE Unpin(c, k)
  <2> DEFINE U    == [cache EXCEPT ![k] = Unpinned(@)]
             gone == ErasedByUnpin(U, k)
  <2>1. /\ cache' = Erase(U, gone)
        /\ to_delete' = [to_delete EXCEPT ![c] = HandlersOf(cache, gone)]
    BY <1>6 DEF Unpin
  <2>2. DOMAIN U = DOMAIN cache /\ \A x \in DOMAIN cache : U[x].handler = cache[x].handler
    BY DEF Unpinned
  <2>3. \A x \in DOMAIN cache \cap gone : cache[x].handler \in HandlersOf(cache, gone)
    BY DEF HandlersOf
  <2> HIDE DEF U, gone
  <2> QED BY <1>1, <2>1, <2>2, <2>3
<1> QED BY <1>2, <1>3, <1>4, <1>5, <1>6

\* A call erases one handler at most: before it the cache was not too large, or
\* all there was, was in use.
LEMMA InsertErasesOneAtMost ==
  ASSUME IInv, NEW c \in Caller, NEW k, NEW h, InsertPinned(c, k, h)
  PROVE  \A f, g \in to_delete'[c] : f = g
<1> DEFINE D == DOMAIN cache
           G == Store(cache, k, Inserted(cache, k, h))
<1>1. PICK gone \in CleanupChoices(G) :
        to_delete' = [to_delete EXCEPT ![c] = HandlersOf(G, gone)]
  BY DEF InsertPinned
<1>2. to_delete'[c] = HandlersOf(G, gone)
  BY <1>1 DEF IInv, CacheTypeOK
<1>3. gone \subseteq Idle(G)
  BY <1>1, CleanupErasesIdle
<1>4. DOMAIN G = D \cup {k} /\ G[k] = Inserted(cache, k, h) /\ \A x \in D \ {k} : G[x] = cache[x]
  BY DEF Store
<1>5. G[k].references # 0
  BY <1>4 DEF Inserted, Pinned, IInv, CacheTypeOK, Entry
<1>6. Idle(G) \subseteq Idle(cache)
  BY <1>4, <1>5 DEF Idle
<1>7. IsFiniteSet(D) /\ IsFiniteSet(D \cup {k})
  BY FS_AddElement DEF IInv, CacheTypeOK
<1>8. /\ Cardinality(D) \in Nat
      /\ Cardinality(D \cup {k}) = IF k \in D THEN Cardinality(D) ELSE Cardinality(D) + 1
  BY <1>7, FS_CardinalityType, FS_AddElement
<1>9. \A x, y \in gone : x = y
  <2>1. CASE Cardinality(D) > MaxSize
    BY <1>3, <1>6, <2>1 DEF IInv, OverfullOnlyWhenPinned
  <2>2. CASE ~(Cardinality(D) > MaxSize) /\ Cardinality(D \cup {k}) <= MaxSize
    <3>1. ~Oversize(G)
      BY <1>4, <1>8, <2>2, CacheAssumption DEF Oversize
    <3> QED BY <1>1, <3>1 DEF CleanupChoices
  <2>3. CASE ~(Cardinality(D) > MaxSize) /\ ~(Cardinality(D \cup {k}) <= MaxSize)
    <3>1. Cardinality(DOMAIN G) - MaxSize = 1 /\ Oversize(G)
      BY <1>4, <1>8, <2>3, CacheAssumption DEF Oversize
    <3>2. IsFiniteSet(Idle(G)) /\ IsFiniteSet(gone)
      BY <1>3, <1>4, <1>7, FS_Subset DEF Idle
    <3>3. Cardinality(Idle(G)) \in Nat /\ Cardinality(gone) \in Nat
      BY <3>2, FS_CardinalityType
    <3>4. Cardinality(gone) = ToEraseCount(G)
      BY <1>1, <3>1 DEF CleanupChoices
    <3>5. Cardinality(gone) = 0 \/ Cardinality(gone) = 1
      BY <3>1, <3>3, <3>4 DEF ToEraseCount
    <3>6. gone = {} \/ \E x : gone = {x}
      BY <3>2, <3>5, FS_EmptySet, FS_Singleton
    <3> QED BY <3>6
  <2> QED BY <2>1, <2>2, <2>3
<1> HIDE DEF G
<1> QED BY <1>2, <1>9 DEF HandlersOf

LEMMA OnlyDeletedIsForgotten ==
  ASSUME ThInv, [Next]_vars, NEW h \in Filed
  PROVE  h \in Filed' \/ \E c \in Caller : DeleteHandler(c, h)
<1>0. Player \subseteq Caller /\ PreBuffer \subseteq Caller /\ IInv
  BY ThreadsAssumption DEF ThInv
<1>1. ASSUME UNCHANGED <<cache, to_delete>> PROVE h \in Filed'
  BY <1>1 DEF Filed
<1>2. ASSUME NEW c \in Caller, Find(c) PROVE h \in Filed'
  <2>1. \/ FindAndPinMiss(c, opening[c])
        \/ FindAndPinReplace(c, opening[c], Nested(c))
        \/ FindAndPinHit(c, opening[c], Nested(c))
    BY <1>2 DEF Find
  <2>2. Nested(c) \in BOOLEAN
    BY DEF Nested
  <2> QED BY <1>0, <2>1, <2>2, CacheKeepsFiled
<1>3. ASSUME NEW c \in Caller, NEW x \in Handler, Create(c, x) \/ Insert(c, x)
      PROVE  h \in Filed'
  <2>1. Construct(c, x) \/ InsertPinned(c, opening[c], x)
    BY <1>3 DEF Create, Insert
  <2> QED BY <1>0, <2>1, CacheKeepsFiled
<1>4. ASSUME NEW c \in Caller, Release(c) \/ CloseNext(c) PROVE h \in Filed'
  <2>1. \E k : Unpin(c, k)
    BY <1>4 DEF Release, CloseNext
  <2> QED BY <1>0, <2>1, CacheKeepsFiled
<1>5. ASSUME NEW c \in Caller,
             \/ (\E k \in Key : Open(c, k)) \/ Read(c) \/ OpenFails(c) \/ FillUntil(c)
             \/ AddMoreSoundData(c) \/ PassoverProcessor(c) \/ FillComplete(c)
             \/ RequestPrebuffer(c) \/ (\E v \in PreBuffer : StartThread(c, v))
             \/ EnqueueWork(c) \/ PickWork(c) \/ FinishWork(c)
      PROVE  h \in Filed'
  BY <1>1, <1>5 DEF Open, Read, OpenFails, FillUntil, AddMoreSoundData, PassoverProcessor,
     FillComplete, RequestPrebuffer, StartThread, EnqueueWork, PickWork, FinishWork, cache_vars
<1>6. ASSUME NEW c \in Caller, Destroy(c)
      PROVE  h \in Filed' \/ \E b \in Caller : DeleteHandler(b, h)
  <2>1. PICK x \in to_delete[c] :
          NotifyFileComplete(c, x) \/ QuitBuffering(c, x) \/ DeleteHandler(c, x)
    BY <1>6 DEF Destroy
  <2>2. CASE NotifyFileComplete(c, x) \/ QuitBuffering(c, x)
    BY <1>1, <2>2 DEF NotifyFileComplete, QuitBuffering, cache_vars
  <2>3. CASE DeleteHandler(c, x)
    <3>1. cache' = cache /\ to_delete' = [to_delete EXCEPT ![c] = @ \ {x}]
      BY <2>3 DEF DeleteHandler, DeleteErased
    <3>2. \A b \in Caller : to_delete[b] \ {x} \subseteq to_delete'[b]
      BY <1>0, <3>1 DEF IInv, CacheTypeOK
    <3>3. h # x => h \in Filed'
      BY <3>1, <3>2 DEF Filed
    <3> QED BY <2>3, <3>3
  <2> QED BY <2>1, <2>2, <2>3
<1>7. CASE UNCHANGED vars
  BY <1>1, <1>7 DEF vars, cache_vars
<1>8. ASSUME NEW c \in Caller, Proceed(c)
      PROVE  h \in Filed' \/ \E b \in Caller : DeleteHandler(b, h)
  BY <1>2, <1>3, <1>4, <1>5, <1>6, <1>8 DEF Proceed
<1> QED BY <1>0, <1>4, <1>5, <1>7, <1>8 DEF Next, Run

LEMMA ThStepKeepsQueues ==
  ASSUME ThInv, [Next]_vars
  PROVE  QueuesOK'
<1> SUFFICES ASSUME NEW w \in PreBuffer
             PROVE  NoneTwice(queue'[w]) /\ ToSet(queue'[w]) \subseteq Filed'
  BY DEF QueuesOK
<1>1. NoneTwice(queue'[w]) /\ ToSet(queue'[w]) \subseteq ToSet(queue[w]) \cup Cached
  BY ThStepOfQueues
<1>2. ToSet(queue[w]) \cup Cached \subseteq Filed
  BY DEF ThInv, QueuesOK, Cached, Filed
<1>3. ASSUME NEW h \in ToSet(queue'[w]), NEW c \in Caller, DeleteHandler(c, h) PROVE FALSE
  <2>1. queue' = queue /\ destructor[c] = "delete" /\ h \in to_delete[c]
    BY <1>3 DEF DeleteHandler, DeleteErased, thread_vars
  <2> QED BY <1>3, <2>1 DEF ThInv, DestructorsOK
<1>4. ASSUME NEW h \in ToSet(queue'[w]) PROVE h \in Filed'
  BY <1>1, <1>2, <1>3, OnlyDeletedIsForgotten
<1> QED BY <1>1, <1>4

LEMMA ThStepKeepsDestructors ==
  ASSUME ThInv, [Next]_vars
  PROVE  DestructorsOK'
<1>0. /\ to_delete \in [Caller -> SUBSET Handler]
      /\ destructor \in [Caller -> {"notify", "forget", "delete"}]
      /\ queue \in [PreBuffer -> Seq(Handler)]
      /\ Player \subseteq Caller /\ PreBuffer \subseteq Caller
      /\ IInv
  BY ThreadsAssumption DEF ThInv, ThTypeOK, IInv, CacheTypeOK
<1> DEFINE OK(c) ==
             /\ to_delete[c] = {} => destructor[c] = "notify"
             /\ \A g, h \in to_delete[c] : g = h
             /\ destructor[c] = "delete" =>
                  \A h \in to_delete[c], w \in PreBuffer : h \notin ToSet(queue[w])
           OKNext(c) ==
             /\ to_delete'[c] = {} => destructor'[c] = "notify"
             /\ \A g, h \in to_delete'[c] : g = h
             /\ destructor'[c] = "delete" =>
                  \A h \in to_delete'[c], w \in PreBuffer : h \notin ToSet(queue'[w])
<1>1. \A c \in Caller : OK(c)
  BY DEF ThInv, DestructorsOK
<1>2. ASSUME NEW c \in Caller, to_delete'[c] = to_delete[c], destructor'[c] = destructor[c]
      PROVE  OKNext(c)
  <2>1. \A h \in to_delete[c] : h \notin Cached
    BY DEF ThInv, IInv, OneOwner, Cached
  <2>2. \A w \in PreBuffer : ToSet(queue'[w]) \subseteq ToSet(queue[w]) \cup Cached
    BY ThStepOfQueues
  <2> QED BY <1>1, <1>2, <2>1, <2>2
<1>3. ASSUME NEW c \in Caller, Ready(c), UNCHANGED destructor,
             \A d \in Caller \ {c} : to_delete'[d] = to_delete[d],
             \A f, g \in to_delete'[c] : f = g
      PROVE  \A d \in Caller : OKNext(d)
  <2>1. destructor'[c] = "notify"
    BY <1>1, <1>3 DEF Ready
  <2>2. OKNext(c)
    BY <1>3, <2>1
  <2> QED BY <1>2, <1>3, <2>2
<1>4. ASSUME UNCHANGED <<to_delete, destructor>> PROVE \A d \in Caller : OKNext(d)
  BY <1>2, <1>4
<1>5. ASSUME NEW c \in Caller, Find(c) PROVE \A d \in Caller : OKNext(d)
  <2>1. CASE FindAndPinReplace(c, opening[c], Nested(c))
    <3>1. to_delete' = [to_delete EXCEPT ![c] = {cache[opening[c]].handler}]
      BY <2>1 DEF FindAndPinReplace, HandlersOf
    <3>2. Ready(c) /\ UNCHANGED destructor
      BY <1>5, <2>1 DEF Find, FindAndPinReplace
    <3> QED BY <1>0, <1>3, <3>1, <3>2
  <2>2. CASE FindAndPinMiss(c, opening[c]) \/ FindAndPinHit(c, opening[c], Nested(c))
    BY <1>4, <1>5, <2>2 DEF Find, FindAndPinMiss, FindAndPinHit, cache_vars
  <2> QED BY <1>5, <2>1, <2>2 DEF Find
<1>6. ASSUME NEW c \in Caller, NEW h \in Handler, Insert(c, h)
      PROVE  \A d \in Caller : OKNext(d)
  <2>1. InsertPinned(c, opening[c], h) /\ UNCHANGED destructor
    BY <1>6 DEF Insert
  <2>2. Ready(c) /\ \A d \in Caller \ {c} : to_delete'[d] = to_delete[d]
    BY <1>0, <2>1 DEF InsertPinned
  <2> QED BY <1>0, <1>3, <2>1, <2>2, InsertErasesOneAtMost
<1>7. ASSUME NEW c \in Caller, Release(c) \/ CloseNext(c) PROVE \A d \in Caller : OKNext(d)
  <2>1. PICK k : Unpin(c, k)
    BY <1>7 DEF Release, CloseNext
  <2> DEFINE gone == ErasedByUnpin([cache EXCEPT ![k] = Unpinned(@)], k)
  <2>2. Ready(c) /\ to_delete' = [to_delete EXCEPT ![c] = HandlersOf(cache, gone)]
    BY <2>1 DEF Unpin
  <2>3. \A x, y \in gone : x = y
    BY DEF ErasedByUnpin
  <2>4. UNCHANGED destructor
    BY <1>7 DEF Release, CloseNext
  <2> HIDE DEF gone
  <2>5. \A f, g \in HandlersOf(cache, gone) : f = g
    BY <2>3 DEF HandlersOf
  <2> QED BY <1>0, <1>3, <2>2, <2>4, <2>5
<1>8. ASSUME NEW c \in Caller,
             \/ (\E k \in Key : Open(c, k)) \/ Read(c) \/ OpenFails(c) \/ FillUntil(c)
             \/ (\E h \in Handler : Create(c, h))
             \/ AddMoreSoundData(c) \/ PassoverProcessor(c) \/ FillComplete(c)
             \/ RequestPrebuffer(c) \/ (\E v \in PreBuffer : StartThread(c, v))
             \/ EnqueueWork(c) \/ PickWork(c) \/ FinishWork(c)
      PROVE  \A d \in Caller : OKNext(d)
  <2>1. UNCHANGED <<to_delete, destructor>>
    BY <1>8 DEF Open, Read, OpenFails, FillUntil, Create, Construct, AddMoreSoundData,
       PassoverProcessor, FillComplete, RequestPrebuffer, StartThread, EnqueueWork, PickWork,
       FinishWork, cache_vars
  <2> QED BY <1>4, <2>1
<1>9. ASSUME NEW c \in Caller, Destroy(c) PROVE \A d \in Caller : OKNext(d)
  <2>1. PICK h \in to_delete[c] :
          NotifyFileComplete(c, h) \/ QuitBuffering(c, h) \/ DeleteHandler(c, h)
    BY <1>9 DEF Destroy
  <2>2. \A g \in to_delete[c] : g = h
    BY <1>1
  <2>3. CASE NotifyFileComplete(c, h)
    <3>1. /\ to_delete' = to_delete /\ destructor'[c] = "forget"
          /\ \A d \in Caller \ {c} : destructor'[d] = destructor[d]
      BY <1>0, <2>3 DEF NotifyFileComplete, cache_vars
    <3>2. OKNext(c)
      BY <1>1, <2>1, <3>1
    <3> QED BY <1>2, <3>1, <3>2
  <2>4. CASE QuitBuffering(c, h)
    <3>1. /\ to_delete' = to_delete /\ destructor'[c] = "delete"
          /\ \A d \in Caller \ {c} : destructor'[d] = destructor[d]
      BY <1>0, <2>4 DEF QuitBuffering, cache_vars
    <3>2. ASSUME NEW w \in PreBuffer PROVE h \notin ToSet(queue'[w])
      <4>1. queue'[w] = IF w = buffer_thread THEN RemoveFirst(queue[w], h) ELSE queue[w]
        BY <1>0, <2>4, ThreadsAssumption DEF QuitBuffering, WorkForgotten
      <4>2. CASE w = buffer_thread
        BY <1>0, <4>1, <4>2, ForgottenOnce DEF ThInv, QueuesOK
      <4>3. CASE w # buffer_thread
        <5>1. queue[w] = <<>>
          BY <1>0, <4>3 DEF ThInv, PlacesOK, PlaceOK, ThreadPlace
        <5> QED BY <4>1, <4>3, <5>1 DEF ToSet
      <4> QED BY <4>2, <4>3
    <3>3. OKNext(c)
      BY <1>1, <2>1, <2>2, <3>1, <3>2
    <3> QED BY <1>2, <3>1, <3>3
  <2>5. CASE DeleteHandler(c, h)
    <3>1. /\ to_delete'[c] = to_delete[c] \ {h} /\ destructor'[c] = "notify"
          /\ \A d \in Caller \ {c} :
               destructor'[d] = destructor[d] /\ to_delete'[d] = to_delete[d]
      BY <1>0, <2>5 DEF DeleteHandler, DeleteErased
    <3>2. OKNext(c)
      BY <2>2, <3>1
    <3> QED BY <1>2, <3>1, <3>2
  <2> QED BY <2>1, <2>3, <2>4, <2>5
<1>10. ASSUME UNCHANGED vars PROVE \A d \in Caller : OKNext(d)
  BY <1>4, <1>10 DEF vars, cache_vars
<1> HIDE DEF OKNext
<1>11. ASSUME NEW c \in Caller, Proceed(c) PROVE \A d \in Caller : OKNext(d)
  BY <1>5, <1>6, <1>7, <1>8, <1>9, <1>11 DEF Proceed
<1>12. \A d \in Caller : OKNext(d)
  BY <1>0, <1>7, <1>8, <1>10, <1>11 DEF Next, Run
<1> QED BY <1>12 DEF OKNext, DestructorsOK

-----------------------------------------------------------------------------
(* Results.                                                                *)

LEMMA NextKeepsThInv == ThInv /\ [Next]_vars => ThInv'
<1> SUFFICES ASSUME ThInv, [Next]_vars PROVE ThInv'
  OBVIOUS
<1>1. IInv'
  BY ThStepIsCacheStep, NextKeepsIInv DEF ThInv
<1>2. ThTypeOK'
  BY <1>1, ThStepKeepsType
<1>3. PlacesOK' /\ MadeForOpening'
  BY <1>2, ThStepKeepsPlaces, ThStepKeepsMade
<1>4. UseOK'
  BY <1>1, ThStepKeepsUse
<1>5. QueuesOK' /\ DestructorsOK'
  BY ThStepKeepsQueues, ThStepKeepsDestructors
<1> QED BY <1>1, <1>2, <1>3, <1>4, <1>5 DEF ThInv

LEMMA ThInvariant ==
  ASSUME OneThreadAtMost
  PROVE  SafetySpec => []ThInv
<1>1. Init => ThInv
  BY InitThInv
<1>2. ThInv /\ [Next]_vars => ThInv'
  BY NextKeepsThInv
<1> QED BY <1>1, <1>2, PTL DEF SafetySpec

\* Players and the pre-buffer thread are clients that keep to the contract of
\* the cache (file-handler-cache.h:37), and it has with them what it has with
\* any: among it that a handler has one owner.
THEOREM ThreadsImplementCacheClient ==
  ASSUME OneThreadAtMost
  PROVE  SafetySpec => CacheSpec
<1>1. Init => CacheInit
  BY DEF Init
<1>2. ThInv /\ [Next]_vars => [CacheNext]_cache_vars
  BY ThStepIsCacheStep
<1> QED BY <1>1, <1>2, ThInvariant, PTL DEF SafetySpec, CacheSpec

\* No handler is deleted while a player has it open, while anybody converts it,
\* or while it is queued for the pre-buffer thread; and the next file stays
\* pinned until the one before is done with it (buffer-thread.cc:56).
THEOREM ThreadsNoUseOfDeleted ==
  ASSUME OneThreadAtMost
  PROVE  SafetySpec => []NoUseOfDeleted
<1>1. ThInv => NoUseOfDeleted
  BY ThInvNoUseOfDeleted
<1> QED BY <1>1, ThInvariant, PTL

\* With the deletes outside of the cache's lock (file-handler-cache.cc:58) there
\* is no set of two threads or more that wait for each other in a circle.
THEOREM ThreadsNoCircularWait ==
  ASSUME OneThreadAtMost
  PROVE  SafetySpec => []NoCircularWait
<1>1. ThInv => NoCircularWait
  BY ThInvNoCircularWait
<1> QED BY <1>1, ThInvariant, PTL
=============================================================================
