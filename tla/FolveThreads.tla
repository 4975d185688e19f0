---------------------------- MODULE FolveThreads ----------------------------
(***************************************************************************)
(* All locks of folve together: players that open, read and release files, *)
(* and the pre-buffer thread, over the cache of FileHandlerCache. What is  *)
(* composed here is the circle                                             *)
(*                                                                         *)
(*   FillUntil -> AddMoreSoundData -> GetOrCreateHandler(next file)        *)
(*     -> ~ConvolveFileHandler of an evicted file                          *)
(*     -> NotifyFileComplete and BufferThread::Forget,                     *)
(*                                                                         *)
(* which is run with the mutex_ of a ConversionBuffer held, and in which a *)
(* thread may wait for that of another buffer or for the pre-buffer thread.*)
(*                                                                         *)
(* Filters do not change here, playback is gapless, and a key is the place *)
(* of a file in its directory. Goals, positions and condition variables    *)
(* are left to BufferThread and ConversionBuffer.                          *)
(***************************************************************************)
EXTENDS FileHandlerCache, Sequences, SequencesExt

CONSTANTS
  Player,        \* threads of players; each has at most one file open
  PreBuffer,     \* BufferThread objects, started or not
  NoHandler,     \* NULL
  NoThread,      \* NULL
  InitialThread  \* what buffer_thread_ may be at first

ASSUME ThreadsAssumption ==
  /\ Caller = Player \cup PreBuffer
  /\ Player \cap PreBuffer = {}
  /\ Key \subseteq Nat /\ Key # {}
  /\ \A h \in Handler : h[1] \in Key   \* <<file, serial number>>
  /\ NoHandler \notin Handler
  /\ NoThread \notin Caller
  /\ InitialThread \subseteq PreBuffer \cup {NoThread}

VARIABLES
  pc,             \* pc[c]: where thread c is: idle (or off, not started), in
                  \* the steps of an open (find, create, insert), of a fill
                  \* (fill, passover, unpin, complete), of a request for more
                  \* (request, start, enqueue), or behind one (again, drop)
  handle,         \* handle[p]: the file p has open
  opening,        \* opening[c]: the key c is opening, or the next file's
  filling,        \* filling[c]: the buffer whose mutex_ c holds in FillUntil
  destructor,     \* destructor[c]: how far c is in a ~ConvolveFileHandler
  file_complete,  \* handlers whose output buffer is complete
  started,        \* handlers whose HasStarted() holds
  buffer_thread,  \* buffer_thread_
  queue,          \* queue[w]: the handlers whose buffers are in w's queue_
  current         \* current[w]: the one being worked on

buffer_vars == <<file_complete, started>>
thread_vars == <<buffer_thread, queue, current>>
vars == <<cache_vars, pc, handle, opening, filling, destructor, buffer_vars,
          thread_vars>>

FileOf(h) == h[1]

Init ==
  /\ CacheInit
  /\ buffer_thread \in InitialThread
  /\ pc = [c \in Caller |-> IF c \in Player \cup {buffer_thread} THEN "idle" ELSE "off"]
  /\ handle = [p \in Player |-> NoHandler]
  /\ opening = [c \in Caller |-> CHOOSE k \in Key : TRUE]
  /\ filling = [c \in Caller |-> NoHandler]
  /\ destructor = [c \in Caller |-> "notify"]
  /\ file_complete = {}
  /\ started = {}
  /\ queue = [w \in PreBuffer |-> <<>>]
  /\ current = [w \in PreBuffer |-> NoHandler]

-----------------------------------------------------------------------------
(* Where a thread is. An operation on the next file is nested in FillUntil *)
(* if the thread holds the mutex_ of a buffer.                             *)

\* What a thread erased it deletes before it does anything else.
At(c, place) == pc[c] = place /\ Ready(c)
Goto(c, place) == pc' = [pc EXCEPT ![c] = place]
Nested(c) == filling[c] # NoHandler

\* The buffer FillUntil and RequestPrebuffer are called for.
FillTarget(c) == IF c \in Player THEN handle[c] ELSE current[c]
PrebufferTarget(c) == IF Nested(c) THEN cache[opening[c]].handler ELSE handle[c]

\* Who holds the mutex_ of h's buffer.
Holds(c, h) == filling[c] = h
Unlocked(h) == \A c \in Caller : ~Holds(c, h)

\* The threads that keep the cache's mutex_ while they delete: none, deletes
\* are "done outside of the lock".
\* Mutant: what the comment at file-handler-cache.cc:58 warns of.
KeepsMutexToDelete(c) == to_delete[c] # {}
KeepsMutex(c) == FALSE
CacheUnlocked(c) == \A d \in Caller \ {c} : ~KeepsMutex(d)

-----------------------------------------------------------------------------
(* FolveFilesystem::GetOrCreateHandler, by a player or nested.             *)

Open(p, k) ==
  /\ At(p, "idle")
  /\ p \in Player
  /\ handle[p] = NoHandler
  /\ opening' = [opening EXCEPT ![p] = k]
  /\ Goto(p, "find")
  /\ UNCHANGED <<cache_vars, handle, filling, destructor, buffer_vars, thread_vars>>

\* The handler h has been obtained: a player has it open, or it is the next file.
Obtain(c, h) ==
  /\ Goto(c, IF Nested(c) THEN "passover" ELSE "idle")
  /\ handle' = IF Nested(c) THEN handle ELSE [handle EXCEPT ![c] = h]

Find(c) ==
  LET k == opening[c] IN
  /\ At(c, "find")
  /\ CacheUnlocked(c)
  /\ \/ /\ FindAndPinMiss(c, k) \/ FindAndPinReplace(c, k, Nested(c))
        /\ Goto(c, "create")
        /\ UNCHANGED handle
     \/ FindAndPinHit(c, k, Nested(c)) /\ Obtain(c, cache[k].handler)
  /\ UNCHANGED <<opening, filling, destructor, buffer_vars, thread_vars>>

\* open() fails: the player gets an error, or there is no next file.
OpenFails(c) ==
  /\ At(c, "create")
  /\ Goto(c, IF Nested(c) THEN "complete" ELSE "idle")
  /\ UNCHANGED <<cache_vars, handle, opening, filling, destructor, buffer_vars,
                 thread_vars>>

Create(c, h) ==
  /\ At(c, "create")
  /\ FileOf(h) = opening[c]
  /\ Construct(c, h)
  /\ Goto(c, "insert")
  /\ UNCHANGED <<handle, opening, filling, destructor, buffer_vars, thread_vars>>

Insert(c, h) ==
  /\ At(c, "insert")
  /\ CacheUnlocked(c)
  /\ InsertPinned(c, opening[c], h)
  /\ Obtain(c, cache'[opening[c]].handler)
  /\ UNCHANGED <<opening, filling, destructor, buffer_vars, thread_vars>>

Release(p) ==
  /\ At(p, "idle")
  /\ p \in Player
  /\ handle[p] # NoHandler
  /\ CacheUnlocked(p)
  /\ Unpin(p, FileOf(handle[p]))
  /\ handle' = [handle EXCEPT ![p] = NoHandler]
  /\ UNCHANGED <<pc, opening, filling, destructor, buffer_vars, thread_vars>>

-----------------------------------------------------------------------------
(* ConversionBuffer::FillUntil. It asks for sound with its mutex_ held, but *)
(* as long as this is all from its own file, nobody can tell that from one *)
(* step.                                                                   *)

Read(p) ==
  /\ At(p, "idle")
  /\ p \in Player
  /\ handle[p] # NoHandler
  /\ Goto(p, "fill")
  /\ UNCHANGED <<cache_vars, handle, opening, filling, destructor, buffer_vars,
                 thread_vars>>

\* A read may be followed by a request to pre-buffer; the pre-buffer thread
\* drops work when the buffer is complete or its goal is reached.
AfterFill(c, complete) ==
  IF c \in Player
  THEN {"idle"} \cup (IF complete THEN {} ELSE {"request"})
  ELSE {"drop"} \cup (IF complete THEN {} ELSE {"again"})

\* All sound that is needed is there, or is made from this file, perhaps until
\* its end.
FillUntil(c) ==
  LET h == FillTarget(c) IN
  /\ At(c, "fill")
  /\ Unlocked(h)
  /\ \/ UNCHANGED buffer_vars
     \/ /\ h \notin file_complete
        /\ started' = started \cup {h}
        /\ file_complete' \in {file_complete, file_complete \cup {h}}
  /\ \E place \in AfterFill(c, h \in file_complete') : Goto(c, place)
  /\ UNCHANGED <<cache_vars, handle, opening, filling, destructor, thread_vars>>

\* The file ends in the middle of a fragment, and there is a next one.
AddMoreSoundData(c) ==
  LET h == FillTarget(c) IN
  /\ At(c, "fill")
  /\ Unlocked(h)
  /\ h \notin file_complete
  /\ FileOf(h) + 1 \in Key
  /\ started' = started \cup {h}
  /\ filling' = [filling EXCEPT ![c] = h]
  /\ opening' = [opening EXCEPT ![c] = FileOf(h) + 1]
  /\ Goto(c, "find")
  /\ UNCHANGED <<cache_vars, handle, destructor, file_complete, thread_vars>>

\* It accepts the processor unless it is being converted, or its filter is
\* another one than the processor's.
PassoverProcessor(c) ==
  LET next == cache[opening[c]].handler IN
  /\ At(c, "passover")
  /\ \/ /\ next \notin started
        /\ started' = started \cup {next}
        /\ in_gapless' = in_gapless \cup {next}
        /\ Goto(c, "request")
     \/ /\ Goto(c, "unpin")
        /\ UNCHANGED <<started, in_gapless>>
  /\ UNCHANGED <<cache, alive, created, to_delete, now, handle, opening, filling,
                 destructor, file_complete, thread_vars>>

CloseNext(c) ==
  /\ At(c, "unpin")
  /\ CacheUnlocked(c)
  /\ Unpin(c, opening[c])
  /\ Goto(c, "complete")
  /\ UNCHANGED <<handle, opening, filling, destructor, buffer_vars, thread_vars>>

\* AddMoreSoundData says that this was all, and FillUntil returns.
\* Mutant: this way out of FillUntil does not release the mutex.
NotUnlocking(c) == filling
Unlocking(c) == [filling EXCEPT ![c] = NoHandler]

FillComplete(c) ==
  /\ At(c, "complete")
  /\ file_complete' = file_complete \cup {filling[c]}
  /\ filling' = Unlocking(c)
  /\ \E place \in AfterFill(c, TRUE) : Goto(c, place)
  /\ UNCHANGED <<cache_vars, handle, opening, destructor, started, thread_vars>>

-----------------------------------------------------------------------------
(* FolveFilesystem::RequestPrebuffer, without a lock: the thread is started *)
(* if there is none.                                                       *)

RequestPrebuffer(c) ==
  /\ At(c, "request")
  /\ Goto(c, IF buffer_thread = NoThread THEN "start" ELSE "enqueue")
  /\ UNCHANGED <<cache_vars, handle, opening, filling, destructor, buffer_vars,
                 thread_vars>>

StartThread(c, w) ==
  /\ At(c, "start")
  /\ pc[w] = "off"
  /\ buffer_thread' = w
  /\ pc' = [pc EXCEPT ![c] = "enqueue", ![w] = "idle"]
  /\ UNCHANGED <<cache_vars, handle, opening, filling, destructor, buffer_vars,
                 queue, current>>

EnqueueWork(c) ==
  LET h == PrebufferTarget(c) IN
  /\ At(c, "enqueue")
  /\ queue' = [queue EXCEPT ![buffer_thread] =
                 IF Contains(@, h) THEN @ ELSE Append(@, h)]
  /\ Goto(c, IF Nested(c) THEN "unpin" ELSE "idle")
  /\ UNCHANGED <<cache_vars, handle, opening, filling, destructor, buffer_vars,
                 buffer_thread, current>>

-----------------------------------------------------------------------------
(* BufferThread::Run.                                                      *)

PickWork(w) ==
  /\ At(w, "idle")
  /\ w \in PreBuffer
  /\ queue[w] # <<>>
  /\ current' = [current EXCEPT ![w] = Head(queue[w])]
  /\ Goto(w, "fill")
  /\ UNCHANGED <<cache_vars, handle, opening, filling, destructor, buffer_vars,
                 buffer_thread, queue>>

FinishWork(w) ==
  /\ \/ At(w, "drop") /\ queue' = [queue EXCEPT ![w] = Tail(@)]
     \/ At(w, "again") /\ queue' = [queue EXCEPT ![w] = Append(Tail(@), Head(@))]
  /\ current' = [current EXCEPT ![w] = NoHandler]
  /\ Goto(w, "idle")
  /\ UNCHANGED <<cache_vars, handle, opening, filling, destructor, buffer_vars,
                 buffer_thread>>

-----------------------------------------------------------------------------
(* ~ConvolveFileHandler, of a handler a cache operation erased.            *)

NotifyFileComplete(c, h) ==
  /\ h \in to_delete[c]
  /\ destructor[c] = "notify"
  /\ Unlocked(h)
  /\ file_complete' = file_complete \cup {h}
  /\ destructor' = [destructor EXCEPT ![c] = "forget"]
  /\ UNCHANGED <<cache_vars, pc, handle, opening, filling, started, thread_vars>>

\* Forget waits while the thread works on the buffer.
MustWait(h) == buffer_thread # NoThread /\ current[buffer_thread] = h

\* Mutant: queued work is left behind.
WorkKept(q, h) == q
WorkForgotten(q, h) == RemoveFirst(q, h)   \* there is one at most

QuitBuffering(c, h) ==
  /\ h \in to_delete[c]
  /\ destructor[c] = "forget"
  /\ ~MustWait(h)
  /\ queue' = IF buffer_thread = NoThread
              THEN queue
              ELSE [queue EXCEPT ![buffer_thread] = WorkForgotten(@, h)]
  /\ destructor' = [destructor EXCEPT ![c] = "delete"]
  /\ UNCHANGED <<cache_vars, pc, handle, opening, filling, buffer_vars,
                 buffer_thread, current>>

DeleteHandler(c, h) ==
  /\ destructor[c] = "delete"
  /\ DeleteErased(c, h)
  /\ file_complete' = file_complete \ {h}
  /\ started' = started \ {h}
  /\ destructor' = [destructor EXCEPT ![c] = "notify"]
  /\ UNCHANGED <<pc, handle, opening, filling, thread_vars>>

Destroy(c) ==
  \E h \in to_delete[c] :
    NotifyFileComplete(c, h) \/ QuitBuffering(c, h) \/ DeleteHandler(c, h)

-----------------------------------------------------------------------------

\* The rest of a call that has begun.
Proceed(c) ==
  \/ Find(c)
  \/ OpenFails(c)
  \/ \E h \in Handler : Create(c, h) \/ Insert(c, h)
  \/ FillUntil(c)
  \/ AddMoreSoundData(c)
  \/ PassoverProcessor(c)
  \/ RequestPrebuffer(c)
  \/ \E w \in PreBuffer : StartThread(c, w)
  \/ EnqueueWork(c)
  \/ CloseNext(c)
  \/ FillComplete(c)
  \/ Destroy(c)

Run(w) == Proceed(w) \/ PickWork(w) \/ FinishWork(w)

Next ==
  \/ \E p \in Player : Proceed(p) \/ Read(p) \/ Release(p) \/ \E k \in Key : Open(p, k)
  \/ \E w \in PreBuffer : Run(w)

SafetySpec == Init /\ [][Next]_vars

\* A call that has begun goes on, and so does the pre-buffer thread; a mutex that
\* becomes free again and again is obtained in the end. Nobody has to call.
Spec ==
  /\ SafetySpec
  /\ \A p \in Player : SF_vars(Proceed(p))
  /\ \A w \in PreBuffer : SF_vars(Run(w))

-----------------------------------------------------------------------------
(* Who waits for whom: for the mutex_ of a buffer, for the pre-buffer      *)
(* thread to leave a buffer, for the cache.                                *)

WantsLock(c, h) ==
  \/ At(c, "fill") /\ h = FillTarget(c)
  \/ h \in to_delete[c] /\ destructor[c] = "notify"
WaitsToForget(c, w) ==
  /\ destructor[c] = "forget"
  /\ w = buffer_thread
  /\ \E h \in to_delete[c] : MustWait(h)
WaitsForCache(c, d) ==
  /\ c # d
  /\ KeepsMutex(d)
  /\ \E place \in {"find", "insert", "unpin"} : At(c, place)
WaitsFor(c, d) ==
  \/ \E h \in Handler : WantsLock(c, h) /\ Holds(d, h)
  \/ WaitsToForget(c, d)
  \/ WaitsForCache(c, d)
BlockedByItself(c) == WaitsFor(c, c)

\* "Items that are to be deleted need to be deleted ouside of the lock,
\* otherwise there is a chance of a deadlock in the gapless case"
\* (file-handler-cache.cc:58): with the deletes where they are, there is no set
\* of threads each of which waits for another one of them, although a thread
\* that holds the mutex of a buffer waits for others, and for the pre-buffer
\* thread.
NoCircularWait ==
  \A S \in (SUBSET Caller) \ {{}} : \E c \in S : \A d \in S \ {c} : ~WaitsFor(c, d)

\* No thread waits for itself, either: "Non-recursive Mutex" (util.h:53).
NeverWaitsForItself == \A c \in Caller : ~BlockedByItself(c)

\* Handlers that somebody will use: players' open files, what is being
\* converted, the next file while it is passed a processor, work of the
\* pre-buffer threads.
NextFileObtained(c) ==
  Nested(c) /\ pc[c] \in {"passover", "request", "start", "enqueue", "unpin"}
InUse ==
  {handle[p] : p \in Player} \cup {filling[c] : c \in Caller}
    \cup {current[w] : w \in PreBuffer}
    \cup UNION {ToSet(queue[w]) : w \in PreBuffer}

\* "wait until that is gone to not delete conversion buffer being accessed"
\* (buffer-thread.cc:56): whoever erased a handler, and however far other threads
\* are in using it, it is not deleted before they are done; and the next file
\* stays pinned until the one before it is done with it.
NoUseOfDeleted ==
  /\ InUse \subseteq alive \cup {NoHandler}
  /\ \A c \in Caller :
       NextFileObtained(c) =>
         opening[c] \in DOMAIN cache /\ cache[opening[c]].references > 0

Erased(h) == \E c \in Caller : h \in to_delete[c]
SomebodyIsBlocked == \E c \in Caller : BlockedByItself(c)

\* A handler erased is deleted, whatever its destructor has to wait for, unless
\* the pre-buffer thread has blocked itself.
ErasedIsDeleted ==
  \A h \in Handler : Erased(h) ~> (~Erased(h) \/ SomebodyIsBlocked)

\* Every call of a player returns, with the same exception.
CallsReturn ==
  \A p \in Player : ~At(p, "idle") ~> (At(p, "idle") \/ SomebodyIsBlocked)
=============================================================================
