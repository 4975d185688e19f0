---------------------------- MODULE BufferThread ----------------------------
(***************************************************************************)
(* The pre-buffer thread: buffer-thread.cc, with the threads that ask it   *)
(* for work (ConvolveFileHandler::Read) and the ones that make it forget a *)
(* buffer (~ConvolveFileHandler).                                          *)
(*                                                                         *)
(* mutex_ protects the queue and the buffer being worked on; a critical    *)
(* section is one action, and waiting on a condition variable ends it.     *)
(* Sizes count chunks of kBufferChunk bytes; what a conversion buffer does *)
(* when it is read or filled is reduced to how much is written. The worker *)
(* is the only thread that converts a buffer nobody has open.              *)
(***************************************************************************)
EXTENDS Naturals, Sequences, FiniteSets

CONSTANTS
  Buffer,       \* conversion buffers, one for every file ever opened
  Requester,    \* threads that read files
  FileEnd,      \* size of a converted file
  Ahead,        \* buffer_ahead_size_
  NoBuffer      \* NULL

ASSUME BufferThreadAssumption ==
  /\ FileEnd \in Nat \ {0}
  /\ Ahead \in Nat
  /\ NoBuffer \notin Buffer

VARIABLES
  queue,                \* queue_
  current_work_buffer,  \* current_work_buffer_
  worker,               \* where the thread is in Run()
  work,                 \* the WorkItem that Run() copied
  work_complete,        \* the local of that name
  life,                 \* life[b]: open, or where b's destructor is
  written,              \* total_written_
  max_accessed,         \* max_accessed_
  file_complete,        \* file_complete_
  requester             \* requester[r]: what r does, to which buffer

buffer_vars == <<written, max_accessed, file_complete>>
worker_vars == <<worker, work, work_complete>>
vars == <<queue, current_work_buffer, worker_vars, life, buffer_vars, requester>>

WorkItem == [buffer : Buffer, goal : Nat]
Request == [pc     : {"idle", "goal", "enqueue"},
            buffer : Buffer \cup {NoBuffer},
            goal   : Nat]
Busy == worker \in {"fill", "finish"}

TypeOK ==
  /\ queue \in Seq(WorkItem)
  /\ current_work_buffer \in Buffer \cup {NoBuffer}
  /\ worker \in {"pick", "wait", "fill", "finish"}
  /\ Busy => work \in WorkItem
  /\ work_complete \in BOOLEAN
  /\ life \in [Buffer -> {"open", "notify", "forget", "waiting", "close", "gone"}]
  /\ written \in [Buffer -> Nat]
  /\ max_accessed \in [Buffer -> Nat]
  /\ file_complete \in [Buffer -> BOOLEAN]
  /\ requester \in [Requester -> Request]

Resting == [pc |-> "idle", buffer |-> NoBuffer, goal |-> 0]

Init ==
  /\ queue = <<>>
  /\ current_work_buffer = NoBuffer
  /\ worker = "pick"
  /\ work = [buffer |-> NoBuffer, goal |-> 0]
  /\ work_complete = FALSE
  /\ life = [b \in Buffer |-> "open"]
  /\ written = [b \in Buffer |-> 0]
  /\ max_accessed = [b \in Buffer |-> 0]
  /\ file_complete = [b \in Buffer |-> FALSE]
  /\ requester = [r \in Requester |-> Resting]

-----------------------------------------------------------------------------
(* Condition variables: pthread_cond_signal wakes one waiter, if there is  *)
(* one.                                                                    *)

Waiting == {b \in Buffer : life[b] = "waiting"}

\* Mutant: whoever waits in Forget is not told.
NoPickedWorkSignal == UNCHANGED life
SignalPickedWork ==
  IF Waiting = {}
  THEN UNCHANGED life
  ELSE \E b \in Waiting : life' = [life EXCEPT ![b] = "forget"]

\* Mutant: the thread is not woken.
NoEnqueueSignal(w) == w
SignalEnqueue(w) == IF w = "wait" THEN "pick" ELSE w

-----------------------------------------------------------------------------
(* The conversion buffer, as far as this thread is concerned.              *)

Larger(a, b) == IF a < b THEN b ELSE a
Smaller(a, b) == IF a < b THEN a ELSE b

\* ConversionBuffer::FillUntil: converts unless the file is complete, and
\* finds it complete at its end.
FilledUntil(b, target) ==
  IF file_complete[b] THEN written[b]
  ELSE Larger(written[b], Smaller(target, FileEnd))

FillUntil(b, target) ==
  /\ written' = [written EXCEPT ![b] = FilledUntil(b, target)]
  /\ file_complete' =
       [file_complete EXCEPT ![b] = @ \/ FilledUntil(b, target) >= FileEnd]

-----------------------------------------------------------------------------
(* Readers: ConvolveFileHandler::Read, which asks for pre-buffering, and   *)
(* EnqueueWork, which computes its goal before it takes the lock. The       *)
(* margin behind the header is no chunk, and a skip to the end, which reads *)
(* nothing, no step.                                                       *)

ShouldRequestPrebuffer(b, horizon) ==
  horizon + Ahead > written[b] /\ ~file_complete'[b]

Read(r, b, horizon) ==
  /\ requester[r].pc = "idle"
  /\ life[b] = "open"
  /\ FillUntil(b, horizon)
  /\ max_accessed' = [max_accessed EXCEPT ![b] = Larger(@, Smaller(horizon, written'[b]))]
  /\ requester' = IF ShouldRequestPrebuffer(b, horizon)
                  THEN [requester EXCEPT
                          ![r] = [pc |-> "goal", buffer |-> b, goal |-> 0]]
                  ELSE requester
  /\ UNCHANGED <<queue, current_work_buffer, worker_vars, life>>

\* After a gapless handover the next file is pre-buffered before anybody reads
\* it. The thread that asks has it open; it may be the pre-buffer thread itself,
\* in the middle of FillChunk for the previous file.
NotifyPassedProcessorUnreferenced(r, b) ==
  /\ requester[r].pc = "idle"
  /\ life[b] = "open"
  /\ requester' = [requester EXCEPT ![r] = [pc |-> "goal", buffer |-> b, goal |-> 0]]
  /\ UNCHANGED <<queue, current_work_buffer, worker_vars, life, buffer_vars>>

Goal(b) == max_accessed[b] + Ahead

ComputeGoal(r) ==
  /\ requester[r].pc = "goal"
  /\ requester' = [requester EXCEPT
                     ![r] = [pc |-> "enqueue", buffer |-> requester[r].buffer,
                             goal |-> Goal(requester[r].buffer)]]
  /\ UNCHANGED <<queue, current_work_buffer, worker_vars, life, buffer_vars>>

\* Mutant: new work is always appended.
NeverQueued(b) == FALSE
Queued(b) == \E i \in 1 .. Len(queue) : queue[i].buffer = b

\* "Already in queue; update goal."
WithGoal(q, item) ==
  [i \in 1 .. Len(q) |-> IF q[i].buffer = item.buffer THEN item ELSE q[i]]

EnqueueWork(r) ==
  LET item == [buffer |-> requester[r].buffer, goal |-> requester[r].goal] IN
  /\ requester[r].pc = "enqueue"
  /\ IF Queued(item.buffer)
     THEN queue' = WithGoal(queue, item) /\ UNCHANGED worker
     ELSE queue' = Append(queue, item) /\ worker' = SignalEnqueue(worker)
  /\ requester' = [requester EXCEPT ![r] = Resting]
  /\ UNCHANGED <<current_work_buffer, work, work_complete, life, buffer_vars>>

-----------------------------------------------------------------------------
(* ~ConvolveFileHandler, for a file nobody has open any more.              *)

InUse(b) == \E r \in Requester : requester[r].buffer = b

Destroy(b) ==
  /\ life[b] = "open"
  /\ ~InUse(b)
  /\ life' = [life EXCEPT ![b] = "notify"]
  /\ UNCHANGED <<queue, current_work_buffer, worker_vars, buffer_vars, requester>>

NotifyFileComplete(b) ==
  /\ life[b] = "notify"
  /\ file_complete' = [file_complete EXCEPT ![b] = TRUE]
  /\ life' = [life EXCEPT ![b] = "forget"]
  /\ UNCHANGED <<queue, current_work_buffer, worker_vars, written, max_accessed,
                 requester>>

\* The loop erases every item of the buffer; there is at most one
\* (OneItemPerBuffer).
Position(q, b) == CHOOSE i \in 1 .. Len(q) : q[i].buffer = b
\* Mutant: queued work is not erased.
WithoutErasing(q, b) == q
Without(q, b) ==
  IF \E i \in 1 .. Len(q) : q[i].buffer = b
  THEN SubSeq(q, 1, Position(q, b) - 1) \o SubSeq(q, Position(q, b) + 1, Len(q))
  ELSE q

\* Mutants: Forget does not wait; it waits for any work to finish.
ForgetAtOnce(b) == FALSE
ForgetWaitsForAny(b) == current_work_buffer # NoBuffer
ForgetMustWait(b) == current_work_buffer = b

ForgetWaits(b) ==
  /\ life[b] = "forget"
  /\ ForgetMustWait(b)
  /\ life' = [life EXCEPT ![b] = "waiting"]
  /\ UNCHANGED <<queue, current_work_buffer, worker_vars, buffer_vars, requester>>

ForgetErases(b) ==
  /\ life[b] = "forget"
  /\ ~ForgetMustWait(b)
  /\ queue' = Without(queue, b)
  /\ life' = [life EXCEPT ![b] = "close"]
  /\ UNCHANGED <<current_work_buffer, worker_vars, buffer_vars, requester>>

\* pthread_cond_wait may return without a signal.
SpuriousWakeup(b) ==
  /\ life[b] = "waiting"
  /\ life' = [life EXCEPT ![b] = "forget"]
  /\ UNCHANGED <<queue, current_work_buffer, worker_vars, buffer_vars, requester>>

\* Close(), and the delete of the conversion buffer.
CloseAndDelete(b) ==
  /\ life[b] = "close"
  /\ life' = [life EXCEPT ![b] = "gone"]
  /\ UNCHANGED <<queue, current_work_buffer, worker_vars, buffer_vars, requester>>

-----------------------------------------------------------------------------
(* Run()                                                                   *)

WaitForWork ==
  /\ worker = "pick"
  /\ queue = <<>>
  /\ worker' = "wait"
  /\ UNCHANGED <<queue, current_work_buffer, work, work_complete, life,
                 buffer_vars, requester>>

SpuriousEnqueueEvent ==
  /\ worker = "wait"
  /\ worker' = "pick"
  /\ UNCHANGED <<queue, current_work_buffer, work, work_complete, life,
                 buffer_vars, requester>>

PickWork ==
  /\ worker = "pick"
  /\ queue # <<>>
  /\ work' = Head(queue)
  /\ current_work_buffer' = Head(queue).buffer
  /\ SignalPickedWork
  /\ worker' = "fill"
  /\ UNCHANGED <<queue, work_complete, buffer_vars, requester>>

\* Outside the lock, and with the goal as it was when the work was picked.
FillChunk ==
  /\ worker = "fill"
  /\ FillUntil(work.buffer, written[work.buffer] + 1)
  /\ work_complete' = \/ file_complete'[work.buffer]
                      \/ written'[work.buffer] >= work.goal
  /\ worker' = "finish"
  /\ UNCHANGED <<queue, current_work_buffer, work, life, max_accessed, requester>>

\* The item goes to the end of the queue if there is more work to do on it.
Rotated(q) == Tail(IF work_complete THEN q ELSE Append(q, Head(q)))

FinishWork ==
  /\ worker = "finish"
  /\ queue' = Rotated(queue)
  /\ current_work_buffer' = NoBuffer
  /\ SignalPickedWork
  /\ worker' = "pick"
  /\ UNCHANGED <<work, work_complete, buffer_vars, requester>>

Run == WaitForWork \/ PickWork \/ FillChunk \/ FinishWork

Destructor(b) ==
  NotifyFileComplete(b) \/ ForgetWaits(b) \/ ForgetErases(b) \/ CloseAndDelete(b)

Next ==
  \/ Run
  \/ SpuriousEnqueueEvent
  \/ \E r \in Requester :
       \/ \E b \in Buffer, horizon \in 1 .. FileEnd : Read(r, b, horizon)
       \/ \E b \in Buffer : NotifyPassedProcessorUnreferenced(r, b)
       \/ ComputeGoal(r)
       \/ EnqueueWork(r)
  \/ \E b \in Buffer : Destroy(b) \/ Destructor(b) \/ SpuriousWakeup(b)

SafetySpec == Init /\ [][Next]_vars

\* Threads are scheduled and get mutex_ in the end. Nobody has to read, to
\* close a file or to wake up without a signal.
Spec ==
  /\ SafetySpec
  /\ WF_vars(Run)
  /\ \A b \in Buffer : WF_vars(Destructor(b))
  /\ \A r \in Requester : WF_vars(ComputeGoal(r) \/ EnqueueWork(r))

-----------------------------------------------------------------------------
(* Properties.                                                             *)

\* The assertion of Run (buffer-thread.cc:95): while the thread was filling
\* without the lock, nobody moved the item it works on from the front, though
\* others enqueue, update goals and forget in between.
FrontIsCurrent ==
  Busy => /\ queue # <<>>
          /\ Head(queue).buffer = current_work_buffer
          /\ work.buffer = current_work_buffer

\* A buffer is queued once however many threads ask for it
\* (buffer-thread.cc:40); with two items, Forget could leave one behind.
OneItemPerBuffer ==
  \A i, j \in 1 .. Len(queue) : queue[i].buffer = queue[j].buffer => i = j

\* "stop working on our files ... so that we can close them"
\* (convolve-file-handler.cc:97): once Forget has returned, the thread neither
\* touches the buffer nor will find it in its queue.
Forgotten(b) == life[b] \in {"close", "gone"}
NoUseAfterFree ==
  /\ Busy => ~Forgotten(work.buffer)
  /\ \A i \in 1 .. Len(queue) : ~Forgotten(queue[i].buffer)

\* Who waits, waits for the buffer being worked on. So no wakeup is lost, and
\* pthread_cond_signal does where several threads may be in Forget.
WaitersWaitForCurrent == \A b \in Waiting : b = current_work_buffer

\* The thread does not sleep while there is work (buffer-thread.cc:50, 79).
NoSleepOnWork == worker = "wait" => queue = <<>>

\* Closing a file ends: Forget returns, however much work is queued.
ForgetReturns == \A b \in Buffer : (life[b] = "notify") ~> (life[b] = "gone")

\* "we can round-robin through all work scheduled" (buffer-thread.cc:88):
\* no queued buffer is passed over for ever.
EveryoneGetsATurn ==
  \A b \in Buffer : Queued(b) ~> (current_work_buffer = b \/ ~Queued(b))
=============================================================================
