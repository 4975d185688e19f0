------------------------- MODULE BufferThread_proofs -------------------------
(***************************************************************************)
(* Proofs of the safety of the pre-buffer thread for any number of buffers *)
(* and readers, and any file size.                                         *)
(***************************************************************************)
EXTENDS BufferThread, SequenceTheorems, TLAPS

\* A reader that has read and not yet enqueued keeps its file open.
RequestersKeepOpen ==
  \A r \in Requester :
    requester[r].pc # "idle" => /\ requester[r].buffer \in Buffer
                                /\ life[requester[r].buffer] = "open"

\* The invariant: that the thread never works on a forgotten buffer needs that
\* its work is at the front of the queue and is the current buffer, which is
\* what Forget looks at; and that nothing enqueues a closed file.
IInv ==
  /\ TypeOK
  /\ FrontIsCurrent
  /\ OneItemPerBuffer
  /\ NoUseAfterFree
  /\ WaitersWaitForCurrent
  /\ NoSleepOnWork
  /\ RequestersKeepOpen
  /\ ~Busy => current_work_buffer = NoBuffer

-----------------------------------------------------------------------------
(* The queue.                                                              *)

OnePerBuffer(q) == \A i, j \in 1 .. Len(q) : q[i].buffer = q[j].buffer => i = j

\* An updated goal changes neither whose items are queued nor their order.
LEMMA WithGoalKeepsBuffers ==
  ASSUME NEW q \in Seq(WorkItem), NEW item \in WorkItem
  PROVE  /\ WithGoal(q, item) \in Seq(WorkItem)
         /\ Len(WithGoal(q, item)) = Len(q)
         /\ \A i \in 1 .. Len(q) : WithGoal(q, item)[i].buffer = q[i].buffer
<1>1. WithGoal(q, item) \in [1 .. Len(q) -> WorkItem]
  BY DEF WithGoal
<1>2. Len(q) \in Nat
  OBVIOUS
<1>3. WithGoal(q, item) \in Seq(WorkItem) /\ Len(WithGoal(q, item)) = Len(q)
  BY <1>1, <1>2
<1>4. \A i \in 1 .. Len(q) : WithGoal(q, item)[i].buffer = q[i].buffer
  BY DEF WithGoal
<1> QED BY <1>3, <1>4

\* Erasing the item of a buffer takes out that item and moves up those behind.
LEMMA WithoutElements ==
  ASSUME NEW q \in Seq(WorkItem), NEW b,
         NEW p \in 1 .. Len(q), p = Position(q, b), q[p].buffer = b
  PROVE  /\ Without(q, b) \in Seq(WorkItem)
         /\ Len(Without(q, b)) = Len(q) - 1
         /\ \A i \in 1 .. Len(q) - 1 :
              Without(q, b)[i] = IF i < p THEN q[i] ELSE q[i + 1]
<1>1. Without(q, b) = SubSeq(q, 1, p - 1) \o SubSeq(q, p + 1, Len(q))
  BY DEF Without
<1> DEFINE front == SubSeq(q, 1, p - 1)
           back  == SubSeq(q, p + 1, Len(q))
<1>2. /\ front \in Seq(WorkItem)
      /\ Len(front) = p - 1
      /\ \A i \in 1 .. p - 1 : front[i] = q[i]
  OBVIOUS
<1>3. /\ back \in Seq(WorkItem)
      /\ Len(back) = Len(q) - p
      /\ \A i \in 1 .. Len(q) - p : back[i] = q[p + i]
  OBVIOUS
<1> HIDE DEF front, back
<1>4. /\ front \o back \in Seq(WorkItem)
      /\ Len(front \o back) = Len(q) - 1
  BY <1>2, <1>3
<1>5. \A i \in 1 .. Len(q) - 1 :
        (front \o back)[i] = IF i < p THEN q[i] ELSE q[i + 1]
  <2> SUFFICES ASSUME NEW i \in 1 .. Len(q) - 1
               PROVE  (front \o back)[i] = IF i < p THEN q[i] ELSE q[i + 1]
    OBVIOUS
  <2>1. CASE i < p
    BY <1>2, <1>3, <2>1
  <2>2. CASE ~(i < p)
    <3>1. i - (p - 1) \in 1 .. Len(q) - p /\ p + (i - (p - 1)) = i + 1
      BY <2>2
    <3>2. i \in 1 .. Len(front) + Len(back) /\ ~(i <= Len(front))
      BY <1>2, <1>3, <2>2
    <3>3. (front \o back)[i] = back[i - Len(front)]
      BY <1>2, <1>3, <3>2, ConcatProperties
    <3>4. back[i - Len(front)] = q[i + 1]
      BY <1>2, <1>3, <3>1
    <3> QED BY <2>2, <3>3, <3>4
  <2> QED BY <2>1, <2>2
<1>6. Without(q, b) = front \o back
  BY <1>1 DEF front, back
<1> QED BY <1>4, <1>5, <1>6

\* What Forget makes of a queue with one item per buffer.
LEMMA WithoutForgets ==
  ASSUME NEW q \in Seq(WorkItem), NEW b, OnePerBuffer(q)
  PROVE  /\ Without(q, b) \in Seq(WorkItem)
         /\ OnePerBuffer(Without(q, b))
         /\ \A i \in 1 .. Len(Without(q, b)) :
              /\ Without(q, b)[i].buffer # b
              /\ \E j \in 1 .. Len(q) : Without(q, b)[i] = q[j]
         /\ q # <<>> /\ Head(q).buffer # b =>
              Without(q, b) # <<>> /\ Head(Without(q, b)) = Head(q)
         /\ q = <<>> => Without(q, b) = <<>>
<1>1. CASE \A i \in 1 .. Len(q) : q[i].buffer # b
  BY <1>1 DEF Without
<1>2. CASE \E i \in 1 .. Len(q) : q[i].buffer = b
  <2>1. PICK p \in 1 .. Len(q) : p = Position(q, b) /\ q[p].buffer = b
    BY <1>2 DEF Position
  <2> DEFINE w == Without(q, b)
  <2>2. /\ w \in Seq(WorkItem)
        /\ Len(w) = Len(q) - 1
        /\ \A i \in 1 .. Len(q) - 1 : w[i] = IF i < p THEN q[i] ELSE q[i + 1]
    BY <2>1, WithoutElements
  <2> HIDE DEF w
  <2>3. \A i \in 1 .. Len(w) : w[i].buffer # b /\ \E j \in 1 .. Len(q) : w[i] = q[j]
    <3> SUFFICES ASSUME NEW i \in 1 .. Len(w)
                 PROVE  w[i].buffer # b /\ \E j \in 1 .. Len(q) : w[i] = q[j]
      OBVIOUS
    <3>1. CASE i < p
      BY <2>1, <2>2, <3>1 DEF OnePerBuffer
    <3>2. CASE ~(i < p)
      BY <2>1, <2>2, <3>2 DEF OnePerBuffer
    <3> QED BY <3>1, <3>2
  <2>4. OnePerBuffer(w)
    <3> SUFFICES ASSUME NEW i \in 1 .. Len(w), NEW j \in 1 .. Len(w),
                        w[i].buffer = w[j].buffer
                 PROVE  i = j
      BY DEF OnePerBuffer
    <3> DEFINE at(k) == IF k < p THEN k ELSE k + 1
    <3>1. at(i) \in 1 .. Len(q) /\ at(j) \in 1 .. Len(q)
      BY <2>2
    <3>2. w[i] = q[at(i)] /\ w[j] = q[at(j)]
      BY <2>2
    <3>3. at(i) = at(j)
      BY <3>1, <3>2 DEF OnePerBuffer
    <3> QED BY <2>2, <3>3
  <2>5. q # <<>> /\ Head(q).buffer # b => w # <<>> /\ Head(w) = Head(q)
    BY <2>1, <2>2
  <2>6. q = <<>> => w = <<>>
    BY <2>1
  <2> QED BY <2>2, <2>3, <2>4, <2>5, <2>6 DEF w
<1> QED BY <1>1, <1>2

\* What the end of a turn makes of it: the items behind move up, the first
\* goes to the end or away.
LEMMA RotatedElements ==
  ASSUME NEW q \in Seq(WorkItem), q # <<>>, OnePerBuffer(q)
  PROVE  /\ Rotated(q) \in Seq(WorkItem)
         /\ OnePerBuffer(Rotated(q))
         /\ \A i \in 1 .. Len(Rotated(q)) :
              \E j \in 1 .. Len(q) : Rotated(q)[i] = q[j]
<1>1. CASE work_complete
  <2>1. /\ Rotated(q) \in Seq(WorkItem)
        /\ Len(Rotated(q)) = Len(q) - 1
        /\ \A i \in 1 .. Len(q) - 1 : Rotated(q)[i] = q[i + 1]
    BY <1>1 DEF Rotated
  <2> QED BY <2>1 DEF OnePerBuffer
<1>2. CASE ~work_complete
  <2> DEFINE r == Append(q, Head(q))
  <2>1. /\ r \in Seq(WorkItem)
        /\ Len(r) = Len(q) + 1
        /\ \A i \in 1 .. Len(q) : r[i] = q[i]
        /\ r[Len(q) + 1] = q[1]
    OBVIOUS
  <2> HIDE DEF r
  <2>2. /\ Tail(r) \in Seq(WorkItem)
        /\ Len(Tail(r)) = Len(q)
        /\ \A i \in 1 .. Len(q) : Tail(r)[i] = r[i + 1]
    BY <2>1
  <2>3. Rotated(q) = Tail(r)
    BY <1>2 DEF Rotated, r
  <2>4. \A i \in 1 .. Len(q) :
          Rotated(q)[i] = q[IF i = Len(q) THEN 1 ELSE i + 1]
    BY <2>1, <2>2, <2>3
  <2>5. \A i \in 1 .. Len(q) : (IF i = Len(q) THEN 1 ELSE i + 1) \in 1 .. Len(q)
    OBVIOUS
  <2>6. OnePerBuffer(Rotated(q))
    <3> SUFFICES ASSUME NEW i \in 1 .. Len(q), NEW j \in 1 .. Len(q),
                        Rotated(q)[i].buffer = Rotated(q)[j].buffer
                 PROVE  i = j
      BY <2>2, <2>3 DEF OnePerBuffer
    <3>1. (IF i = Len(q) THEN 1 ELSE i + 1) = (IF j = Len(q) THEN 1 ELSE j + 1)
      BY <2>4, <2>5 DEF OnePerBuffer
    <3> QED BY <3>1
  <2> QED BY <2>2, <2>3, <2>4, <2>5, <2>6
<1> QED BY <1>1, <1>2

-----------------------------------------------------------------------------
(* Each step preserves the invariant.                                      *)

LEMMA QueuedBuffers ==
  ASSUME TypeOK
  PROVE  \A i \in 1 .. Len(queue) : queue[i].buffer \in Buffer
<1>1. \A i \in 1 .. Len(queue) : queue[i] \in WorkItem
  BY DEF TypeOK
<1> QED BY <1>1 DEF WorkItem

LEMMA InitIInv == Init => IInv
<1> SUFFICES ASSUME Init PROVE IInv
  OBVIOUS
<1>1. TypeOK
  <2>1. queue \in Seq(WorkItem) /\ ~Busy
    BY DEF Init, Busy
  <2>2. requester \in [Requester -> Request]
    BY DEF Init, Resting, Request
  <2> QED BY <2>1, <2>2 DEF Init, TypeOK
<1>2. queue = <<>> /\ ~Busy /\ Waiting = {} /\ worker # "wait"
  BY DEF Init, Busy, Waiting
<1>3. RequestersKeepOpen
  BY DEF Init, RequestersKeepOpen, Resting
<1>4. NoUseAfterFree /\ OneItemPerBuffer
  BY <1>2 DEF NoUseAfterFree, OneItemPerBuffer
<1> QED
  BY <1>1, <1>2, <1>3, <1>4
  DEF Init, IInv, FrontIsCurrent, WaitersWaitForCurrent, NoSleepOnWork

\* Filling a buffer keeps the types of the sizes.
LEMMA FillUntilType ==
  ASSUME TypeOK, NEW b \in Buffer, NEW target \in Nat, FillUntil(b, target)
  PROVE  /\ written' \in [Buffer -> Nat]
         /\ file_complete' \in [Buffer -> BOOLEAN]
<1>1. FilledUntil(b, target) \in Nat
  BY BufferThreadAssumption DEF TypeOK, FilledUntil, Larger, Smaller
<1> QED BY <1>1 DEF FillUntil, TypeOK

LEMMA ReadKeepsIInv ==
  ASSUME IInv, NEW r \in Requester, NEW b \in Buffer, NEW horizon \in 1 .. FileEnd,
         Read(r, b, horizon)
  PROVE  IInv'
<1> USE DEF IInv
<1>1. /\ UNCHANGED <<queue, current_work_buffer, worker, work, work_complete, life>>
      /\ life[b] = "open"
      /\ \/ requester' = requester
         \/ requester' = [requester EXCEPT
                            ![r] = [pc |-> "goal", buffer |-> b, goal |-> 0]]
  BY DEF Read, worker_vars
<1>2. TypeOK'
  <2>1. horizon \in Nat
    BY BufferThreadAssumption
  <2>2. written' \in [Buffer -> Nat] /\ file_complete' \in [Buffer -> BOOLEAN]
    BY <2>1, FillUntilType DEF Read
  <2>3. Larger(max_accessed[b], Smaller(horizon, written'[b])) \in Nat
    BY <2>1, <2>2 DEF TypeOK, Larger, Smaller
  <2>4. max_accessed' \in [Buffer -> Nat]
    BY <2>3 DEF Read, TypeOK
  <2>5. [pc |-> "goal", buffer |-> b, goal |-> 0] \in Request
    BY DEF Request
  <2>6. requester' \in [Requester -> Request]
    BY <1>1, <2>5 DEF TypeOK
  <2> QED BY <1>1, <2>2, <2>4, <2>6 DEF TypeOK, Busy
<1>3. RequestersKeepOpen'
  <2> SUFFICES ASSUME NEW s \in Requester, requester'[s].pc # "idle"
               PROVE  /\ requester'[s].buffer \in Buffer
                      /\ life'[requester'[s].buffer] = "open"
    BY DEF RequestersKeepOpen
  <2>1. CASE requester'[s] = requester[s]
    BY <1>1, <2>1 DEF RequestersKeepOpen
  <2>2. CASE requester'[s] = [pc |-> "goal", buffer |-> b, goal |-> 0]
    BY <1>1, <2>2
  <2> QED BY <1>1, <2>1, <2>2 DEF TypeOK
<1> QED
  BY <1>1, <1>2, <1>3
  DEF FrontIsCurrent, OneItemPerBuffer, NoUseAfterFree, Forgotten,
      WaitersWaitForCurrent, Waiting, NoSleepOnWork, Busy

LEMMA NotifyPassedKeepsIInv ==
  ASSUME IInv, NEW r \in Requester, NEW b \in Buffer,
         NotifyPassedProcessorUnreferenced(r, b)
  PROVE  IInv'
<1> USE DEF IInv
<1>1. /\ UNCHANGED <<queue, current_work_buffer, worker, work, work_complete, life>>
      /\ UNCHANGED <<written, max_accessed, file_complete>>
      /\ life[b] = "open"
      /\ requester' = [requester EXCEPT
                         ![r] = [pc |-> "goal", buffer |-> b, goal |-> 0]]
  BY DEF NotifyPassedProcessorUnreferenced, worker_vars, buffer_vars
<1>2. TypeOK'
  BY <1>1 DEF TypeOK, Request, Busy
<1>3. RequestersKeepOpen'
  BY <1>1 DEF RequestersKeepOpen, TypeOK
<1> QED
  BY <1>1, <1>2, <1>3
  DEF FrontIsCurrent, OneItemPerBuffer, NoUseAfterFree, Forgotten,
      WaitersWaitForCurrent, Waiting, NoSleepOnWork, Busy

LEMMA ComputeGoalKeepsIInv ==
  ASSUME IInv, NEW r \in Requester, ComputeGoal(r)
  PROVE  IInv'
<1> USE DEF IInv
<1>1. /\ UNCHANGED <<queue, current_work_buffer, worker, work, work_complete, life>>
      /\ UNCHANGED <<written, max_accessed, file_complete>>
      /\ requester[r].pc = "goal"
      /\ requester' = [requester EXCEPT
                         ![r] = [pc |-> "enqueue", buffer |-> requester[r].buffer,
                                 goal |-> Goal(requester[r].buffer)]]
  BY DEF ComputeGoal, worker_vars, buffer_vars
<1>2. requester[r].buffer \in Buffer /\ life[requester[r].buffer] = "open"
  BY <1>1 DEF RequestersKeepOpen
<1>3. Goal(requester[r].buffer) \in Nat
  BY <1>2, BufferThreadAssumption DEF Goal, TypeOK
<1>4. TypeOK'
  BY <1>1, <1>2, <1>3 DEF TypeOK, Request, Busy
<1>5. RequestersKeepOpen'
  BY <1>1, <1>2 DEF RequestersKeepOpen, TypeOK
<1> QED
  BY <1>1, <1>4, <1>5
  DEF FrontIsCurrent, OneItemPerBuffer, NoUseAfterFree, Forgotten,
      WaitersWaitForCurrent, Waiting, NoSleepOnWork, Busy

LEMMA EnqueueWorkKeepsIInv ==
  ASSUME IInv, NEW r \in Requester, EnqueueWork(r)
  PROVE  IInv'
<1> USE DEF IInv
<1> DEFINE item == [buffer |-> requester[r].buffer, goal |-> requester[r].goal]
<1>1. /\ requester[r].pc = "enqueue"
      /\ requester' = [requester EXCEPT ![r] = Resting]
      /\ UNCHANGED <<current_work_buffer, work, work_complete, life>>
      /\ UNCHANGED <<written, max_accessed, file_complete>>
  BY DEF EnqueueWork, buffer_vars
<1>2. item \in WorkItem /\ life[item.buffer] = "open"
  BY <1>1 DEF RequestersKeepOpen, TypeOK, Request, WorkItem
<1>3. RequestersKeepOpen' /\ requester' \in [Requester -> Request]
  BY <1>1 DEF RequestersKeepOpen, TypeOK, Request, Resting
<1>4. CASE Queued(item.buffer)
  <2>1. queue' = WithGoal(queue, item) /\ worker' = worker
    BY <1>4 DEF EnqueueWork
  <2>2. /\ queue' \in Seq(WorkItem)
        /\ Len(queue') = Len(queue)
        /\ \A i \in 1 .. Len(queue) : queue'[i].buffer = queue[i].buffer
    BY <1>2, <2>1, WithGoalKeepsBuffers DEF TypeOK
  <2> HIDE DEF item
  <2>3. queue # <<>> => queue' # <<>> /\ Head(queue').buffer = Head(queue).buffer
    BY <2>2 DEF TypeOK
  <2>4. queue = <<>> => queue' = <<>>
    BY <2>2 DEF TypeOK
  <2>5. TypeOK'
    BY <1>1, <1>3, <2>1, <2>2 DEF TypeOK, Busy
  <2>6. FrontIsCurrent' /\ NoSleepOnWork'
    BY <1>1, <2>1, <2>3, <2>4 DEF FrontIsCurrent, NoSleepOnWork, Busy
  <2>7. OneItemPerBuffer' /\ NoUseAfterFree'
    BY <1>1, <2>1, <2>2 DEF OneItemPerBuffer, NoUseAfterFree, Forgotten, Busy
  <2> QED
    BY <1>1, <1>3, <2>1, <2>5, <2>6, <2>7
    DEF WaitersWaitForCurrent, Waiting, Busy
<1>5. CASE ~Queued(item.buffer)
  <2>1. queue' = Append(queue, item) /\ worker' = SignalEnqueue(worker)
    BY <1>5 DEF EnqueueWork
  <2>2. \A i \in 1 .. Len(queue) : queue[i].buffer # item.buffer
    BY <1>5 DEF Queued
  <2> HIDE DEF item
  <2>3. /\ queue' \in Seq(WorkItem)
        /\ Len(queue') = Len(queue) + 1
        /\ \A i \in 1 .. Len(queue) : queue'[i] = queue[i]
        /\ queue'[Len(queue) + 1] = item
    BY <1>2, <2>1 DEF TypeOK
  <2>4. queue # <<>> => Head(queue') = Head(queue)
    BY <2>3 DEF TypeOK
  <2>5. queue' # <<>>
    BY <2>3 DEF TypeOK
  <2>6. worker' \in {"pick", "fill", "finish"} /\ (Busy' <=> Busy)
    BY <2>1 DEF SignalEnqueue, TypeOK, Busy
  <2>7. TypeOK'
    BY <1>1, <1>3, <2>3, <2>6 DEF TypeOK
  <2>8. FrontIsCurrent' /\ NoSleepOnWork'
    BY <1>1, <2>4, <2>5, <2>6 DEF FrontIsCurrent, NoSleepOnWork
  <2>9. OneItemPerBuffer'
    <3> SUFFICES ASSUME NEW i \in 1 .. Len(queue'), NEW j \in 1 .. Len(queue'),
                        queue'[i].buffer = queue'[j].buffer
                 PROVE  i = j
      BY DEF OneItemPerBuffer
    <3>1. CASE i \in 1 .. Len(queue) /\ j \in 1 .. Len(queue)
      BY <2>3, <3>1 DEF OneItemPerBuffer
    <3>2. CASE i = Len(queue) + 1 /\ j \in 1 .. Len(queue)
      BY <2>2, <2>3, <3>2
    <3>3. CASE j = Len(queue) + 1 /\ i \in 1 .. Len(queue)
      BY <2>2, <2>3, <3>3
    <3>4. Len(queue) \in Nat
      BY DEF TypeOK
    <3> QED BY <2>3, <3>1, <3>2, <3>3, <3>4
  <2>10. NoUseAfterFree'
    <3>1. Busy' => life'[work'.buffer] \notin {"close", "gone"}
      <4>1. Busy => life[work.buffer] \notin {"close", "gone"}
        BY DEF NoUseAfterFree, Forgotten
      <4>2. life' = life /\ work' = work
        BY <1>1
      <4> QED BY <2>6, <4>1, <4>2
    <3>2. ASSUME NEW i \in 1 .. Len(queue')
          PROVE  life'[queue'[i].buffer] \notin {"close", "gone"}
      <4>1. CASE i \in 1 .. Len(queue)
        BY <1>1, <2>3, <4>1 DEF NoUseAfterFree, Forgotten
      <4>2. CASE i = Len(queue) + 1
        BY <1>1, <1>2, <2>3, <4>2
      <4> QED BY <2>3, <4>1, <4>2 DEF TypeOK
    <3> QED BY <3>1, <3>2 DEF NoUseAfterFree, Forgotten
  <2> QED
    BY <1>1, <1>3, <2>6, <2>7, <2>8, <2>9, <2>10
    DEF WaitersWaitForCurrent, Waiting
<1> QED BY <1>4, <1>5

\* Nobody asks for work on a buffer that is being destroyed.
NotRequested(b) ==
  \A r \in Requester : requester[r].pc # "idle" => requester[r].buffer # b

LEMMA DyingIsNotRequested ==
  ASSUME IInv, NEW b \in Buffer, life[b] # "open"
  PROVE  NotRequested(b)
BY DEF IInv, RequestersKeepOpen, NotRequested

\* The steps of the destructor, and wakeups, that leave everything as it is but
\* where the destructor is: not yet through with Forget, and not waiting.
LEMMA LifeMovesOn ==
  ASSUME IInv, NEW b \in Buffer, NEW l \in {"notify", "forget"},
         NotRequested(b),
         life' = [life EXCEPT ![b] = l],
         UNCHANGED <<queue, current_work_buffer, worker, work, work_complete>>,
         UNCHANGED <<written, max_accessed, requester>>,
         file_complete' \in [Buffer -> BOOLEAN]
  PROVE  IInv'
<1> USE DEF IInv
<1>1. TypeOK'
  BY DEF TypeOK, Busy
<1>2. NoUseAfterFree'
  BY DEF NoUseAfterFree, Forgotten, TypeOK, Busy
<1>3. WaitersWaitForCurrent'
  BY DEF WaitersWaitForCurrent, Waiting, TypeOK
<1>4. RequestersKeepOpen'
  BY DEF RequestersKeepOpen, NotRequested, TypeOK
<1> QED
  BY <1>1, <1>2, <1>3, <1>4
  DEF FrontIsCurrent, OneItemPerBuffer, NoSleepOnWork, Busy

LEMMA DestroyKeepsIInv ==
  ASSUME IInv, NEW b \in Buffer, Destroy(b)
  PROVE  IInv'
<1>1. NotRequested(b)
  BY DEF Destroy, InUse, NotRequested
<1> QED
  BY <1>1, LifeMovesOn DEF Destroy, worker_vars, buffer_vars, IInv, TypeOK

LEMMA NotifyKeepsIInv ==
  ASSUME IInv, NEW b \in Buffer, NotifyFileComplete(b)
  PROVE  IInv'
<1>1. NotRequested(b)
  BY DyingIsNotRequested DEF NotifyFileComplete
<1>2. file_complete' \in [Buffer -> BOOLEAN]
  BY DEF NotifyFileComplete, IInv, TypeOK
<1> QED
  BY <1>1, <1>2, LifeMovesOn DEF NotifyFileComplete, worker_vars

LEMMA SpuriousWakeupKeepsIInv ==
  ASSUME IInv, NEW b \in Buffer, SpuriousWakeup(b)
  PROVE  IInv'
<1>1. NotRequested(b)
  BY DyingIsNotRequested DEF SpuriousWakeup
<1> QED
  BY <1>1, LifeMovesOn DEF SpuriousWakeup, worker_vars, buffer_vars, IInv, TypeOK

LEMMA ForgetWaitsKeepsIInv ==
  ASSUME IInv, NEW b \in Buffer, ForgetWaits(b)
  PROVE  IInv'
<1> USE DEF IInv
<1>1. /\ life[b] = "forget"
      /\ current_work_buffer = b
      /\ life' = [life EXCEPT ![b] = "waiting"]
      /\ UNCHANGED <<queue, current_work_buffer, worker, work, work_complete>>
      /\ UNCHANGED <<written, max_accessed, file_complete, requester>>
  BY DEF ForgetWaits, ForgetMustWait, worker_vars, buffer_vars
<1>2. TypeOK'
  BY <1>1 DEF TypeOK, Busy
<1>3. NoUseAfterFree'
  BY <1>1 DEF NoUseAfterFree, Forgotten, TypeOK, Busy
<1>4. WaitersWaitForCurrent'
  BY <1>1 DEF WaitersWaitForCurrent, Waiting, TypeOK
<1>5. RequestersKeepOpen'
  BY <1>1, DyingIsNotRequested DEF RequestersKeepOpen, NotRequested, TypeOK
<1> QED
  BY <1>1, <1>2, <1>3, <1>4, <1>5
  DEF FrontIsCurrent, OneItemPerBuffer, NoSleepOnWork, Busy

LEMMA ForgetErasesKeepsIInv ==
  ASSUME IInv, NEW b \in Buffer, ForgetErases(b)
  PROVE  IInv'
<1> USE DEF IInv
<1>1. /\ life[b] = "forget"
      /\ current_work_buffer # b
      /\ queue' = Without(queue, b)
      /\ life' = [life EXCEPT ![b] = "close"]
      /\ UNCHANGED <<current_work_buffer, worker, work, work_complete>>
      /\ UNCHANGED <<written, max_accessed, file_complete, requester>>
  BY DEF ForgetErases, ForgetMustWait, worker_vars, buffer_vars
<1>2. /\ queue' \in Seq(WorkItem)
      /\ OnePerBuffer(queue')
      /\ \A i \in 1 .. Len(queue') : /\ queue'[i].buffer # b
                                     /\ \E j \in 1 .. Len(queue) : queue'[i] = queue[j]
      /\ queue # <<>> /\ Head(queue).buffer # b =>
           queue' # <<>> /\ Head(queue') = Head(queue)
      /\ queue = <<>> => queue' = <<>>
  <2>1. queue \in Seq(WorkItem) /\ OnePerBuffer(queue)
    BY DEF TypeOK, OnePerBuffer, OneItemPerBuffer
  <2> HIDE DEF IInv
  <2>2. queue' = Without(queue, b)
    BY <1>1
  <2> QED
    BY ONLY <2>1, <2>2, WithoutForgets
<1>3. TypeOK'
  BY <1>1, <1>2 DEF TypeOK, Busy
<1>4. FrontIsCurrent' /\ NoSleepOnWork'
  BY <1>1, <1>2 DEF FrontIsCurrent, NoSleepOnWork, Busy
<1>5. OneItemPerBuffer'
  BY <1>2 DEF OneItemPerBuffer, OnePerBuffer
<1>6. \A x \in Buffer \ {b} : life'[x] = life[x]
  BY <1>1 DEF TypeOK
<1>7. Busy' => life'[work'.buffer] \notin {"close", "gone"}
  BY <1>1, <1>6 DEF NoUseAfterFree, Forgotten, FrontIsCurrent, Busy, TypeOK, WorkItem
<1>8. ASSUME NEW i \in 1 .. Len(queue')
      PROVE  life'[queue'[i].buffer] \notin {"close", "gone"}
  <2>1. PICK j \in 1 .. Len(queue) : queue'[i] = queue[j]
    BY <1>2
  <2>2. queue[j].buffer \in Buffer
    BY QueuedBuffers
  <2>3. queue[j].buffer # b
    BY <1>2, <2>1
  <2> QED BY <1>6, <2>1, <2>2, <2>3 DEF NoUseAfterFree, Forgotten
<1>9. WaitersWaitForCurrent'
  BY <1>1 DEF WaitersWaitForCurrent, Waiting, TypeOK
<1>10. RequestersKeepOpen'
  BY <1>1, DyingIsNotRequested DEF RequestersKeepOpen, NotRequested, TypeOK
<1> QED
  BY <1>1, <1>3, <1>4, <1>5, <1>7, <1>8, <1>9, <1>10
  DEF NoUseAfterFree, Forgotten, Busy

LEMMA CloseKeepsIInv ==
  ASSUME IInv, NEW b \in Buffer, CloseAndDelete(b)
  PROVE  IInv'
<1> USE DEF IInv
<1>1. /\ life[b] = "close"
      /\ life' = [life EXCEPT ![b] = "gone"]
      /\ UNCHANGED <<queue, current_work_buffer, worker, work, work_complete>>
      /\ UNCHANGED <<written, max_accessed, file_complete, requester>>
  BY DEF CloseAndDelete, worker_vars, buffer_vars
<1>2. TypeOK'
  BY <1>1 DEF TypeOK, Busy
<1>3. NoUseAfterFree'
  BY <1>1 DEF NoUseAfterFree, Forgotten, TypeOK, Busy
<1>4. WaitersWaitForCurrent'
  BY <1>1 DEF WaitersWaitForCurrent, Waiting, TypeOK
<1>5. RequestersKeepOpen'
  BY <1>1, DyingIsNotRequested DEF RequestersKeepOpen, NotRequested, TypeOK
<1> QED
  BY <1>1, <1>2, <1>3, <1>4, <1>5
  DEF FrontIsCurrent, OneItemPerBuffer, NoSleepOnWork, Busy

-----------------------------------------------------------------------------
(* The steps of Run().                                                     *)

LEMMA SleepKeepsIInv ==
  ASSUME IInv, WaitForWork \/ SpuriousEnqueueEvent
  PROVE  IInv'
<1> USE DEF IInv
<1>1. /\ worker \in {"pick", "wait"} /\ worker' \in {"pick", "wait"}
      /\ worker' = "wait" => queue = <<>>
      /\ UNCHANGED <<queue, current_work_buffer, work, work_complete, life>>
      /\ UNCHANGED <<written, max_accessed, file_complete, requester>>
  BY DEF WaitForWork, SpuriousEnqueueEvent, buffer_vars
<1>2. ~Busy /\ ~Busy'
  BY <1>1 DEF Busy
<1>3. TypeOK'
  BY <1>1, <1>2 DEF TypeOK
<1>4. NoUseAfterFree'
  BY <1>1, <1>2 DEF NoUseAfterFree, Forgotten
<1> QED
  BY <1>1, <1>2, <1>3, <1>4
  DEF FrontIsCurrent, OneItemPerBuffer, WaitersWaitForCurrent, Waiting,
      NoSleepOnWork, RequestersKeepOpen

\* A signal takes at most one buffer's destructor out of the wait.
LEMMA SignalWakesOne ==
  ASSUME TypeOK, SignalPickedWork
  PROVE  /\ life' \in [Buffer -> {"open", "notify", "forget", "waiting", "close",
                                 "gone"}]
         /\ \A b \in Buffer : \/ life'[b] = life[b]
                              \/ /\ life[b] = "waiting"
                                 /\ life'[b] = "forget"
         /\ (\A b, c \in Waiting : b = c) => \A b \in Buffer : life'[b] # "waiting"
<1>1. CASE Waiting = {}
  BY <1>1 DEF SignalPickedWork, TypeOK, Waiting
<1>2. CASE Waiting # {}
  <2>1. PICK w \in Waiting : life' = [life EXCEPT ![w] = "forget"]
    BY <1>2 DEF SignalPickedWork
  <2> QED BY <2>1 DEF TypeOK, Waiting
<1> QED BY <1>1, <1>2

LEMMA PickWorkKeepsIInv ==
  ASSUME IInv, PickWork
  PROVE  IInv'
<1> USE DEF IInv
<1>1. /\ worker = "pick" /\ worker' = "fill"
      /\ queue # <<>>
      /\ work' = Head(queue)
      /\ current_work_buffer' = Head(queue).buffer
      /\ UNCHANGED <<queue, work_complete, written, max_accessed, file_complete>>
      /\ requester' = requester
  BY DEF PickWork, buffer_vars
<1>2. ~Busy /\ Busy'
  BY <1>1 DEF Busy
<1>3. Waiting = {}
  BY <1>2, BufferThreadAssumption DEF WaitersWaitForCurrent, Waiting
<1>4. life' = life
  BY <1>3 DEF PickWork, SignalPickedWork
<1>5. Head(queue) \in WorkItem /\ Head(queue) = queue[1] /\ 1 \in 1 .. Len(queue)
  BY <1>1 DEF TypeOK
<1>6. TypeOK'
  BY <1>1, <1>4, <1>5 DEF TypeOK, WorkItem
<1>7. FrontIsCurrent'
  BY <1>1 DEF FrontIsCurrent
<1>8. NoUseAfterFree'
  BY <1>1, <1>4, <1>5 DEF NoUseAfterFree, Forgotten
<1>9. WaitersWaitForCurrent'
  BY <1>3, <1>4 DEF WaitersWaitForCurrent, Waiting
<1> QED
  BY <1>1, <1>2, <1>4, <1>6, <1>7, <1>8, <1>9
  DEF OneItemPerBuffer, NoSleepOnWork, RequestersKeepOpen

LEMMA FillChunkKeepsIInv ==
  ASSUME IInv, FillChunk
  PROVE  IInv'
<1> USE DEF IInv
<1>1. /\ worker = "fill" /\ worker' = "finish"
      /\ UNCHANGED <<queue, current_work_buffer, work, life, max_accessed, requester>>
      /\ work_complete' \in BOOLEAN
  BY DEF FillChunk
<1>2. Busy /\ Busy'
  BY <1>1 DEF Busy
<1>3. work.buffer \in Buffer /\ written[work.buffer] + 1 \in Nat
  BY <1>2 DEF TypeOK, WorkItem
<1>4. written' \in [Buffer -> Nat] /\ file_complete' \in [Buffer -> BOOLEAN]
  BY <1>3, FillUntilType DEF FillChunk
<1>5. TypeOK'
  BY <1>1, <1>2, <1>4 DEF TypeOK
<1>6. NoUseAfterFree'
  BY <1>1, <1>2 DEF NoUseAfterFree, Forgotten
<1> QED
  BY <1>1, <1>2, <1>5, <1>6
  DEF FrontIsCurrent, OneItemPerBuffer, WaitersWaitForCurrent, Waiting,
      NoSleepOnWork, RequestersKeepOpen

LEMMA FinishWorkKeepsIInv ==
  ASSUME IInv, FinishWork
  PROVE  IInv'
<1> USE DEF IInv
<1>1. /\ worker = "finish" /\ worker' = "pick"
      /\ queue' = Rotated(queue)
      /\ current_work_buffer' = NoBuffer
      /\ UNCHANGED <<work, work_complete, written, max_accessed, file_complete>>
      /\ requester' = requester
  BY DEF FinishWork, buffer_vars
<1>2. Busy /\ ~Busy'
  BY <1>1 DEF Busy
<1>3. /\ queue' \in Seq(WorkItem)
      /\ OnePerBuffer(queue')
      /\ \A i \in 1 .. Len(queue') : \E j \in 1 .. Len(queue) : queue'[i] = queue[j]
  <2>1. queue \in Seq(WorkItem) /\ queue # <<>>
    BY <1>2 DEF TypeOK, FrontIsCurrent
  <2>2. OnePerBuffer(queue)
    BY DEF OnePerBuffer, OneItemPerBuffer
  <2> QED BY <1>1, <2>1, <2>2, RotatedElements
<1>4. \A b, c \in Waiting : b = c
  BY DEF WaitersWaitForCurrent
<1>5. /\ life' \in [Buffer -> {"open", "notify", "forget", "waiting", "close",
                               "gone"}]
      /\ \A b \in Buffer : \/ life'[b] = life[b]
                           \/ /\ life[b] = "waiting"
                              /\ life'[b] = "forget"
      /\ \A b \in Buffer : life'[b] # "waiting"
  BY <1>4, SignalWakesOne DEF FinishWork
<1>6. TypeOK'
  BY <1>1, <1>2, <1>3, <1>5 DEF TypeOK
<1>7. ASSUME NEW i \in 1 .. Len(queue')
      PROVE  life'[queue'[i].buffer] \notin {"close", "gone"}
  <2>1. PICK j \in 1 .. Len(queue) : queue'[i] = queue[j]
    BY <1>3
  <2>2. queue[j].buffer \in Buffer /\ life[queue[j].buffer] \notin {"close", "gone"}
    BY QueuedBuffers DEF NoUseAfterFree, Forgotten
  <2> QED BY <1>5, <2>1, <2>2
<1>8. NoUseAfterFree'
  BY <1>2, <1>7 DEF NoUseAfterFree, Forgotten
<1>9. OneItemPerBuffer'
  BY <1>3 DEF OneItemPerBuffer, OnePerBuffer
<1>10. WaitersWaitForCurrent'
  BY <1>5 DEF WaitersWaitForCurrent, Waiting
<1>11. RequestersKeepOpen'
  BY <1>1, <1>5 DEF RequestersKeepOpen
<1> QED
  BY <1>1, <1>2, <1>6, <1>8, <1>9, <1>10, <1>11
  DEF FrontIsCurrent, NoSleepOnWork

LEMMA StutterKeepsIInv ==
  ASSUME IInv, UNCHANGED vars
  PROVE  IInv'
BY DEF vars, worker_vars, buffer_vars, IInv, TypeOK, Busy, FrontIsCurrent,
       OneItemPerBuffer, NoUseAfterFree, Forgotten, WaitersWaitForCurrent, Waiting,
       NoSleepOnWork, RequestersKeepOpen

LEMMA NextKeepsIInv == IInv /\ [Next]_vars => IInv'
<1> SUFFICES ASSUME IInv, [Next]_vars PROVE IInv'
  OBVIOUS
<1>1. CASE UNCHANGED vars
  BY <1>1, StutterKeepsIInv
<1>2. CASE Run
  BY <1>2, SleepKeepsIInv, PickWorkKeepsIInv, FillChunkKeepsIInv, FinishWorkKeepsIInv
  DEF Run
<1>3. CASE SpuriousEnqueueEvent
  BY <1>3, SleepKeepsIInv
<1>4. ASSUME NEW r \in Requester, NEW b \in Buffer, NEW horizon \in 1 .. FileEnd,
             Read(r, b, horizon)
      PROVE  IInv'
  BY <1>4, ReadKeepsIInv
<1>5. ASSUME NEW r \in Requester, NEW b \in Buffer,
             NotifyPassedProcessorUnreferenced(r, b)
      PROVE  IInv'
  BY <1>5, NotifyPassedKeepsIInv
<1>6. ASSUME NEW r \in Requester, ComputeGoal(r) \/ EnqueueWork(r) PROVE IInv'
  BY <1>6, ComputeGoalKeepsIInv, EnqueueWorkKeepsIInv
<1>7. ASSUME NEW b \in Buffer, Destroy(b) \/ Destructor(b) \/ SpuriousWakeup(b)
      PROVE  IInv'
  BY <1>7, DestroyKeepsIInv, NotifyKeepsIInv, ForgetWaitsKeepsIInv,
     ForgetErasesKeepsIInv, CloseKeepsIInv, SpuriousWakeupKeepsIInv
  DEF Destructor
<1> QED
  BY <1>1, <1>2, <1>3, <1>4, <1>6, <1>7, <1>5 DEF Next

-----------------------------------------------------------------------------
(* The theorems.                                                           *)

LEMMA Invariant == SafetySpec => []IInv
BY InitIInv, NextKeepsIInv, PTL DEF SafetySpec

\* The types of the thread's state.
THEOREM TypeCorrect == SafetySpec => []TypeOK
BY Invariant, PTL DEF IInv

\* The assertion of Run never fails (buffer-thread.cc:95).
THEOREM AssertionHolds == SafetySpec => []FrontIsCurrent
BY Invariant, PTL DEF IInv

\* Once Forget has returned, the thread neither works on the buffer nor finds
\* it in its queue (convolve-file-handler.cc:97).
THEOREM NeverWorksOnForgotten == SafetySpec => []NoUseAfterFree
BY Invariant, PTL DEF IInv

\* No wakeup of a thread in Forget is lost to another that waits for something
\* else, although each signal wakes only one (buffer-thread.cc:84, 101).
THEOREM NoLostWakeup == SafetySpec => []WaitersWaitForCurrent
BY Invariant, PTL DEF IInv

\* A buffer is queued at most once (buffer-thread.cc:40).
THEOREM QueuedOnce == SafetySpec => []OneItemPerBuffer
BY Invariant, PTL DEF IInv

\* The thread does not sleep while there is work: whoever queues an item for a
\* sleeping thread signals (buffer-thread.cc:50, 79).
THEOREM NeverSleepsOnWork == SafetySpec => []NoSleepOnWork
BY Invariant, PTL DEF IInv
=============================================================================
