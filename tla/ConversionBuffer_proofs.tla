----------------------- MODULE ConversionBuffer_proofs -----------------------
(***************************************************************************)
(* Proofs about the conversion buffer for any number of readers, any       *)
(* header, any sound source and reads of any size.                         *)
(***************************************************************************)
EXTENDS ConversionBuffer, TLAPS

\* Who is in the loop of FillUntil holds the lock.
FillerHoldsLock == \A t \in Thread : At(t, "fill") <=> mutex = t

\* The header is there from the beginning, and the file is at least as long as
\* what is counted.
HeaderWritten == HeaderSize <= total_written /\ total_written <= on_disk

\* A reader fills up to what its arguments require.
TargetIsRequired ==
  \A r \in Reader :
    ~At(r, "idle") =>
      thread[r].target = RequiredMinWritten(thread[r].offset, thread[r].size)

\* After FillUntil, its target stays reached.
FilledForRead ==
  \A r \in Reader :
    At(r, "pread") => file_complete \/ total_written >= thread[r].target

\* The destructor runs without readers.
NoReaders == closing # "no" => \A r \in Reader : At(r, "idle")

\* That a read is not short depends on what FillUntil established before the
\* lock was given up, which nothing takes back.
IInv ==
  /\ TypeOK
  /\ FillerHoldsLock
  /\ HeaderWritten
  /\ TargetIsRequired
  /\ FilledForRead
  /\ ShortReadMeansComplete
  /\ NoReaders

-----------------------------------------------------------------------------
LEMMA RequiredType ==
  ASSUME NEW offset \in Nat, NEW size \in Nat
  PROVE  RequiredMinWritten(offset, size) \in Nat
BY ConversionBufferAssumption DEF RequiredMinWritten

LEMMA InitIInv == Init => IInv
<1> SUFFICES ASSUME Init PROVE IInv
  OBVIOUS
<1>1. \A t \in Thread : thread[t] = Resting /\ At(t, "idle")
  BY DEF Init, At, Resting
<1>2. TypeOK
  <2>1. Resting \in Call
    BY DEF Resting, Call
  <2> QED
    BY <2>1, ConversionBufferAssumption DEF Init, TypeOK
<1>3. FillerHoldsLock
  BY <1>1, ConversionBufferAssumption DEF FillerHoldsLock, Init, At, Thread
<1>4. HeaderWritten
  BY ConversionBufferAssumption DEF HeaderWritten, Init
<1>5. TargetIsRequired /\ FilledForRead /\ ShortReadMeansComplete
  BY <1>1 DEF TargetIsRequired, FilledForRead, ShortReadMeansComplete, At, Thread
<1>6. NoReaders
  BY <1>1 DEF NoReaders, Thread
<1> QED BY <1>2, <1>3, <1>4, <1>5, <1>6 DEF IInv

\* A step of one thread that neither takes nor gives up the lock nor changes
\* the file: what remains to be shown is what it makes of that thread.
LEMMA ThreadStep ==
  ASSUME IInv, NEW t \in Thread, NEW call \in Call,
         UNCHANGED <<file_vars, closing, mutex>>,
         max_accessed' \in Nat,
         thread' = [thread EXCEPT ![t] = call],
         ~At(t, "fill"), call.pc # "fill",
         t \in Reader =>
           /\ call.pc # "idle" =>
                call.target = RequiredMinWritten(call.offset, call.size)
           /\ call.pc = "pread" => file_complete \/ total_written >= call.target
           /\ call.pc = "compare" /\ call.offset >= HeaderSize
              /\ call.result < call.size => file_complete
           /\ closing = "no" \/ call.pc = "idle"
  PROVE  IInv'
<1> USE DEF IInv
<1>1. /\ thread'[t] = call
      /\ \A u \in Thread : u # t => thread'[u] = thread[u]
  BY DEF TypeOK
<1>2. TypeOK'
  BY DEF TypeOK, file_vars
<1>3. FillerHoldsLock'
  BY <1>1 DEF FillerHoldsLock, At, file_vars
<1>4. HeaderWritten'
  BY DEF HeaderWritten, file_vars
<1>5. TargetIsRequired'
  BY <1>1 DEF TargetIsRequired, At, Thread
<1>6. FilledForRead'
  BY <1>1 DEF FilledForRead, At, Thread, file_vars
<1>7. ShortReadMeansComplete'
  BY <1>1 DEF ShortReadMeansComplete, At, Thread, file_vars
<1>8. NoReaders'
  BY <1>1 DEF NoReaders, At, Thread
<1> QED BY <1>2, <1>3, <1>4, <1>5, <1>6, <1>7, <1>8

LEMMA BeginReadKeepsIInv ==
  ASSUME IInv, NEW r \in Reader, NEW offset \in 0 .. MaxRead,
         NEW size \in 1 .. MaxRead, BeginRead(r, offset, size)
  PROVE  IInv'
<1> DEFINE call == [pc |-> "lock", offset |-> offset, size |-> size,
                    target |-> RequiredMinWritten(offset, size), result |-> 0]
<1>1. offset \in Nat /\ size \in Nat
  BY ConversionBufferAssumption
<1>2. call \in Call
  BY <1>1, RequiredType DEF Call
<1>3. r \in Thread /\ ~At(r, "fill") /\ closing = "no"
  BY DEF Thread, BeginRead, At
<1>4. /\ thread' = [thread EXCEPT ![r] = call]
      /\ UNCHANGED <<file_vars, closing, mutex>>
      /\ max_accessed' \in Nat
  BY DEF BeginRead, IInv, TypeOK
<1> QED BY <1>2, <1>3, <1>4, ThreadStep

LEMMA BeginFillKeepsIInv ==
  ASSUME IInv, BeginFill
  PROVE  IInv'
<1> DEFINE call == [pc |-> "lock", offset |-> 0, size |-> 0,
                    target |-> total_written + 1, result |-> 0]
<1>1. call \in Call /\ call.pc = "lock"
  <2>1. total_written + 1 \in Nat
    BY DEF IInv, TypeOK
  <2> QED BY <2>1 DEF Call
<1>2. Prebuffer \in Thread /\ Prebuffer \notin Reader /\ ~At(Prebuffer, "fill")
  BY ConversionBufferAssumption DEF Thread, BeginFill, At
<1>3. /\ thread' = [thread EXCEPT ![Prebuffer] = call]
      /\ UNCHANGED <<file_vars, closing, mutex>>
      /\ max_accessed' \in Nat
  BY DEF BeginFill, IInv, TypeOK
<1> HIDE DEF call
<1> QED BY <1>1, <1>2, <1>3, ThreadStep

LEMMA PreadKeepsIInv ==
  ASSUME IInv, NEW r \in Reader, Pread(r)
  PROVE  IInv'
<1> USE DEF IInv
<1> DEFINE old == thread[r]
           got == Available(old.offset, old.size)
           call == [old EXCEPT !.pc = "compare", !.result = got]
<1>1. /\ r \in Thread /\ ~At(r, "fill") /\ old \in Call /\ old.pc = "pread"
      /\ closing = "no"
  BY DEF Thread, Pread, At, TypeOK, NoReaders
<1>2. old.offset \in Nat /\ old.size \in Nat /\ old.target \in Nat
  BY <1>1 DEF Call
<1>3. on_disk \in Nat /\ total_written \in Nat
  BY DEF TypeOK
<1>4. got \in Nat
  <2>1. CASE on_disk <= old.offset
    BY <2>1 DEF Available
  <2>2. CASE ~(on_disk <= old.offset)
    <3> DEFINE rest == on_disk - old.offset
    <3>1. rest \in Nat
      BY <1>2, <1>3, <2>2
    <3> QED BY <1>2, <2>2, <3>1 DEF Available
  <2> QED BY <2>1, <2>2
<1>5. /\ call \in Call /\ call.pc = "compare" /\ call.result = got
      /\ call.target = old.target
      /\ call.offset = old.offset /\ call.size = old.size
  BY <1>1, <1>4 DEF Call
<1>6. thread' = [thread EXCEPT ![r] = call]
  BY DEF Pread
<1>7. UNCHANGED <<file_vars, closing, mutex>> /\ max_accessed' \in Nat
  BY DEF Pread, TypeOK
<1>8. old.target = RequiredMinWritten(old.offset, old.size)
  BY <1>1 DEF TargetIsRequired, At
<1>9. old.offset >= HeaderSize /\ got < old.size => file_complete
  <2>1. file_complete \/ total_written >= old.target
    BY <1>1 DEF FilledForRead, At
  <2>2. old.offset >= HeaderSize => old.target = old.offset + old.size
    BY <1>8 DEF RequiredMinWritten
  <2>3. total_written <= on_disk
    BY DEF HeaderWritten
  <2>4. HeaderSize \in Nat
    BY ConversionBufferAssumption
  <2>5. old.offset + old.size <= on_disk => ~(got < old.size)
    BY <1>2, <1>3 DEF Available
  <2> HIDE DEF got, old
  <2> QED BY <1>2, <1>3, <2>1, <2>2, <2>3, <2>4, <2>5
<1> HIDE DEF got, old, call
<1> QED BY <1>1, <1>5, <1>6, <1>7, <1>8, <1>9, ThreadStep

\* A read that ends.
LEMMA RestKeepsIInv ==
  ASSUME IInv, NEW t \in Thread, ~At(t, "fill"),
         UNCHANGED <<file_vars, closing, mutex>>,
         max_accessed' \in Nat,
         thread' = [thread EXCEPT ![t] = Resting]
  PROVE  IInv'
<1>1. Resting \in Call /\ Resting.pc = "idle"
  BY DEF Resting, Call
<1> QED BY <1>1, ThreadStep

LEMMA CompareKeepsIInv ==
  ASSUME IInv, NEW r \in Reader, CompareMaxAccessed(r)
  PROVE  IInv'
<1>1. /\ r \in Thread /\ thread[r].pc = "compare" /\ thread[r] \in Call
      /\ closing = "no"
  BY DEF Thread, CompareMaxAccessed, At, IInv, TypeOK, NoReaders
<1>2. UNCHANGED <<file_vars, closing, mutex>> /\ max_accessed' \in Nat
  BY DEF CompareMaxAccessed, IInv, TypeOK
<1>3. CASE Goto(r, "update")
  <2> DEFINE call == [thread[r] EXCEPT !.pc = "update"]
  <2>1. call \in Call /\ call.pc = "update"
        /\ call.target = thread[r].target
        /\ call.offset = thread[r].offset /\ call.size = thread[r].size
    BY <1>1 DEF Call
  <2>2. thread' = [thread EXCEPT ![r] = call]
    BY <1>3 DEF Goto
  <2>3. thread[r].target = RequiredMinWritten(thread[r].offset, thread[r].size)
    BY <1>1 DEF IInv, TargetIsRequired, At
  <2> HIDE DEF call
  <2> QED BY <1>1, <1>2, <2>1, <2>2, <2>3, ThreadStep DEF At
<1>4. CASE thread' = [thread EXCEPT ![r] = Resting]
  BY <1>1, <1>2, <1>4, RestKeepsIInv DEF At
<1> QED BY <1>3, <1>4 DEF CompareMaxAccessed

LEMMA StoreKeepsIInv ==
  ASSUME IInv, NEW r \in Reader, StoreMaxAccessed(r)
  PROVE  IInv'
<1>1. r \in Thread /\ thread[r].pc = "update" /\ thread[r] \in Call
  BY DEF Thread, StoreMaxAccessed, At, IInv, TypeOK
<1>2. max_accessed' \in Nat
  BY <1>1 DEF StoreMaxAccessed, NewMaxAccessed, Call
<1>3. /\ UNCHANGED <<file_vars, closing, mutex>>
      /\ thread' = [thread EXCEPT ![r] = Resting]
  BY DEF StoreMaxAccessed
<1> QED BY <1>1, <1>2, <1>3, RestKeepsIInv DEF At

LEMMA LockKeepsIInv ==
  ASSUME IInv, NEW t \in Thread, Lock(t)
  PROVE  IInv'
<1> USE DEF IInv
<1>1. /\ thread[t] \in Call /\ thread[t].pc = "lock"
      /\ mutex = Free /\ mutex' = t
      /\ UNCHANGED <<on_disk, total_written, file_complete, blocks_left>>
      /\ UNCHANGED <<max_accessed, closing>>
  BY DEF Lock, At, TypeOK, file_vars
<1> DEFINE call == [thread[t] EXCEPT !.pc = "fill"]
<1>2. /\ call \in Call /\ call.pc = "fill"
      /\ call.target = thread[t].target
      /\ call.offset = thread[t].offset /\ call.size = thread[t].size
  BY <1>1 DEF Call
<1>3. /\ thread' \in [Thread -> Call]
      /\ thread'[t] = call
      /\ \A u \in Thread : u # t => thread'[u] = thread[u]
  BY <1>2 DEF Lock, Goto, TypeOK
<1> HIDE DEF call
<1>4. TypeOK'
  BY <1>1, <1>3 DEF TypeOK
<1>5. FillerHoldsLock'
  BY <1>1, <1>2, <1>3, ConversionBufferAssumption DEF FillerHoldsLock, At, Thread
<1>6. HeaderWritten'
  BY <1>1 DEF HeaderWritten
<1>7. TargetIsRequired'
  BY <1>1, <1>2, <1>3 DEF TargetIsRequired, At, Thread
<1>8. FilledForRead' /\ ShortReadMeansComplete'
  BY <1>1, <1>2, <1>3 DEF FilledForRead, ShortReadMeansComplete, At, Thread
<1>9. NoReaders'
  BY <1>1, <1>3 DEF NoReaders, At, Thread
<1> QED BY <1>4, <1>5, <1>6, <1>7, <1>8, <1>9

\* What is written is added, to the file at least.
LEMMA AppendAdds ==
  ASSUME on_disk \in Nat, total_written \in Nat, total_written <= on_disk,
         NEW count \in 0 .. MaxAppend, Append(count)
  PROVE  /\ on_disk' \in Nat /\ total_written' \in Nat
         /\ total_written <= total_written' /\ total_written' <= on_disk'
<1>1. count \in Nat
  BY ConversionBufferAssumption
<1>2. CASE on_disk' = on_disk + count /\ total_written' = total_written + count
  BY <1>1, <1>2
<1>3. CASE \E part \in 0 .. count :
             on_disk' = on_disk + part /\ UNCHANGED total_written
  BY <1>1, <1>3
<1> QED BY <1>2, <1>3 DEF Append

LEMMA AddMoreKeepsIInv ==
  ASSUME IInv, NEW t \in Thread, AddMoreSoundData(t)
  PROVE  IInv'
<1> USE DEF IInv
<1>1. /\ UNCHANGED <<max_accessed, closing, mutex, thread>>
      /\ file_complete' \in BOOLEAN
      /\ ~file_complete
  BY DEF AddMoreSoundData, NeedsMore
<1>2. /\ on_disk' \in Nat /\ total_written' \in Nat
      /\ total_written <= total_written' /\ total_written' <= on_disk'
  <2>1. on_disk \in Nat /\ total_written \in Nat /\ total_written <= on_disk
    BY DEF TypeOK, HeaderWritten
  <2>2. CASE UNCHANGED <<on_disk, total_written>>
    BY <2>1, <2>2
  <2>3. ASSUME NEW count \in 0 .. MaxAppend, Append(count)
        PROVE  /\ on_disk' \in Nat /\ total_written' \in Nat
               /\ total_written <= total_written' /\ total_written' <= on_disk'
    BY <2>1, <2>3, AppendAdds
  <2> QED BY <2>2, <2>3 DEF AddMoreSoundData
<1>3. blocks_left' \in Nat
  BY DEF AddMoreSoundData, TypeOK
<1>4. TypeOK'
  BY <1>1, <1>2, <1>3 DEF TypeOK
<1>5. FillerHoldsLock' /\ TargetIsRequired'
  BY <1>1 DEF FillerHoldsLock, TargetIsRequired, At
<1>6. HeaderWritten'
  BY <1>2, ConversionBufferAssumption DEF HeaderWritten, TypeOK
<1>7. FilledForRead'
  <2> SUFFICES ASSUME NEW r \in Reader, thread[r].pc = "pread"
               PROVE  total_written' >= thread[r].target
    BY <1>1 DEF FilledForRead, At
  <2>1. thread[r] \in Call /\ total_written \in Nat
    BY DEF TypeOK, Thread
  <2>2. total_written >= thread[r].target
    BY <1>1 DEF FilledForRead, At
  <2>3. thread[r].target \in Nat
    BY <2>1 DEF Call
  <2> QED BY <1>2, <2>1, <2>2, <2>3
<1>8. ShortReadMeansComplete'
  BY <1>1 DEF ShortReadMeansComplete, At
<1>9. NoReaders'
  BY <1>1 DEF NoReaders, At
<1> QED BY <1>4, <1>5, <1>6, <1>7, <1>8, <1>9

LEMMA UnlockKeepsIInv ==
  ASSUME IInv, NEW t \in Thread, Unlock(t)
  PROVE  IInv'
<1> USE DEF IInv
<1>1. /\ thread[t] \in Call /\ thread[t].pc = "fill"
      /\ mutex = t /\ mutex' = Free
      /\ file_complete \/ ~(total_written < thread[t].target)
      /\ UNCHANGED <<on_disk, total_written, file_complete, blocks_left>>
      /\ UNCHANGED <<max_accessed, closing>>
  BY DEF Unlock, NeedsMore, At, TypeOK, FillerHoldsLock, file_vars
<1>2. PICK call \in Call :
        /\ thread' = [thread EXCEPT ![t] = call]
        /\ call.pc \in {"idle", "pread"}
        /\ t \in Reader => /\ call.target = thread[t].target
                           /\ call.offset = thread[t].offset
                           /\ call.size = thread[t].size
  <2>1. CASE t = Prebuffer
    <3>1. thread' = [thread EXCEPT ![t] = Resting]
      BY <2>1 DEF Unlock
    <3>2. Resting \in Call /\ Resting.pc = "idle"
      BY DEF Resting, Call
    <3>3. t \notin Reader
      BY <2>1, ConversionBufferAssumption
    <3> QED BY <3>1, <3>2, <3>3
  <2>2. CASE t # Prebuffer
    <3> DEFINE new == [thread[t] EXCEPT !.pc = "pread"]
    <3>1. thread' = [thread EXCEPT ![t] = new]
      BY <2>2 DEF Unlock, Goto
    <3>2. /\ new \in Call /\ new.pc = "pread"
          /\ new.target = thread[t].target
          /\ new.offset = thread[t].offset /\ new.size = thread[t].size
      BY <1>1 DEF Call
    <3> HIDE DEF new
    <3> QED BY <3>1, <3>2
  <2> QED BY <2>1, <2>2
<1>3. /\ thread' \in [Thread -> Call]
      /\ thread'[t] = call
      /\ \A u \in Thread : u # t => thread'[u] = thread[u]
  BY <1>2 DEF TypeOK
<1>4. TypeOK'
  BY <1>1, <1>3 DEF TypeOK
<1>5. FillerHoldsLock'
  BY <1>1, <1>2, <1>3, ConversionBufferAssumption DEF FillerHoldsLock, At, Thread
<1>6. HeaderWritten'
  BY <1>1 DEF HeaderWritten
<1>7. TargetIsRequired'
  BY <1>1, <1>2, <1>3 DEF TargetIsRequired, At, Thread
<1>8. FilledForRead'
  <2>1. total_written \in Nat /\ thread[t].target \in Nat
    BY <1>1 DEF TypeOK, Call
  <2>2. file_complete \/ total_written >= thread[t].target
    BY <1>1, <2>1
  <2> QED BY <1>1, <1>2, <1>3, <2>2 DEF FilledForRead, At, Thread
<1>9. ShortReadMeansComplete'
  BY <1>1, <1>2, <1>3 DEF ShortReadMeansComplete, At, Thread
<1>10. NoReaders'
  BY <1>1, <1>3 DEF NoReaders, At, Thread
<1> QED BY <1>4, <1>5, <1>6, <1>7, <1>8, <1>9, <1>10

LEMMA NotifyKeepsIInv ==
  ASSUME IInv, NotifyFileComplete
  PROVE  IInv'
BY DEF NotifyFileComplete, IInv, TypeOK, FillerHoldsLock, HeaderWritten,
       TargetIsRequired, FilledForRead, ShortReadMeansComplete, NoReaders, At

LEMMA CloseKeepsIInv ==
  ASSUME IInv, Close
  PROVE  IInv'
<1> USE DEF IInv
<1>1. /\ UNCHANGED <<max_accessed, file_complete, mutex, thread>>
      /\ blocks_left' = 0 /\ closing' = "closed"
      /\ \A r \in Reader : At(r, "idle")
  BY DEF Close, NoReaders
<1>2. /\ on_disk' \in Nat /\ total_written' \in Nat
      /\ total_written <= total_written' /\ total_written' <= on_disk'
  <2>1. on_disk \in Nat /\ total_written \in Nat /\ total_written <= on_disk
    BY DEF TypeOK, HeaderWritten
  <2>2. ASSUME NEW count \in 0 .. MaxAppend, Append(count)
        PROVE  /\ on_disk' \in Nat /\ total_written' \in Nat
               /\ total_written <= total_written' /\ total_written' <= on_disk'
    BY <2>1, <2>2, AppendAdds
  <2> QED BY <2>1, <2>2 DEF Close
<1>3. TypeOK'
  BY <1>1, <1>2 DEF TypeOK
<1>4. FillerHoldsLock' /\ TargetIsRequired'
  BY <1>1 DEF FillerHoldsLock, TargetIsRequired, At
<1>5. HeaderWritten'
  BY <1>2, ConversionBufferAssumption DEF HeaderWritten, TypeOK
<1>6. FilledForRead' /\ ShortReadMeansComplete' /\ NoReaders'
  BY <1>1 DEF FilledForRead, ShortReadMeansComplete, NoReaders, At
<1> QED BY <1>3, <1>4, <1>5, <1>6

LEMMA NextKeepsIInv == IInv /\ [Next]_vars => IInv'
<1> SUFFICES ASSUME IInv, [Next]_vars PROVE IInv'
  OBVIOUS
<1>1. CASE UNCHANGED vars
  BY <1>1 DEF vars, IInv, TypeOK, FillerHoldsLock, HeaderWritten, TargetIsRequired,
              FilledForRead, ShortReadMeansComplete, NoReaders, At
<1>2. ASSUME NEW r \in Reader, NEW offset \in 0 .. MaxRead, NEW size \in 1 .. MaxRead,
             BeginRead(r, offset, size)
      PROVE  IInv'
  BY <1>2, BeginReadKeepsIInv
<1>3. CASE BeginFill
  BY <1>3, BeginFillKeepsIInv
<1>4. ASSUME NEW t \in Thread, Lock(t) \/ FillUntil(t) PROVE IInv'
  BY <1>4, LockKeepsIInv, AddMoreKeepsIInv, UnlockKeepsIInv DEF FillUntil
<1>5. ASSUME NEW r \in Reader, FinishRead(r) PROVE IInv'
  BY <1>5, PreadKeepsIInv, CompareKeepsIInv, StoreKeepsIInv DEF FinishRead
<1>6. CASE NotifyFileComplete
  BY <1>6, NotifyKeepsIInv
<1>7. CASE Close
  BY <1>7, CloseKeepsIInv
<1> QED BY <1>1, <1>2, <1>3, <1>4, <1>5, <1>6, <1>7 DEF Next, Deleted

-----------------------------------------------------------------------------
(* The theorems.                                                           *)

LEMMA Invariant == SafetySpec => []IInv
BY InitIInv, NextKeepsIInv, PTL DEF SafetySpec

\* The types of the buffer's state.
THEOREM TypeCorrect == SafetySpec => []TypeOK
BY Invariant, PTL DEF IInv

\* Behind the header a read returns all it was asked for unless the file is
\* complete (conversion-buffer.cc:176), for any number of threads.
THEOREM ReadsAreFull == SafetySpec => []ShortReadMeansComplete
BY Invariant, PTL DEF IInv

\* The file grows only in AddMoreSoundData, by the thread that holds the lock
\* and needs more, and when the destructor closes the encoder.
LEMMA OnlyFillingAdds ==
  ASSUME [Next]_vars, UNCHANGED <<on_disk, total_written, file_complete>> => FALSE
  PROVE  NotifyFileComplete \/ Close \/ \E t \in Thread : AddMoreSoundData(t)
BY DEF Next, Deleted, vars, file_vars, BeginRead, BeginFill, Lock, FillUntil, Unlock,
       FinishRead, Pread, CompareMaxAccessed, StoreMaxAccessed

\* Reading the header converts nothing (conversion-buffer.cc:170).
THEOREM HeaderIsCheap == SafetySpec => HeaderReadsConvertNothing
<1>1. ASSUME IInv, [Next]_vars, NEW r \in Reader, mutex = r, on_disk' # on_disk
      PROVE  thread[r].offset >= HeaderSize
  <2>1. PICK t \in Thread : AddMoreSoundData(t)
    <3>1. ~At(r, "idle")
      BY <1>1 DEF IInv, FillerHoldsLock, At, Thread
    <3>2. ~Close
      BY <3>1, <1>1 DEF Close, IInv, NoReaders
    <3> QED BY <1>1, <3>2, OnlyFillingAdds DEF NotifyFileComplete
  <2>2. t = r /\ ~At(r, "idle")
    BY <1>1, <2>1 DEF AddMoreSoundData, IInv, FillerHoldsLock, At
  <2>3. total_written < RequiredMinWritten(thread[r].offset, thread[r].size)
    BY <1>1, <2>1, <2>2 DEF AddMoreSoundData, NeedsMore, IInv, TargetIsRequired
  <2>4. thread[r].offset \in Nat /\ total_written \in Nat /\ HeaderSize <= total_written
    BY <1>1 DEF IInv, TypeOK, Thread, Call, HeaderWritten
  <2> QED
    BY <2>3, <2>4, ConversionBufferAssumption DEF RequiredMinWritten
<1>2. IInv /\ [Next]_vars =>
        [\A r \in Reader : mutex = r /\ on_disk' # on_disk =>
           thread[r].offset >= HeaderSize]_vars
  BY <1>1
<1> QED BY <1>2, Invariant, PTL DEF SafetySpec, HeaderReadsConvertNothing

\* Nothing is added to a complete file but what the destructor flushes
\* (conversion-buffer.h:96).
THEOREM CompleteFilesStay == SafetySpec => CompleteIsFinal
<1>1. ASSUME [Next]_vars, file_complete
      PROVE  /\ file_complete'
             /\ \/ UNCHANGED <<on_disk, total_written>>
                \/ closing = "notified" /\ closing' = "closed"
  <2>1. ASSUME NEW t \in Thread PROVE ~AddMoreSoundData(t)
    BY <1>1 DEF AddMoreSoundData, NeedsMore
  <2>2. CASE NotifyFileComplete
    BY <2>2 DEF NotifyFileComplete
  <2>3. CASE Close
    BY <1>1, <2>3 DEF Close
  <2>4. CASE UNCHANGED <<on_disk, total_written, file_complete>>
    BY <1>1, <2>4
  <2> QED BY <1>1, <2>1, <2>2, <2>3, <2>4, OnlyFillingAdds
<1>2. [Next]_vars =>
        [file_complete =>
           /\ file_complete'
           /\ \/ UNCHANGED <<on_disk, total_written>>
              \/ closing = "notified" /\ closing' = "closed"]_vars
  BY <1>1
<1> QED BY <1>2, PTL DEF SafetySpec, CompleteIsFinal
=============================================================================
