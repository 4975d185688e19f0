--------------------------- MODULE ConversionBuffer ---------------------------
(***************************************************************************)
(* The file-backed buffer that converted sound is written to and read from: *)
(* conversion-buffer.cc, shared by every reader of a file and the          *)
(* pre-buffer thread.                                                      *)
(*                                                                         *)
(* mutex_ is held while the sound source is asked for more, many times if  *)
(* need be; the pread and the comparison with max_accessed_ are made       *)
(* without it. Positions count units of which a header has HeaderSize. The *)
(* sound source is reduced to how often it can still be asked, and how much *)
(* it appends each time, which the encoder makes hard to tell.             *)
(***************************************************************************)
EXTENDS Naturals

CONSTANTS
  Reader,      \* threads in Read
  Prebuffer,   \* the pre-buffer thread
  HeaderSize,  \* header_end_, once HeaderFinished was called
  Blocks,      \* how often the sound source can be asked for more
  MaxAppend,   \* the most that asking once can append
  MaxRead,     \* bound on offset and size of a read
  Free         \* nobody holds mutex_

ASSUME ConversionBufferAssumption ==
  /\ HeaderSize \in Nat /\ Blocks \in Nat /\ MaxAppend \in Nat /\ MaxRead \in Nat
  /\ Prebuffer \notin Reader
  /\ Free \notin Reader \cup {Prebuffer}

Thread == Reader \cup {Prebuffer}

VARIABLES
  on_disk,        \* length of the temporary file
  total_written,  \* total_written_
  max_accessed,   \* max_accessed_
  file_complete,  \* file_complete_
  blocks_left,    \* what the sound source still has
  closing,        \* how far the destructor of the handler is
  mutex,          \* who holds mutex_
  thread          \* thread[t]: where t is, and its arguments and locals

vars == <<on_disk, total_written, max_accessed, file_complete, blocks_left,
          closing, mutex, thread>>
file_vars == <<on_disk, total_written, file_complete, blocks_left>>

Call == [pc     : {"idle", "lock", "fill", "pread", "compare", "update"},
         offset : Nat,
         size   : Nat,
         target : Nat,     \* requested_min_written
         result : Nat]

TypeOK ==
  /\ on_disk \in Nat /\ total_written \in Nat /\ max_accessed \in Nat
  /\ file_complete \in BOOLEAN
  /\ blocks_left \in Nat
  /\ closing \in {"no", "notified", "closed"}
  /\ mutex \in Thread \cup {Free}
  /\ thread \in [Thread -> Call]

Resting == [pc |-> "idle", offset |-> 0, size |-> 0, target |-> 0, result |-> 0]

\* The constructor writes the header.
Init ==
  /\ on_disk = HeaderSize /\ total_written = HeaderSize
  /\ max_accessed = 0
  /\ file_complete = FALSE
  /\ blocks_left = Blocks
  /\ closing = "no"
  /\ mutex = Free
  /\ thread = [t \in Thread |-> Resting]

At(t, pc) == thread[t].pc = pc
Goto(t, pc) == thread' = [thread EXCEPT ![t].pc = pc]

-----------------------------------------------------------------------------
(* Calls of Read and FillUntil.                                            *)

\* Within the header one unit will do; behind it, all that is requested.
\* Mutants: one unit will always do; always all that is requested.
RequiredAtLeastOne(offset, size) == offset + 1
RequiredAll(offset, size) == offset + size
RequiredMinWritten(offset, size) ==
  offset + (IF offset >= HeaderSize THEN size ELSE 1)

BeginRead(r, offset, size) ==
  /\ At(r, "idle")
  /\ closing = "no"
  /\ thread' = [thread EXCEPT
                  ![r] = [pc |-> "lock", offset |-> offset, size |-> size,
                          target |-> RequiredMinWritten(offset, size),
                          result |-> 0]]
  /\ UNCHANGED <<file_vars, max_accessed, closing, mutex>>

\* BufferThread::Run asks for a chunk more than there is.
BeginFill ==
  /\ At(Prebuffer, "idle")
  /\ closing # "closed"
  /\ thread' = [thread EXCEPT
                  ![Prebuffer] = [pc |-> "lock", offset |-> 0, size |-> 0,
                                  target |-> total_written + 1, result |-> 0]]
  /\ UNCHANGED <<file_vars, max_accessed, closing, mutex>>

-----------------------------------------------------------------------------
(* FillUntil.                                                              *)

Lock(t) ==
  /\ At(t, "lock")
  /\ mutex = Free
  /\ mutex' = t
  /\ Goto(t, "fill")
  /\ UNCHANGED <<file_vars, max_accessed, closing>>

\* write() may fail after part of the data; the part stays in the file, and
\* is not counted. (If the file could not be opened, there is no header and every
\* write fails at once.)
Append(count) ==
  \/ on_disk' = on_disk + count /\ total_written' = total_written + count
  \/ \E part \in 0 .. count : on_disk' = on_disk + part /\ UNCHANGED total_written

\* Mutant: the loop does not look at file_complete_.
NeedsMoreEvenIfComplete(t) == total_written < thread[t].target
NeedsMore(t) == ~file_complete /\ total_written < thread[t].target

\* AddMoreSoundData says whether there is more to come. A source that runs out
\* early says so at once; one that has nothing left appends nothing.
AddMoreSoundData(t) ==
  /\ At(t, "fill")
  /\ NeedsMore(t)
  /\ IF blocks_left = 0
     THEN UNCHANGED <<on_disk, total_written, blocks_left>>
     ELSE /\ \E count \in 0 .. MaxAppend : Append(count)
          /\ blocks_left' \in {0, blocks_left - 1}
  /\ file_complete' = (blocks_left' = 0)
  /\ UNCHANGED <<max_accessed, closing, mutex, thread>>

Unlock(t) ==
  /\ At(t, "fill")
  /\ ~NeedsMore(t)
  /\ mutex' = Free
  /\ IF t = Prebuffer
     THEN thread' = [thread EXCEPT ![t] = Resting]
     ELSE Goto(t, "pread")
  /\ UNCHANGED <<file_vars, max_accessed, closing>>

-----------------------------------------------------------------------------
(* The rest of Read.                                                       *)

Available(offset, size) ==
  IF on_disk <= offset THEN 0
  ELSE IF on_disk - offset < size THEN on_disk - offset ELSE size

Pread(r) ==
  /\ At(r, "pread")
  /\ LET result == Available(thread[r].offset, thread[r].size)
     IN  thread' = [thread EXCEPT ![r] = [thread[r] EXCEPT !.pc = "compare",
                                                           !.result = result]]
  /\ UNCHANGED <<file_vars, max_accessed, closing, mutex>>

NewMaxAccessed(r) == thread[r].offset + thread[r].result

\* Without the lock, and taking it only to store the value.
CompareMaxAccessed(r) ==
  /\ At(r, "compare")
  /\ IF thread[r].result > 0 /\ NewMaxAccessed(r) > max_accessed
     THEN Goto(r, "update")
     ELSE thread' = [thread EXCEPT ![r] = Resting]
  /\ UNCHANGED <<file_vars, max_accessed, closing, mutex>>

StoreMaxAccessed(r) ==
  /\ At(r, "update")
  /\ mutex = Free
  /\ max_accessed' = NewMaxAccessed(r)
  /\ thread' = [thread EXCEPT ![r] = Resting]
  /\ UNCHANGED <<file_vars, closing, mutex>>

-----------------------------------------------------------------------------
(* The destructor of the handler begins when no reader has it open; the    *)
(* pre-buffer thread may be in the middle of FillUntil. That it forgets the *)
(* buffer before QuitBuffering returns is BufferThread's subject.          *)

NotifyFileComplete ==
  /\ closing = "no"
  /\ \A r \in Reader : At(r, "idle")
  /\ mutex = Free
  /\ closing' = "notified"
  /\ file_complete' = TRUE
  /\ UNCHANGED <<on_disk, total_written, max_accessed, blocks_left, mutex, thread>>

\* Closing libsndfile flushes its last samples into the buffer, unless that was
\* done when the source ended.
Close ==
  /\ closing = "notified" /\ At(Prebuffer, "idle")
  /\ IF blocks_left = 0
     THEN UNCHANGED <<on_disk, total_written>>
     ELSE \E count \in 0 .. MaxAppend : Append(count)
  /\ blocks_left' = 0
  /\ closing' = "closed"
  /\ UNCHANGED <<max_accessed, file_complete, mutex, thread>>

\* The buffer is deleted; that is no deadlock.
Deleted == closing = "closed" /\ UNCHANGED vars

FillUntil(t) == AddMoreSoundData(t) \/ Unlock(t)
FinishRead(r) == Pread(r) \/ CompareMaxAccessed(r) \/ StoreMaxAccessed(r)

Next ==
  \/ \E r \in Reader, offset \in 0 .. MaxRead, size \in 1 .. MaxRead :
       BeginRead(r, offset, size)
  \/ BeginFill
  \/ \E t \in Thread : Lock(t) \/ FillUntil(t)
  \/ \E r \in Reader : FinishRead(r)
  \/ NotifyFileComplete \/ Close \/ Deleted

SafetySpec == Init /\ [][Next]_vars

\* A thread in the middle of a call keeps running and gets a mutex that
\* becomes free again and again.
Spec ==
  /\ SafetySpec
  /\ \A t \in Thread : WF_vars(FillUntil(t)) /\ SF_vars(Lock(t))
  /\ \A r \in Reader : WF_vars(Pread(r) \/ CompareMaxAccessed(r))
                       /\ SF_vars(StoreMaxAccessed(r))

-----------------------------------------------------------------------------
(* Properties.                                                             *)

\* "we make sure that we have at least the number of bytes available that are
\* requested" (conversion-buffer.cc:176): behind the header a read is short
\* only when the file is complete, whoever converted it meanwhile, though the
\* pread is made after the lock is given up.
ShortReadMeansComplete ==
  \A r \in Reader :
    At(r, "compare") /\ thread[r].offset >= HeaderSize
    /\ thread[r].result < thread[r].size => file_complete

\* "we don't need to start the convolver if someone only reads the header"
\* (conversion-buffer.cc:170): a read that begins in the header adds no data.
HeaderReadsConvertNothing ==
  [][\A r \in Reader : mutex = r /\ on_disk' # on_disk =>
       thread[r].offset >= HeaderSize]_vars

\* "Any further FillUntil() calls will return immediately"
\* (conversion-buffer.h:96): nothing is added to a complete file by readers and
\* pre-buffer thread who decided to fill before it was. Only the destructor
\* does, when it closes the encoder after both have gone.
CompleteIsFinal ==
  [][file_complete =>
       /\ file_complete'
       /\ \/ UNCHANGED <<on_disk, total_written>>
          \/ closing = "notified" /\ closing' = "closed"]_vars

\* Every read returns, however the source ends and even if the disk is full.
ReadsReturn == \A r \in Reader : At(r, "lock") ~> At(r, "idle")
=============================================================================
