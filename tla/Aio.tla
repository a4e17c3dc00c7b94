--------------------------------- MODULE Aio ---------------------------------
(***************************************************************************)
(* Asynchronous file output, ASYNCIO of base/system.cpp: threads append to *)
(* a ring of bytes that grows, a thread of its own moves them to the file, *)
(* and the handle is freed by the last of the two that hold it.            *)
(*                                                                         *)
(* Every access to the handle is in a critical section of its lock, so a   *)
(* critical section is one step; what is done after an unlock (signals,    *)
(* file operations, freeing) is a step of its own.  The bytes written are  *)
(* numbered, so that order can be told.  The owner calls aio_close (the    *)
(* log on a terminal does not), aio_wait and aio_free, as the log and the  *)
(* teehistorian do, or aio_free without waiting for a file it closed.      *)
(***************************************************************************)
EXTENDS Naturals, Sequences, FiniteSetsExt

CONSTANTS Writers,      \* threads that write
          BufSize,      \* ASYNC_BUFSIZE
          LocalSize,    \* ASYNC_LOCAL_BUFSIZE
          MaxSize,      \* bound: bytes of one write
          MaxBytes      \* bound: bytes written in all

ASSUME SizesAssumption ==
  /\ BufSize \in Nat \ {0} /\ LocalSize \in Nat \ {0}
  /\ MaxSize \in Nat /\ MaxBytes \in Nat

VARIABLES
  buffer, buffer_size, read_pos, write_pos,  \* the ring
  error, finish, refcount,                   \* the rest of ASYNCIO
  sphore,                                    \* tokens of the semaphore
  threadPc, local_buffer, result_io_error,   \* aio_thread
  writerPc, ownerPc,
  file, isOpen, broken,                      \* the file and its error indicator
  freed,                                     \* how often the handle was freed
  written,                                   \* history: bytes written
  owed                                       \* history: bytes written when the end was asked for

ring == <<buffer, buffer_size, read_pos, write_pos>>
fileVars == <<file, isOpen, broken>>
vars == <<ring, error, finish, refcount, sphore, threadPc, local_buffer, result_io_error,
          writerPc, ownerPc, fileVars, freed, written, owed>>

\* aio_new.  Memory that was not written yet holds no byte, 0.
Init ==
  /\ buffer = [p \in 0..BufSize - 1 |-> 0]
  /\ buffer_size = BufSize /\ read_pos = 0 /\ write_pos = 0
  /\ error = FALSE /\ finish = "RUNNING" /\ refcount = 2
  /\ sphore = 0
  /\ threadPc = "lock" /\ local_buffer = <<>> /\ result_io_error = FALSE
  /\ writerPc = [w \in Writers |-> "idle"] /\ ownerPc = "idle"
  /\ file = <<>> /\ isOpen = TRUE /\ broken = FALSE
  /\ freed = 0
  /\ written = <<>> /\ owed = 0

-----------------------------------------------------------------------------
(* The ring.                                                               *)

Block(pos, n) == [k \in 1..n |-> buffer[pos + k - 1]]

\* buffer_ptrs: the bytes from the reading position to the writing position are
\* one block, or two where they wrap around.
len1 == IF read_pos <= write_pos THEN write_pos - read_pos ELSE buffer_size - read_pos
len2 == IF read_pos <= write_pos THEN 0 ELSE write_pos
Content == Block(read_pos, len1) \o Block(0, len2)

buffer_len ==
  IF write_pos >= read_pos THEN write_pos - read_pos
                           ELSE buffer_size + write_pos - read_pos

\* The size is doubled until it is enough: the one size that is, and of which the
\* half is not.
next_buffer_size(cur_size, need_size) ==
  {n \in need_size..cur_size + 2 * need_size :
     /\ \E k \in 0..need_size : n = cur_size * 2^k
     /\ n = cur_size \/ n < 2 * need_size}

\* mem_copy of bytes to position pos of a buffer.
Copied(buf, pos, bytes) ==
  [p \in DOMAIN buf |->
     IF p \in pos..pos + Len(bytes) - 1 THEN bytes[p - pos + 1] ELSE buf[p]]

\* A full ring would look like an empty one.
Fits(size) == size < buffer_size - buffer_len

\* The case that there is room.
WriteInPlace(bytes) ==
  LET remaining_contiguous == buffer_size - write_pos
      first == Min({Len(bytes), remaining_contiguous})
      rest == SubSeq(bytes, first + 1, Len(bytes))
  IN /\ Fits(Len(bytes))
     /\ buffer' = Copied(Copied(buffer, write_pos, SubSeq(bytes, 1, first)), 0, rest)
     /\ write_pos' = (write_pos + Len(bytes)) % buffer_size
     /\ UNCHANGED <<buffer_size, read_pos>>

\* Mutant: only the first of the two blocks is moved.
GrowFirstBlock(bytes) ==
  LET all == Block(read_pos, len1) \o bytes
  IN /\ ~Fits(Len(bytes))
     /\ buffer_size' \in next_buffer_size(buffer_size, Len(all) + 1)
     /\ buffer' = [p \in 0..buffer_size' - 1 |-> IF p < Len(all) THEN all[p + 1] ELSE 0]
     /\ read_pos' = 0 /\ write_pos' = Len(all)

\* The case that there is not: a larger buffer takes its place.
Grow(bytes) ==
  LET all == Content \o bytes
  IN /\ ~Fits(Len(bytes))
     /\ buffer_size' \in next_buffer_size(buffer_size, Len(all) + 1)
     /\ buffer' = [p \in 0..buffer_size' - 1 |-> IF p < Len(all) THEN all[p + 1] ELSE 0]
     /\ read_pos' = 0 /\ write_pos' = Len(all)

-----------------------------------------------------------------------------
(* The threads that write.                                                 *)

\* aio_write up to aio_unlock.  A log line is several blocks in one critical
\* section, which is one write here.
Write(w, size) ==
  /\ writerPc[w] = "idle" /\ ownerPc \notin {"freeing", "gone"}
  /\ Len(written) + size <= MaxBytes
  /\ LET bytes == [k \in 1..size |-> Len(written) + k]
     IN /\ WriteInPlace(bytes) \/ Grow(bytes)
        /\ written' = written \o bytes
  /\ writerPc' = [writerPc EXCEPT ![w] = "signal"]
  /\ UNCHANGED <<error, finish, refcount, sphore, threadPc, local_buffer, result_io_error,
                 ownerPc, fileVars, freed, owed>>

\* aio_unlock signals after it has unlocked.
WriteSignal(w) ==
  /\ writerPc[w] = "signal"
  /\ sphore' = sphore + 1
  /\ writerPc' = [writerPc EXCEPT ![w] = "idle"]
  /\ UNCHANGED <<ring, error, finish, refcount, threadPc, local_buffer, result_io_error,
                 ownerPc, fileVars, freed, written, owed>>

-----------------------------------------------------------------------------
(* The owner.                                                              *)

Owed == IF finish = "RUNNING" THEN Len(written) ELSE owed

aio_close ==
  /\ ownerPc = "idle"
  /\ finish' = "CLOSE" /\ owed' = Owed
  /\ ownerPc' = "closeSignal"
  /\ UNCHANGED <<ring, error, refcount, sphore, threadPc, local_buffer, result_io_error,
                 writerPc, fileVars, freed, written>>

aio_wait ==
  /\ ownerPc \in {"idle", "closed"}
  /\ finish' = IF finish = "RUNNING" THEN "EXIT" ELSE finish
  /\ owed' = Owed
  /\ ownerPc' = "waitSignal"
  /\ UNCHANGED <<ring, error, refcount, sphore, threadPc, local_buffer, result_io_error,
                 writerPc, fileVars, freed, written>>

\* Mutant: aio_close leaves it to the next write to wake the thread.
EndSignalWaitOnly ==
  /\ ownerPc \in {"closeSignal", "waitSignal"}
  /\ sphore' = IF ownerPc = "waitSignal" THEN sphore + 1 ELSE sphore
  /\ ownerPc' = IF ownerPc = "closeSignal" THEN "closed" ELSE "join"
  /\ UNCHANGED <<ring, error, finish, refcount, threadPc, local_buffer, result_io_error,
                 writerPc, fileVars, freed, written, owed>>

\* The signal at the end of both.
EndSignal ==
  /\ ownerPc \in {"closeSignal", "waitSignal"}
  /\ sphore' = sphore + 1
  /\ ownerPc' = IF ownerPc = "closeSignal" THEN "closed" ELSE "join"
  /\ UNCHANGED <<ring, error, finish, refcount, threadPc, local_buffer, result_io_error,
                 writerPc, fileVars, freed, written, owed>>

\* thread_wait returns.
Joined ==
  /\ ownerPc = "join" /\ threadPc = "done"
  /\ ownerPc' = "waited"
  /\ UNCHANGED <<ring, error, finish, refcount, sphore, threadPc, local_buffer,
                 result_io_error, writerPc, fileVars, freed, written, owed>>

\* aio_free up to its unlock; no writer is in the middle of a call.
aio_free ==
  /\ ownerPc \in {"closed", "waited"}
  /\ \A w \in Writers : writerPc[w] = "idle"
  /\ refcount' = refcount - 1
  /\ ownerPc' = IF refcount' = 0 THEN "freeing" ELSE "gone"
  /\ UNCHANGED <<ring, error, finish, sphore, threadPc, local_buffer, result_io_error,
                 writerPc, fileVars, freed, written, owed>>

OwnerFrees ==
  /\ ownerPc = "freeing"
  /\ freed' = freed + 1
  /\ ownerPc' = "gone"
  /\ UNCHANGED <<ring, error, finish, refcount, sphore, threadPc, local_buffer,
                 result_io_error, writerPc, fileVars, written, owed>>

-----------------------------------------------------------------------------
(* aio_thread.                                                             *)

\* The thread has the lock: the result of the last write is noted, and then the
\* bytes that fit its own buffer are taken,
TakeBytes ==
  /\ threadPc = "lock" /\ read_pos # write_pos
  /\ LET n1 == Min({len1, LocalSize})
         n2 == Min({len2, LocalSize - n1})
     IN /\ local_buffer' = Block(read_pos, n1) \o Block(0, n2)
        /\ read_pos' = (read_pos + n1 + n2) % buffer_size
  /\ error' = result_io_error
  /\ threadPc' = "io"
  /\ UNCHANGED <<buffer, buffer_size, write_pos, finish, refcount, sphore, result_io_error,
                 writerPc, ownerPc, fileVars, freed, written, owed>>

\* or it sleeps,
Sleep ==
  /\ threadPc = "lock" /\ read_pos = write_pos /\ finish = "RUNNING"
  /\ error' = result_io_error
  /\ threadPc' = "sleep"
  /\ UNCHANGED <<ring, finish, refcount, sphore, local_buffer, result_io_error, writerPc,
                 ownerPc, fileVars, freed, written, owed>>

\* Mutant: the thread ends when it is told to, with bytes left to write.
ExitAtOnce ==
  /\ threadPc = "lock" /\ finish # "RUNNING"
  /\ error' = result_io_error
  /\ isOpen' = (isOpen /\ finish # "CLOSE")
  /\ refcount' = refcount - 1
  /\ threadPc' = IF refcount' = 0 THEN "freeing" ELSE "done"
  /\ UNCHANGED <<ring, finish, sphore, local_buffer, result_io_error, writerPc, ownerPc,
                 file, broken, freed, written, owed>>

\* Mutant: off by one in the test of the count.
ExitFreesEarly ==
  /\ threadPc = "lock" /\ read_pos = write_pos /\ finish # "RUNNING"
  /\ error' = result_io_error
  /\ isOpen' = (isOpen /\ finish # "CLOSE")
  /\ refcount' = refcount - 1
  /\ threadPc' = IF refcount' <= 1 THEN "freeing" ELSE "done"
  /\ UNCHANGED <<ring, finish, sphore, local_buffer, result_io_error, writerPc, ownerPc,
                 file, broken, freed, written, owed>>

\* or it ends, and closes the file if it was asked to.
Exit ==
  /\ threadPc = "lock" /\ read_pos = write_pos /\ finish # "RUNNING"
  /\ error' = result_io_error
  /\ isOpen' = (isOpen /\ finish # "CLOSE")
  /\ refcount' = refcount - 1
  /\ threadPc' = IF refcount' = 0 THEN "freeing" ELSE "done"
  /\ UNCHANGED <<ring, finish, sphore, local_buffer, result_io_error, writerPc, ownerPc,
                 file, broken, freed, written, owed>>

ThreadFrees ==
  /\ threadPc = "freeing"
  /\ freed' = freed + 1
  /\ threadPc' = "done"
  /\ UNCHANGED <<ring, error, finish, refcount, sphore, local_buffer, result_io_error,
                 writerPc, ownerPc, fileVars, written, owed>>

Wake ==
  /\ threadPc = "sleep" /\ sphore > 0
  /\ sphore' = sphore - 1
  /\ threadPc' = "lock"
  /\ UNCHANGED <<ring, error, finish, refcount, local_buffer, result_io_error, writerPc,
                 ownerPc, fileVars, freed, written, owed>>

\* io_write, io_flush and io_error, outside the lock.  A write may fail, and the
\* error indicator of the file stays.
WriteFile(ok) ==
  /\ threadPc = "io"
  /\ file' = IF ok THEN file \o local_buffer ELSE file
  /\ broken' = (broken \/ ~ok)
  /\ local_buffer' = <<>>
  /\ result_io_error' = broken'
  /\ threadPc' = "lock"
  /\ UNCHANGED <<ring, error, finish, refcount, sphore, writerPc, ownerPc, isOpen, freed,
                 written, owed>>

-----------------------------------------------------------------------------
Thread ==
  \/ TakeBytes \/ Sleep \/ Exit \/ ThreadFrees \/ Wake
  \/ \E ok \in BOOLEAN : WriteFile(ok)

OwnerProgress == EndSignal \/ Joined \/ OwnerFrees

Next ==
  \/ \E w \in Writers : (\E size \in 1..MaxSize : Write(w, size)) \/ WriteSignal(w)
  \/ aio_close \/ aio_wait \/ aio_free \/ OwnerProgress
  \/ Thread

Spec == Init /\ [][Next]_vars

\* Threads are scheduled, and file operations end.  Nobody has to call anything.
FairSpec ==
  /\ Spec
  /\ WF_vars(Thread) /\ WF_vars(OwnerProgress)
  /\ \A w \in Writers : WF_vars(WriteSignal(w))

-----------------------------------------------------------------------------
(* Properties.                                                             *)

\* While the file takes its bytes, every byte written is in the file, on its way
\* or in the ring, in order: no wrap, growth or short local buffer loses, repeats
\* or reorders one.
NothingLost == ~broken => file \o local_buffer \o Content = written

\* When aio_wait returns, what was written before is in the file, or aio_error
\* tells that writing failed.
FlushedAtWait == ownerPc = "waited" => error \/ Len(file) >= owed

\* The handle is freed once, when neither the owner nor the thread nor a writer
\* will use it again.
FreedLast ==
  /\ freed <= 1
  /\ freed = 1 => /\ threadPc = "done" /\ ownerPc = "gone"
                  /\ \A w \in Writers : writerPc[w] = "idle"

\* A handle that was let go by the owner is freed.
FreedInTheEnd == (ownerPc = "gone") ~> (freed = 1)
=============================================================================
