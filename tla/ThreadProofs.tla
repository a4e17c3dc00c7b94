----------------------------- MODULE ThreadProofs ----------------------------
(***************************************************************************)
(* Proofs about the threads of the engine: CJobPool, for every set of jobs *)
(* and every finite set of worker threads, and the asynchronous file       *)
(* output, for any number of writers and any sizes.                        *)
(*                                                                         *)
(* Of the pool: a job is run by one thread, in the order they were queued. *)
(* ListShape and FIFO need each other and need that a job is added once: a *)
(* job linked twice would close the list into a circle.                    *)
(*                                                                         *)
(* Of the output: no byte is lost, repeated or reordered, aio_wait returns *)
(* when the bytes are in the file or the error is noted, and the handle is *)
(* freed once, by the last that holds it.                                  *)
(***************************************************************************)
EXTENDS JobPool, Aio, FiniteSetTheorems, SequenceTheorems, TLAPS

-----------------------------------------------------------------------------
(* CJobPool.                                                               *)

\* The constructor establishes the types.
LEMMA PoolTypeInit == PoolInit => PoolTypeOK
<1> USE DEF PoolTypeOK, WorkerPcs, MainPcs
<1> SUFFICES ASSUME PoolInit PROVE PoolTypeOK
  OBVIOUS
<1>1. added \in Seq(Jobs) /\ fetched \in Seq(Jobs)
  BY DEF PoolInit
<1>2. /\ m_pNext \in [Jobs -> Jobs \cup {NoJob}]
      /\ m_Status \in [Jobs -> {"PENDING", "RUNNING", "DONE"}]
  BY DEF PoolInit
<1>3. /\ pc \in [Workers -> WorkerPcs]
      /\ pJob \in [Workers -> Jobs \cup {NoJob}]
  BY DEF PoolInit
<1> QED BY <1>1, <1>2, <1>3 DEF PoolInit

\* Every step of the owning thread and of the workers keeps them.
LEMMA PoolTypeStep == PoolTypeOK /\ [PoolNext]_poolVars => PoolTypeOK'
<1> USE DEF PoolTypeOK, WorkerPcs, MainPcs
<1> SUFFICES ASSUME PoolTypeOK, [PoolNext]_poolVars PROVE PoolTypeOK'
  OBVIOUS
<1>1. ASSUME NEW j \in Jobs, Add(j) PROVE PoolTypeOK'
  BY <1>1 DEF Add
<1>2. CASE AddSignal
  BY <1>2 DEF AddSignal, listVars
<1>3. ASSUME NEW j \in Jobs, RunBlockingBegin(j) PROVE PoolTypeOK'
  BY <1>3 DEF RunBlockingBegin, listVars
<1>4. CASE RunBlockingEnd
  BY <1>4 DEF RunBlockingEnd, listVars
<1>5. CASE Destroy
  <2>1. NumThreads \in Nat
    BY WorkersAssumption, FS_CardinalityType DEF NumThreads
  <2> QED BY <1>5, <2>1 DEF Destroy, listVars
<1>6. CASE DestroySignal
  BY <1>6 DEF DestroySignal, listVars
<1>7. CASE DestroyJoined
  BY <1>7 DEF DestroyJoined, listVars
<1>8. ASSUME NEW w \in Workers, Worker(w) PROVE PoolTypeOK'
  <2>1. CASE LoopTest(w)
    BY <2>1 DEF LoopTest, listVars, mainVars
  <2>2. CASE SemaphoreWait(w)
    BY <2>2 DEF SemaphoreWait, listVars, mainVars
  <2>3. CASE Fetch(w)
    BY <2>3 DEF Fetch, mainVars
  <2>4. CASE FetchNothing(w)
    BY <2>4 DEF FetchNothing, listVars, mainVars
  <2>5. CASE RunBegin(w)
    BY <2>5 DEF RunBegin, listVars, mainVars
  <2>6. CASE RunEnd(w)
    BY <2>6 DEF RunEnd, listVars, mainVars
  <2> QED BY <1>8, <2>1, <2>2, <2>3, <2>4, <2>5, <2>6 DEF Worker
<1>9. CASE UNCHANGED poolVars
  BY <1>9 DEF poolVars
<1> QED
  BY <1>1, <1>2, <1>3, <1>4, <1>5, <1>6, <1>7, <1>8, <1>9
  DEF PoolNext, MainProgress, Terminated

\* The type invariant holds for every set of jobs and workers.
THEOREM PoolTypeCorrect == PoolSpec => []PoolTypeOK
  BY PoolTypeInit, PoolTypeStep, PTL DEF PoolSpec

-----------------------------------------------------------------------------
\* Each job is added once.
AddedOnce == \A i, k \in 1..Len(added) : added[i] = added[k] => i = k

\* A job that was never added ends a list.
FreshEnds == \A j \in Jobs :
  (\A i \in 1..Len(added) : added[i] # j) => m_pNext[j] = NoJob

\* What a step must preserve for the list to stay in order.
ListInv == AddedOnce /\ FreshEnds /\ ListShape /\ FIFO

\* The empty list of the constructor.
LEMMA ListInvInit == PoolInit => ListInv
  BY DEF PoolInit, ListInv, AddedOnce, FreshEnds, ListShape, FIFO, Taken

\* Steps that touch neither the list nor its history.
LEMMA ListInvUnchanged == ListInv /\ UNCHANGED listVars => ListInv'
  BY DEF ListInv, AddedOnce, FreshEnds, ListShape, FIFO, Taken, listVars

\* The critical section of CJobPool::Add appends to the list.
LEMMA ListInvAdd ==
  ASSUME PoolTypeOK, ListInv, NEW j \in Jobs, Add(j)
  PROVE  ListInv'
<1> USE DEF ListInv, PoolTypeOK, Taken
<1>1. /\ fetched' = fetched
      /\ Len(added) \in Nat /\ Len(fetched) \in Nat
      /\ Len(added') = Len(added) + 1
      /\ added'[Len(added) + 1] = j
      /\ \A i \in 1..Len(added) : added'[i] = added[i]
      /\ \A i \in 1..Len(added) : added[i] # j
  BY DEF Add, InQueueOrDone
<1>2. AddedOnce'
  <2> SUFFICES ASSUME NEW i \in 1..Len(added'), NEW k \in 1..Len(added'),
                      added'[i] = added'[k]
               PROVE  i = k
    BY DEF AddedOnce
  <2>1. CASE i <= Len(added) /\ k <= Len(added)
    <3>1. i \in 1..Len(added) /\ k \in 1..Len(added)
      BY <1>1, <2>1
    <3> QED BY <1>1, <3>1 DEF AddedOnce
  <2>2. CASE i = Len(added) + 1 \/ k = Len(added) + 1
    BY <1>1, <2>2
  <2> QED BY <1>1, <2>1, <2>2
<1>3. FIFO'
  BY <1>1 DEF FIFO, ListShape
<1>4. m_pNext[j] = NoJob
  BY <1>1 DEF FreshEnds
<1>5. CASE Len(fetched) = Len(added)
  <2>1. m_pFirstJob = NoJob /\ m_pLastJob = NoJob
    BY <1>5 DEF ListShape
  <2>2. m_pFirstJob' = j /\ m_pLastJob' = j /\ m_pNext' = m_pNext
    BY <2>1 DEF Add
  <2>3. FreshEnds'
    BY <1>1, <2>2 DEF FreshEnds
  <2>4. ListShape'
    BY <1>1, <1>4, <1>5, <2>2 DEF ListShape
  <2> QED BY <1>2, <1>3, <2>3, <2>4
<1>6. CASE Len(fetched) < Len(added)
  <2>1. /\ m_pFirstJob = added[Len(fetched) + 1]
        /\ m_pLastJob = added[Len(added)]
        /\ m_pFirstJob # NoJob /\ m_pLastJob # NoJob
    <3>1. added[Len(fetched) + 1] \in Jobs /\ added[Len(added)] \in Jobs
      BY <1>1, <1>6
    <3> QED BY <1>6, <3>1, JobsAssumption DEF ListShape
  <2>2. /\ m_pFirstJob' = m_pFirstJob /\ m_pLastJob' = j
        /\ m_pNext' = [m_pNext EXCEPT ![added[Len(added)]] = j]
    BY <2>1 DEF Add
  <2>3. FreshEnds'
    BY <1>1, <1>6, <2>2 DEF FreshEnds
  <2>4. ASSUME NEW i \in (Len(fetched) + 1)..Len(added')
        PROVE  m_pNext'[added'[i]] =
                 IF i < Len(added') THEN added'[i + 1] ELSE NoJob
    <3>1. CASE i = Len(added) + 1
      BY <1>1, <1>4, <1>6, <2>2, <3>1
    <3>2. CASE i = Len(added)
      BY <1>1, <1>6, <2>2, <3>2
    <3>3. CASE i < Len(added)
      <4>1. /\ i \in 1..Len(added) /\ i + 1 \in 1..Len(added)
            /\ i \in (Len(fetched) + 1)..Len(added) /\ Len(added) \in 1..Len(added)
        BY <1>1, <1>6, <2>4, <3>3
      <4>2. added[i] # added[Len(added)] /\ added[i] \in Jobs
        <5>1. \A k \in 1..Len(added) : added[i] = added[k] => i = k
          BY <4>1 DEF AddedOnce
        <5>2. i # Len(added)
          BY <1>1, <3>3
        <5> QED BY <4>1, <5>1, <5>2
      <4>3. m_pNext[added[i]] = added[i + 1]
        BY <1>1, <3>3, <4>1 DEF ListShape
      <4>4. m_pNext'[added[i]] = added[i + 1]
        BY <2>2, <4>2, <4>3
      <4> QED BY <1>1, <3>3, <4>1, <4>4
    <3> QED BY <1>1, <2>4, <3>1, <3>2, <3>3
  <2>5. ListShape'
    BY <1>1, <1>6, <2>1, <2>2, <2>4 DEF ListShape
  <2> QED BY <1>2, <1>3, <2>3, <2>5
<1> QED BY <1>1, <1>5, <1>6 DEF ListShape

\* The critical section of WorkerThread removes the first element.
LEMMA ListInvFetch ==
  ASSUME PoolTypeOK, ListInv, NEW w \in Workers, Fetch(w)
  PROVE  ListInv' /\ m_pFirstJob = added[Len(fetched) + 1]
                  /\ Len(fetched) < Len(added)
<1> USE DEF ListInv, PoolTypeOK, Taken
<1>1. Len(fetched) < Len(added) /\ m_pFirstJob = added[Len(fetched) + 1]
  BY DEF Fetch, ListShape
<1>2. /\ added' = added /\ m_pNext' = m_pNext
      /\ Len(added) \in Nat /\ Len(fetched) \in Nat
      /\ Len(fetched') = Len(fetched) + 1
      /\ fetched'[Len(fetched) + 1] = added[Len(fetched) + 1]
      /\ \A i \in 1..Len(fetched) : fetched'[i] = fetched[i]
  BY <1>1 DEF Fetch
<1>3. AddedOnce' /\ FreshEnds'
  BY <1>2 DEF AddedOnce, FreshEnds
<1>4. FIFO'
  BY <1>1, <1>2 DEF FIFO
<1>5. m_pNext[m_pFirstJob] = IF Len(fetched) + 1 < Len(added)
                               THEN added[Len(fetched) + 2] ELSE NoJob
  BY <1>1, <1>2 DEF ListShape
<1>6. Len(fetched) + 1 < Len(added) => added[Len(fetched) + 2] # NoJob
  <2>1. Len(fetched) + 1 < Len(added) => added[Len(fetched) + 2] \in Jobs
    BY <1>2
  <2> QED BY <2>1, JobsAssumption
<1>7. ListShape'
  <2>1. m_pFirstJob' = IF Taken' < Len(added') THEN added'[Taken' + 1] ELSE NoJob
    BY <1>1, <1>2, <1>5 DEF Fetch
  <2>2. m_pLastJob' = IF Taken' < Len(added') THEN added'[Len(added')] ELSE NoJob
    BY <1>1, <1>2, <1>5, <1>6 DEF Fetch, ListShape
  <2>3. \A i \in (Taken' + 1)..Len(added') :
          i \in (Taken + 1)..Len(added)
    BY <1>1, <1>2
  <2>4. \A i \in (Taken' + 1)..Len(added') :
          m_pNext'[added'[i]] =
            IF i < Len(added') THEN added'[i + 1] ELSE NoJob
    BY <1>2, <2>3 DEF ListShape
  <2>5. Taken' <= Len(added')
    BY <1>1, <1>2
  <2> QED BY <2>1, <2>2, <2>4, <2>5 DEF ListShape
<1> QED BY <1>1, <1>3, <1>4, <1>7

\* Every step of the pool preserves the shape of the list.
LEMMA ListInvStep == PoolTypeOK /\ ListInv /\ [PoolNext]_poolVars => ListInv'
<1> SUFFICES ASSUME PoolTypeOK, ListInv, [PoolNext]_poolVars PROVE ListInv'
  OBVIOUS
<1>1. ASSUME NEW j \in Jobs, Add(j) PROVE ListInv'
  BY <1>1, ListInvAdd
<1>2. ASSUME NEW w \in Workers, Fetch(w) PROVE ListInv'
  BY <1>2, ListInvFetch
<1>3. ASSUME UNCHANGED listVars PROVE ListInv'
  BY <1>3, ListInvUnchanged
<1> QED
  BY <1>1, <1>2, <1>3
  DEF PoolNext, MainProgress, Terminated, Worker, poolVars, listVars, AddSignal,
      RunBlockingBegin, RunBlockingEnd, Destroy, DestroySignal, DestroyJoined,
      LoopTest, SemaphoreWait, FetchNothing, RunBegin, RunEnd

\* The intrusive list of CJobPool is at all times the queue of the jobs added
\* and not yet dequeued, and jobs are dequeued in the order they were added.
THEOREM JobsInOrder == PoolSpec => [](ListShape /\ FIFO)
<1>1. PoolSpec => []ListInv
  BY PoolTypeInit, PoolTypeStep, ListInvInit, ListInvStep, PTL DEF PoolSpec
<1>2. ListInv => ListShape /\ FIFO
  BY DEF ListInv
<1> QED BY <1>1, <1>2, PTL

-----------------------------------------------------------------------------
\* A worker has a job in its hands.
Busy(w) == pc[w] \in {"run", "running"}

\* The jobs of the workers were dequeued, and the one the owning thread runs by
\* itself was never queued.
HoldInv ==
  /\ \A w \in Workers : Busy(w) => \E n \in 1..Taken : fetched[n] = pJob[w]
  /\ mainJob # NoJob =>
       mainPc = "blocking" /\ \A n \in 1..Len(added) : added[n] # mainJob

\* Nobody has a job at the start.
LEMMA HoldInit == PoolInit => HoldInv /\ RunByOne
  BY DEF PoolInit, HoldInv, RunByOne, Busy, Taken

\* A job that was dequeued was queued.
LEMMA HeldWasAdded ==
  ASSUME PoolTypeOK, ListInv, HoldInv, NEW w \in Workers, Busy(w)
  PROVE  /\ pJob[w] \in Jobs /\ pJob[w] # NoJob
         /\ \E n \in 1..Taken : n \in 1..Len(added) /\ added[n] = pJob[w]
<1>1. PICK n \in 1..Taken : fetched[n] = pJob[w]
  BY DEF HoldInv
<1>2. n \in 1..Len(added) /\ added[n] = pJob[w] /\ fetched[n] \in Jobs
  BY <1>1 DEF ListInv, ListShape, FIFO, PoolTypeOK, Taken
<1> QED BY <1>1, <1>2, JobsAssumption

\* The worker that dequeues a job gets one that nobody has.
LEMMA HoldFetch ==
  ASSUME PoolTypeOK, ListInv, HoldInv, RunByOne, NEW w \in Workers, Fetch(w)
  PROVE  HoldInv' /\ RunByOne'
<1>1. /\ m_pFirstJob = added[Taken + 1] /\ Taken < Len(added)
      /\ Taken \in Nat /\ Len(added) \in Nat /\ Taken + 1 \in 1..Len(added)
  BY ListInvFetch DEF Taken, PoolTypeOK
<1>2. /\ Taken' = Taken + 1 /\ fetched'[Taken + 1] = m_pFirstJob
      /\ \A n \in 1..Taken : fetched'[n] = fetched[n]
      /\ pJob' = [pJob EXCEPT ![w] = m_pFirstJob]
      /\ pc' = [pc EXCEPT ![w] = "run"]
      /\ pc[w] = "fetch"
      /\ added' = added /\ mainJob' = mainJob /\ mainPc' = mainPc
  BY <1>1 DEF Fetch, Taken, PoolTypeOK, mainVars
<1>3. ASSUME NEW v \in Workers, Busy(v) PROVE pJob[v] # m_pFirstJob
  <2>1. PICK n \in 1..Taken : n \in 1..Len(added) /\ added[n] = pJob[v]
    BY <1>3, HeldWasAdded
  <2> QED BY <1>1, <2>1 DEF ListInv, AddedOnce
<1>4. mainJob # m_pFirstJob
  <2>1. m_pFirstJob \in Jobs
    BY <1>1 DEF PoolTypeOK
  <2> QED BY <1>1, <2>1, JobsAssumption DEF HoldInv
<1>5. \A v \in Workers : Busy(v)' => v = w \/ (Busy(v) /\ pJob'[v] = pJob[v])
  BY <1>2 DEF Busy, PoolTypeOK
<1>6. pJob'[w] = m_pFirstJob
  BY <1>2 DEF PoolTypeOK
<1>7. HoldInv'
  <2>1. ASSUME NEW v \in Workers, Busy(v)' PROVE \E n \in 1..Taken' : fetched'[n] = pJob'[v]
    <3>1. CASE v = w
      BY <1>1, <1>2, <1>6, <3>1
    <3>2. CASE v # w
      <4>1. PICK n \in 1..Taken : fetched[n] = pJob[v]
        BY <1>5, <2>1, <3>2 DEF HoldInv
      <4> QED BY <1>1, <1>2, <1>5, <2>1, <3>2, <4>1
    <3> QED BY <3>1, <3>2
  <2> QED BY <1>2, <2>1 DEF HoldInv
<1>8. RunByOne'
  BY <1>2, <1>3, <1>4, <1>5, <1>6 DEF RunByOne, Busy
<1> QED BY <1>7, <1>8

\* The other steps of a worker take no job.
LEMMA HoldWorker ==
  ASSUME PoolTypeOK, ListInv, HoldInv, RunByOne, NEW w \in Workers, Worker(w), ~Fetch(w)
  PROVE  HoldInv' /\ RunByOne'
<1>1. /\ UNCHANGED <<added, fetched, mainJob, mainPc>>
      /\ \A v \in Workers : Busy(v)' => Busy(v) /\ pJob'[v] = pJob[v]
  BY DEF Worker, LoopTest, SemaphoreWait, FetchNothing, RunBegin, RunEnd, PoolTypeOK, Busy,
         listVars, mainVars
<1> QED BY <1>1 DEF HoldInv, RunByOne, Busy, Taken

\* The owning thread runs a job by itself that is not in the list, and queues no
\* job while it does.
LEMMA HoldMain ==
  ASSUME PoolTypeOK, ListInv, HoldInv, RunByOne, UNCHANGED <<pc, pJob, fetched>>,
         \/ \E j \in Jobs : Add(j) \/ RunBlockingBegin(j)
         \/ Destroy \/ MainProgress
  PROVE  HoldInv' /\ RunByOne'
<1>0. /\ Taken' = Taken /\ \A v \in Workers : Busy(v)' = Busy(v)
      /\ \A v \in Workers : Busy(v) => \E n \in 1..Taken : fetched'[n] = pJob'[v]
  BY DEF Taken, Busy, HoldInv
<1>1. ASSUME NEW j \in Jobs, Add(j) PROVE HoldInv' /\ RunByOne'
  <2>1. mainJob = NoJob /\ mainJob' = NoJob
    BY <1>1 DEF HoldInv, Add
  <2> QED BY <1>0, <2>1 DEF HoldInv, RunByOne, Busy
<1>2. ASSUME NEW j \in Jobs, RunBlockingBegin(j) PROVE HoldInv' /\ RunByOne'
  <2>1. mainJob' = j /\ mainPc' = "blocking" /\ added' = added
    BY <1>2 DEF RunBlockingBegin, listVars
  <2>2. \A n \in 1..Len(added) : added[n] # j
    BY <1>2 DEF RunBlockingBegin, InQueueOrDone
  <2>3. ASSUME NEW v \in Workers, Busy(v) PROVE pJob[v] # j
    BY <2>2, <2>3, HeldWasAdded
  <2> QED BY <1>0, <2>1, <2>2, <2>3 DEF HoldInv, RunByOne, Busy
<1>3. CASE Destroy \/ MainProgress
  <2>1. /\ added' = added
        /\ mainJob' # NoJob => mainJob' = mainJob /\ mainPc' = mainPc
    BY <1>3 DEF HoldInv, Destroy, MainProgress, AddSignal, RunBlockingEnd, DestroySignal,
                DestroyJoined, listVars
  <2>2. ASSUME NEW v \in Workers, Busy(v) PROVE pJob[v] # NoJob
    BY <2>2, HeldWasAdded
  <2> QED BY <1>0, <2>1, <2>2 DEF HoldInv, RunByOne, Busy
<1> QED BY <1>1, <1>2, <1>3

\* Every step leaves each job in the hands of one thread.
LEMMA HoldStep ==
  PoolTypeOK /\ ListInv /\ HoldInv /\ RunByOne /\ [PoolNext]_poolVars => HoldInv' /\ RunByOne'
<1> SUFFICES ASSUME PoolTypeOK, ListInv, HoldInv, RunByOne, [PoolNext]_poolVars
             PROVE  HoldInv' /\ RunByOne'
  OBVIOUS
<1>1. CASE \/ \E j \in Jobs : Add(j) \/ RunBlockingBegin(j)
           \/ Destroy \/ MainProgress
  <2>1. UNCHANGED <<pc, pJob, fetched>>
    BY <1>1 DEF Add, RunBlockingBegin, Destroy, MainProgress, AddSignal, RunBlockingEnd,
                DestroySignal, DestroyJoined, listVars
  <2> QED BY <1>1, <2>1, HoldMain
<1>2. ASSUME NEW w \in Workers, Worker(w) PROVE HoldInv' /\ RunByOne'
  BY <1>2, HoldFetch, HoldWorker
<1>3. CASE UNCHANGED poolVars
  BY <1>3 DEF poolVars, HoldInv, RunByOne, Busy, Taken
<1> QED BY <1>1, <1>2, <1>3 DEF PoolNext, Terminated

\* No two threads ever have the same job, so none is run twice: neither two
\* workers, nor a worker and the owning thread in RunBlocking.
THEOREM JobsRunByOne == PoolSpec => []RunByOne
<1>1. PoolSpec => [](PoolTypeOK /\ ListInv /\ HoldInv /\ RunByOne)
  BY PoolTypeInit, PoolTypeStep, ListInvInit, ListInvStep, HoldInit, HoldStep, PTL DEF PoolSpec
<1> QED BY <1>1, PTL

-----------------------------------------------------------------------------
(* The asynchronous file output.                                           *)

OwnerPcs == {"idle", "closeSignal", "closed", "waitSignal", "join", "waited", "freeing", "gone"}
ThreadPcs == {"lock", "sleep", "io", "freeing", "done"}

RingType ==
  /\ buffer_size \in Nat \ {0}
  /\ buffer \in [0..buffer_size - 1 -> Nat]
  /\ read_pos \in 0..buffer_size - 1 /\ write_pos \in 0..buffer_size - 1

StatusType ==
  /\ error \in BOOLEAN /\ result_io_error \in BOOLEAN /\ broken \in BOOLEAN
  /\ finish \in {"RUNNING", "CLOSE", "EXIT"}

PcType ==
  /\ ownerPc \in OwnerPcs /\ threadPc \in ThreadPcs
  /\ writerPc \in [Writers -> {"idle", "signal"}]

BytesType ==
  /\ local_buffer \in Seq(Nat) /\ file \in Seq(Nat) /\ written \in Seq(Nat)
  /\ owed \in Nat

\* Types of the state the proofs are about.
TypeOK == RingType /\ StatusType /\ PcType /\ BytesType

\* The place of the k-th byte of the ring.
Wrap(p, n) == IF p < n THEN p ELSE p - n
At(k) == Wrap(read_pos + k - 1, buffer_size)

\* The bytes are numbered from 1, and while the file takes them, each is in the
\* file, in the buffer of the thread or in the ring, where its number says.
Numbered == \A k \in 1..Len(written) : written[k] = k
InTransit ==
  ~broken =>
    /\ Len(file) + Len(local_buffer) + buffer_len = Len(written)
    /\ \A k \in 1..Len(file) : file[k] = k
    /\ \A k \in 1..Len(local_buffer) : local_buffer[k] = Len(file) + k
    /\ \A k \in 1..buffer_len : buffer[At(k)] = Len(file) + Len(local_buffer) + k

\* The thread exits only with an empty ring, and what was written when the end was
\* asked for is no more than what is written.
Flushed ==
  /\ threadPc # "io" => local_buffer = <<>>
  /\ result_io_error = broken
  /\ owed <= Len(written)
  /\ threadPc \in {"freeing", "done"} => /\ finish # "RUNNING"
                                         /\ error \/ Len(file) >= owed
  /\ ownerPc = "waited" => threadPc = "done"

\* The count is the number of those that hold the handle.
OwnerHolds == IF ownerPc \in {"freeing", "gone"} THEN 0 ELSE 1
ThreadHolds == IF threadPc \in {"freeing", "done"} THEN 0 ELSE 1
Counted ==
  /\ refcount = OwnerHolds + ThreadHolds
  /\ freed = IF ownerPc = "gone" /\ threadPc = "done" THEN 1 ELSE 0
  /\ ownerPc = "freeing" => threadPc = "done"
  /\ threadPc = "freeing" => ownerPc = "gone"
  /\ ownerPc \in {"freeing", "gone"} => \A w \in Writers : writerPc[w] = "idle"

IInv == TypeOK /\ Numbered /\ InTransit /\ Flushed /\ Counted

-----------------------------------------------------------------------------
(* What the helpers compute.                                               *)

\* A position is wrapped by at most one subtraction.
LEMMA WrapMod ==
  ASSUME NEW n \in Nat \ {0}, NEW p \in 0..2 * n - 1
  PROVE  p % n = Wrap(p, n) /\ Wrap(p, n) \in 0..n - 1
<1>1. CASE p < n
  BY <1>1 DEF Wrap
<1>2. CASE p >= n
  <2> DEFINE q == p - n
  <2>1. q \in 0..n - 1 /\ p = q + n
    BY <1>2
  <2>2. (q + n) % n = q
    <3> HIDE DEF q
    <3> QED BY <2>1
  <2> QED BY <1>2, <2>1, <2>2 DEF Wrap
<1> QED BY <1>1, <1>2

\* The smaller of two numbers, as mem_copy lengths are chosen.
LEMMA MinOfTwo ==
  ASSUME NEW a \in Nat, NEW b \in Nat
  PROVE  Min({a, b}) = IF a <= b THEN a ELSE b
<1> DEFINE m == IF a <= b THEN a ELSE b
<1>1. m \in {a, b} /\ \A y \in {a, b} : m <= y
  OBVIOUS
<1>2. \A x \in {a, b} : (\A y \in {a, b} : x <= y) => x = m
  OBVIOUS
<1> QED BY <1>1, <1>2 DEF Min

\* A block of the ring.
LEMMA BlockAt ==
  ASSUME RingType, NEW pos \in Nat, NEW n \in Nat, pos + n <= buffer_size
  PROVE  /\ Block(pos, n) \in Seq(Nat) /\ Len(Block(pos, n)) = n
         /\ \A k \in 1..n : Block(pos, n)[k] = buffer[pos + k - 1]
<1>1. \A k \in 1..n : buffer[pos + k - 1] \in Nat
  BY DEF RingType
<1> QED BY <1>1 DEF Block

\* The content of the ring.
LEMMA ContentAt ==
  ASSUME RingType
  PROVE  /\ Content \in Seq(Nat) /\ Len(Content) = buffer_len
         /\ buffer_len \in 0..buffer_size - 1
         /\ \A k \in 1..buffer_len : Content[k] = buffer[At(k)]
<1>1. /\ len1 \in Nat /\ len2 \in Nat /\ read_pos \in Nat /\ 0 \in Nat
      /\ read_pos + len1 <= buffer_size /\ 0 + len2 <= buffer_size
      /\ len1 + len2 = buffer_len /\ buffer_len \in 0..buffer_size - 1
  BY DEF RingType, len1, len2, buffer_len
<1>2. \A k \in 1..buffer_len : At(k) = IF k <= len1 THEN read_pos + k - 1 ELSE k - len1 - 1
  BY DEF RingType, len1, len2, buffer_len, At, Wrap
<1> DEFINE b1 == Block(read_pos, len1)
           b2 == Block(0, len2)
<1>3. /\ b1 \in Seq(Nat) /\ Len(b1) = len1
      /\ \A k \in 1..len1 : b1[k] = buffer[read_pos + k - 1]
  BY <1>1, BlockAt
<1>4. /\ b2 \in Seq(Nat) /\ Len(b2) = len2
      /\ \A k \in 1..len2 : b2[k] = buffer[0 + k - 1]
  BY <1>1, BlockAt
<1> HIDE DEF b1, b2
<1>5. /\ b1 \o b2 \in Seq(Nat) /\ Len(b1 \o b2) = len1 + len2
      /\ \A k \in 1..len1 + len2 : (b1 \o b2)[k] = IF k <= len1 THEN b1[k] ELSE b2[k - len1]
  BY <1>3, <1>4, ConcatProperties
<1>6. ASSUME NEW k \in 1..buffer_len PROVE (b1 \o b2)[k] = buffer[At(k)]
  <2>1. CASE k <= len1
    BY <1>1, <1>2, <1>3, <1>5, <2>1
  <2>2. CASE k > len1
    <3>1. k - len1 \in 1..len2 /\ ~(k <= len1) /\ 0 + (k - len1) - 1 = k - len1 - 1
      BY <1>1, <2>2
    <3>2. b2[k - len1] = buffer[0 + (k - len1) - 1]
      BY <1>4, <3>1
    <3>3. 0 + (k - len1) - 1 = At(k)
      BY <1>2, <3>1
    <3>4. (b1 \o b2)[k] = b2[k - len1]
      BY <1>1, <1>5, <3>1
    <3> QED BY <3>2, <3>3, <3>4
  <2>3. k <= len1 \/ k > len1
    BY <1>1
  <2> QED BY <2>1, <2>2, <2>3
<1>7. Content = b1 \o b2
  BY DEF Content, b1, b2
<1> QED BY <1>1, <1>5, <1>6, <1>7

\* Bytes come behind the ones the ring holds.
Appended(bytes) ==
  /\ RingType'
  /\ buffer_len' = buffer_len + Len(bytes)
  /\ \A k \in 1..buffer_len + Len(bytes) :
       buffer'[At(k)'] = IF k <= buffer_len THEN buffer[At(k)] ELSE bytes[k - buffer_len]

\* mem_copy.
LEMMA CopiedAt ==
  ASSUME NEW size \in Nat, NEW buf \in [0..size - 1 -> Nat], NEW pos \in Nat,
         NEW bytes \in Seq(Nat)
  PROVE  /\ Copied(buf, pos, bytes) \in [0..size - 1 -> Nat]
         /\ \A p \in 0..size - 1 :
              Copied(buf, pos, bytes)[p] =
                IF pos <= p /\ p < pos + Len(bytes) THEN bytes[p - pos + 1] ELSE buf[p]
<1>1. Len(bytes) \in Nat /\ \A k \in 1..Len(bytes) : bytes[k] \in Nat
  BY LenProperties
<1>2. \A p \in 0..size - 1 :
        /\ p \in pos..pos + Len(bytes) - 1 <=> pos <= p /\ p < pos + Len(bytes)
        /\ p \in pos..pos + Len(bytes) - 1 => p - pos + 1 \in 1..Len(bytes)
  BY <1>1
<1> QED BY <1>1, <1>2 DEF Copied

\* A write that fits, in one block or in two.
LEMMA WriteInPlaceAppends ==
  ASSUME RingType, NEW bytes \in Seq(Nat), WriteInPlace(bytes)
  PROVE  Appended(bytes)
<1> DEFINE n == Len(bytes)
           room == buffer_size - write_pos
           first == Min({Len(bytes), buffer_size - write_pos})
           b1 == SubSeq(bytes, 1, first)
           b2 == SubSeq(bytes, first + 1, Len(bytes))
           mid == Copied(buffer, write_pos, b1)
<1>0. write_pos' = (write_pos + n) % buffer_size
  BY DEF WriteInPlace
<1>1. /\ buffer' = Copied(mid, 0, b2)
      /\ buffer_size' = buffer_size /\ read_pos' = read_pos /\ n < buffer_size - buffer_len
  BY DEF WriteInPlace, Fits
<1>2. n \in Nat /\ room \in Nat \ {0} /\ \A k \in 1..n : bytes[k] \in Nat
  BY LenProperties DEF RingType
<1>3. first = (IF n <= room THEN n ELSE room) /\ first \in Nat /\ first <= n /\ first <= room
  BY <1>2, MinOfTwo
<1> HIDE DEF n, room, first
<1>4. /\ b1 \in Seq(Nat) /\ Len(b1) = first
      /\ \A k \in 1..first : b1[k] = bytes[k]
  <2>1. \A k \in 1..first : bytes[k] \in Nat
    BY <1>2, <1>3
  <2> QED BY <1>3, <2>1, SubSeqProperties
<1>5. /\ b2 \in Seq(Nat) /\ Len(b2) = n - first
      /\ \A k \in 1..n - first : b2[k] = bytes[first + k]
  <2>1. \A k \in first + 1..n : bytes[k] \in Nat
    BY <1>2, <1>3
  <2>2. first + 1 \in Int /\ n \in Int
    BY <1>2, <1>3
  <2>3. /\ b2 \in Seq(Nat)
        /\ Len(b2) = IF first + 1 <= n THEN n - (first + 1) + 1 ELSE 0
        /\ \A k \in 1..n - (first + 1) + 1 : b2[k] = bytes[(first + 1) + k - 1]
    BY <2>1, <2>2, SubSeqProperties DEF n
  <2>4. /\ n - (first + 1) + 1 = n - first
        /\ n - first = IF first + 1 <= n THEN n - (first + 1) + 1 ELSE 0
        /\ \A k \in 1..n - first : (first + 1) + k - 1 = first + k
    BY <1>2, <1>3
  <2> HIDE DEF b2
  <2> QED BY <2>3, <2>4
<1> HIDE DEF b1, b2
<1>6. /\ mid \in [0..buffer_size - 1 -> Nat]
      /\ \A p \in 0..buffer_size - 1 :
           mid[p] = IF write_pos <= p /\ p < write_pos + first
                    THEN bytes[p - write_pos + 1] ELSE buffer[p]
  <2>1. /\ mid \in [0..buffer_size - 1 -> Nat]
        /\ \A p \in 0..buffer_size - 1 :
           mid[p] = IF write_pos <= p /\ p < write_pos + first
                    THEN b1[p - write_pos + 1] ELSE buffer[p]
    <3>1. buffer_size \in Nat /\ buffer \in [0..buffer_size - 1 -> Nat] /\ write_pos \in Nat
      BY DEF RingType
    <3>2. /\ mid \in [0..buffer_size - 1 -> Nat]
          /\ \A p \in 0..buffer_size - 1 :
             mid[p] = IF write_pos <= p /\ p < write_pos + Len(b1)
                      THEN b1[p - write_pos + 1] ELSE buffer[p]
      BY <1>4, <3>1, CopiedAt
    <3> HIDE DEF mid
    <3> QED BY <1>4, <3>2
  <2>2. \A p \in 0..buffer_size - 1 : write_pos <= p /\ p < write_pos + first =>
            p - write_pos + 1 \in 1..first
    BY <1>3 DEF RingType
  <2> QED BY <1>4, <2>1, <2>2
<1> HIDE DEF mid
<1>7. /\ buffer' \in [0..buffer_size - 1 -> Nat]
      /\ \A p \in 0..buffer_size - 1 :
           buffer'[p] = IF p < n - first THEN bytes[first + p + 1] ELSE mid[p]
  <2>1. /\ buffer' \in [0..buffer_size - 1 -> Nat]
        /\ \A p \in 0..buffer_size - 1 :
           buffer'[p] = IF 0 <= p /\ p < 0 + Len(b2) THEN b2[p - 0 + 1] ELSE mid[p]
    <3>1. buffer_size \in Nat /\ 0 \in Nat
      BY DEF RingType
    <3> QED BY <1>1, <1>5, <1>6, <3>1, CopiedAt
  <2>2. \A p \in 0..buffer_size - 1 : p < n - first =>
            p - 0 + 1 \in 1..n - first /\ first + (p - 0 + 1) = first + p + 1
    BY <1>2, <1>3 DEF RingType
  <2>3. \A p \in 0..buffer_size - 1 : (0 <= p /\ p < 0 + Len(b2)) <=> p < n - first
    BY <1>2, <1>3, <1>5
  <2> QED BY <1>5, <2>1, <2>2, <2>3
<1>8. /\ write_pos' = Wrap(write_pos + n, buffer_size) /\ write_pos' \in 0..buffer_size - 1
      /\ buffer_len \in 0..buffer_size - 1
  <2>1. buffer_len \in 0..buffer_size - 1
    BY ContentAt
  <2>2. write_pos + n \in 0..2 * buffer_size - 1 /\ buffer_size \in Nat \ {0}
    BY <1>1, <1>2, <2>1 DEF RingType
  <2> QED BY <1>0, <2>1, <2>2, WrapMod
<1>9. RingType' /\ buffer_len' = buffer_len + n
  <2>1. RingType'
    BY <1>1, <1>7, <1>8 DEF RingType
  <2>2. /\ read_pos \in 0..buffer_size - 1 /\ write_pos \in 0..buffer_size - 1
        /\ buffer_size \in Nat /\ n \in Nat /\ n < buffer_size - buffer_len
        /\ read_pos' = read_pos /\ buffer_size' = buffer_size
        /\ write_pos' = IF write_pos + n < buffer_size THEN write_pos + n
                                                      ELSE write_pos + n - buffer_size
    BY <1>1, <1>2, <1>8 DEF RingType, Wrap
  <2>3. buffer_len' = buffer_len + n
    BY <2>2 DEF buffer_len
  <2> QED BY <2>1, <2>3
<1>10. ASSUME NEW k \in 1..buffer_len + n
       PROVE  buffer'[At(k)'] = IF k <= buffer_len THEN buffer[At(k)] ELSE bytes[k - buffer_len]
  <2>1. At(k)' = At(k) /\ At(k) \in 0..buffer_size - 1
    BY <1>1, <1>2, <1>8 DEF At, Wrap, RingType
  <2>2. CASE k <= buffer_len
    <3>1. ~(At(k) < n - first) /\ ~(write_pos <= At(k) /\ At(k) < write_pos + first)
      BY <1>1, <1>2, <1>3, <1>8, <2>2 DEF At, Wrap, RingType, buffer_len, room
    <3> QED BY <1>6, <1>7, <2>1, <2>2, <3>1
  <2>3. CASE k > buffer_len /\ k - buffer_len <= first
    <3>1. /\ ~(At(k) < n - first) /\ write_pos <= At(k) /\ At(k) < write_pos + first
          /\ At(k) - write_pos + 1 = k - buffer_len /\ ~(k <= buffer_len)
      BY <1>1, <1>2, <1>3, <1>8, <2>3 DEF At, Wrap, RingType, buffer_len, room
    <3> QED BY <1>6, <1>7, <2>1, <3>1
  <2>4. CASE k > buffer_len /\ k - buffer_len > first
    <3>1. At(k) < n - first /\ first + At(k) + 1 = k - buffer_len /\ ~(k <= buffer_len)
      BY <1>1, <1>2, <1>3, <1>8, <2>4 DEF At, Wrap, RingType, buffer_len, room
    <3> QED BY <1>7, <2>1, <3>1
  <2> QED BY <1>2, <1>3, <1>8, <2>2, <2>3, <2>4
<1> QED BY <1>9, <1>10 DEF Appended, n

\* A write that does not fit, to a larger buffer.
LEMMA GrowAppends ==
  ASSUME RingType, NEW bytes \in Seq(Nat), Grow(bytes)
  PROVE  Appended(bytes)
<1> DEFINE n == Len(bytes)
           all == Content \o bytes
<1>1. n \in Nat /\ buffer_len \in Nat /\ Len(Content) = buffer_len /\ Content \in Seq(Nat)
  BY LenProperties, ContentAt
<1>2. /\ all \in Seq(Nat) /\ Len(all) = buffer_len + n
      /\ \A k \in 1..buffer_len + n :
           all[k] = IF k <= buffer_len THEN Content[k] ELSE bytes[k - buffer_len]
  BY <1>1, ConcatProperties
<1>3. PICK size \in Len(all) + 1..buffer_size + 2 * (Len(all) + 1) : buffer_size' = size
  BY DEF Grow, next_buffer_size
<1>4. /\ buffer' = [p \in 0..size - 1 |-> IF p < Len(all) THEN all[p + 1] ELSE 0]
      /\ read_pos' = 0 /\ write_pos' = Len(all)
  BY <1>3 DEF Grow
<1> HIDE DEF n, all
<1>5. size \in Nat \ {0} /\ Len(all) \in 0..size - 1 /\ Len(all) = buffer_len + n
  BY <1>1, <1>2, <1>3 DEF RingType
<1>6. \A k \in 1..buffer_len + n : all[k] \in Nat
  BY <1>2, LenProperties
<1>7. RingType' /\ buffer_len' = buffer_len + n
  <2>1. \A p \in 0..size - 1 : (IF p < Len(all) THEN all[p + 1] ELSE 0) \in Nat
    BY <1>1, <1>5, <1>6
  <2>2. buffer' \in [0..size - 1 -> Nat]
    BY <1>4, <2>1
  <2>3. RingType'
    BY <1>3, <1>4, <1>5, <2>2 DEF RingType
  <2>4. buffer_len' = buffer_len + n
    BY <1>4, <1>5 DEF buffer_len
  <2> QED BY <2>3, <2>4
<1>8. ASSUME NEW k \in 1..buffer_len + n
      PROVE  buffer'[At(k)'] = IF k <= buffer_len THEN buffer[At(k)] ELSE bytes[k - buffer_len]
  <2>1. k - 1 \in 0..size - 1 /\ k - 1 < Len(all) /\ (k - 1) + 1 = k /\ k \in Nat
    BY <1>1, <1>5
  <2>2. At(k)' = k - 1
    BY <1>3, <1>4, <1>5, <2>1 DEF At, Wrap
  <2>3. buffer'[At(k)'] = all[k]
    BY <1>4, <2>1, <2>2
  <2>4. k <= buffer_len => Content[k] = buffer[At(k)]
    BY <1>1, <2>1, ContentAt
  <2> QED BY <1>2, <2>3, <2>4
<1> QED BY <1>7, <1>8 DEF Appended, n

\* The thread takes the first bytes of the ring.
LEMMA TakeBytesTakes ==
  ASSUME RingType, TakeBytes
  PROVE  /\ RingType' /\ local_buffer' \in Seq(Nat)
         /\ Len(local_buffer') \in 0..buffer_len
         /\ buffer_len' = buffer_len - Len(local_buffer')
         /\ \A k \in 1..Len(local_buffer') : local_buffer'[k] = buffer[At(k)]
         /\ \A k \in 1..buffer_len' : buffer'[At(k)'] = buffer[At(Len(local_buffer') + k)]
<1> DEFINE n1 == Min({len1, LocalSize})
           n2 == Min({len2, LocalSize - n1})
           b1 == Block(read_pos, n1)
           b2 == Block(0, n2)
<1>0. read_pos' = (read_pos + n1 + n2) % buffer_size
  BY DEF TakeBytes
<1>1. local_buffer' = b1 \o b2 /\ UNCHANGED <<buffer, buffer_size, write_pos>>
  BY DEF TakeBytes
<1>2. /\ len1 \in Nat /\ len2 \in Nat /\ read_pos + len1 <= buffer_size /\ len2 <= buffer_size
      /\ len1 + len2 = buffer_len /\ buffer_len \in 0..buffer_size - 1
  BY DEF RingType, len1, len2, buffer_len
<1>3. n1 \in 0..len1 /\ n1 <= LocalSize /\ (n1 = len1 \/ n1 = LocalSize)
  BY <1>2, MinOfTwo, SizesAssumption
<1>4. n2 \in 0..len2 /\ (n1 < len1 => n2 = 0)
  <2> HIDE DEF n1
  <2>1. LocalSize - n1 \in Nat
    BY <1>2, <1>3, SizesAssumption
  <2> QED BY <1>2, <1>3, <2>1, MinOfTwo, SizesAssumption
<1> HIDE DEF n1, n2
<1>5. /\ b1 \in Seq(Nat) /\ Len(b1) = n1
      /\ \A k \in 1..n1 : b1[k] = buffer[read_pos + k - 1]
  <2>1. n1 \in Nat /\ read_pos \in Nat /\ read_pos + n1 <= buffer_size
    BY <1>2, <1>3 DEF RingType
  <2> QED BY <2>1, BlockAt
<1>6. /\ b2 \in Seq(Nat) /\ Len(b2) = n2
      /\ \A k \in 1..n2 : b2[k] = buffer[0 + k - 1]
  <2>1. n2 \in Nat /\ 0 \in Nat /\ 0 + n2 <= buffer_size
    BY <1>2, <1>4 DEF RingType
  <2> QED BY <2>1, BlockAt
<1> HIDE DEF b1, b2
<1> DEFINE n == n1 + n2
<1>7. /\ local_buffer' \in Seq(Nat) /\ Len(local_buffer') = n /\ n \in 0..buffer_len
      /\ \A k \in 1..n : local_buffer'[k] = IF k <= n1 THEN b1[k] ELSE b2[k - n1]
  <2>1. /\ b1 \o b2 \in Seq(Nat) /\ Len(b1 \o b2) = n1 + n2
        /\ \A k \in 1..n1 + n2 : (b1 \o b2)[k] = IF k <= n1 THEN b1[k] ELSE b2[k - n1]
    BY <1>5, <1>6, ConcatProperties
  <2>2. n \in 0..buffer_len
    BY <1>2, <1>3, <1>4
  <2> QED BY <1>1, <2>1, <2>2
<1>8. ASSUME NEW k \in 1..n PROVE local_buffer'[k] = buffer[At(k)]
  <2>1. CASE k <= n1
    <3>1. At(k) = read_pos + k - 1 /\ k \in 1..n1
      BY <1>2, <1>3, <1>4, <2>1 DEF At, Wrap, RingType
    <3> QED BY <1>5, <1>7, <2>1, <3>1
  <2>2. CASE k > n1
    <3>1. k - n1 \in 1..n2 /\ ~(k <= n1)
      BY <1>3, <1>4, <2>2
    <3>2. b2[k - n1] = buffer[0 + (k - n1) - 1]
      BY <1>6, <3>1
    <3>3. n1 = len1 /\ n2 # 0
      BY <1>2, <1>3, <1>4, <3>1
    <3>4. 0 + (k - n1) - 1 = At(k)
      BY <1>2, <1>3, <1>4, <3>1, <3>3 DEF At, Wrap, RingType, len1, len2
    <3>5. local_buffer'[k] = b2[k - n1]
      BY <1>7, <3>1
    <3> QED BY <3>2, <3>4, <3>5
  <2>3. k <= n1 \/ k > n1
    BY <1>2, <1>3, <1>4
  <2> QED BY <2>1, <2>2, <2>3
<1>9. read_pos' = Wrap(read_pos + n, buffer_size) /\ read_pos' \in 0..buffer_size - 1
  <2>1. read_pos + n \in 0..2 * buffer_size - 1 /\ read_pos + n1 + n2 = read_pos + n
    BY <1>2, <1>3, <1>4 DEF RingType
  <2> QED BY <1>0, <2>1, WrapMod DEF RingType
<1>10. RingType' /\ buffer_len' = buffer_len - n
  <2>1. RingType'
    BY <1>1, <1>9 DEF RingType
  <2> HIDE DEF n
  <2>2. /\ read_pos \in 0..buffer_size - 1 /\ write_pos \in 0..buffer_size - 1
        /\ buffer_size \in Nat /\ n \in 0..buffer_len
        /\ write_pos' = write_pos /\ buffer_size' = buffer_size
        /\ read_pos' = IF read_pos + n < buffer_size THEN read_pos + n
                                                    ELSE read_pos + n - buffer_size
    BY <1>1, <1>7, <1>9 DEF RingType, Wrap
  <2>3. buffer_len' = buffer_len - n
    BY <2>2 DEF buffer_len
  <2> QED BY <2>1, <2>3
<1>11. ASSUME NEW k \in 1..buffer_len - n PROVE At(k)' = At(n + k)
  <2> HIDE DEF n
  <2>1. /\ read_pos \in 0..buffer_size - 1 /\ buffer_size \in Nat /\ k \in Nat
        /\ n \in 0..buffer_size - 1 /\ n + k <= buffer_size
        /\ buffer_size' = buffer_size
        /\ read_pos' = IF read_pos + n < buffer_size THEN read_pos + n
                                                    ELSE read_pos + n - buffer_size
    BY <1>1, <1>2, <1>7, <1>9 DEF RingType, Wrap
  <2> QED BY <2>1 DEF At, Wrap
<1> HIDE DEF n
<1> QED BY <1>1, <1>7, <1>8, <1>10, <1>11

-----------------------------------------------------------------------------
(* The invariant.                                                          *)

\* The bytes of one call of aio_write.
Bytes(size) == [k \in 1..size |-> Len(written) + k]

\* aio_write appends its bytes, in place or to a larger buffer.
LEMMA WriteAppends ==
  ASSUME TypeOK, Numbered, NEW w \in Writers, NEW size \in 1..MaxSize, Write(w, size)
  PROVE  /\ Appended(Bytes(size))
         /\ Len(Bytes(size)) = size /\ \A k \in 1..size : Bytes(size)[k] = Len(written) + k
         /\ written' \in Seq(Nat) /\ Len(written') = Len(written) + size
         /\ Numbered'
<1> DEFINE bytes == Bytes(size)
<1>1. size \in Nat /\ Len(written) \in Nat /\ written \in Seq(Nat)
  BY SizesAssumption, LenProperties DEF TypeOK, BytesType
<1>2. /\ bytes \in Seq(Nat) /\ Len(bytes) = size
      /\ \A k \in 1..size : bytes[k] = Len(written) + k
  <2>1. \A k \in 1..size : Len(written) + k \in Nat
    BY <1>1
  <2> QED BY <1>1, <2>1 DEF Bytes
<1>3. (WriteInPlace(bytes) \/ Grow(bytes)) /\ written' = written \o bytes
  BY DEF Write, Bytes
<1> HIDE DEF bytes
<1>4. Appended(bytes)
  BY <1>2, <1>3, WriteInPlaceAppends, GrowAppends DEF TypeOK
<1>5. /\ written \o bytes \in Seq(Nat) /\ Len(written \o bytes) = Len(written) + size
      /\ \A k \in 1..Len(written) + size :
           (written \o bytes)[k] = IF k <= Len(written) THEN written[k]
                                                        ELSE bytes[k - Len(written)]
  BY <1>1, <1>2, ConcatProperties
<1>6. \A k \in 1..Len(written) + size : (written \o bytes)[k] = k
  <2>1. SUFFICES ASSUME NEW k \in 1..Len(written) + size PROVE (written \o bytes)[k] = k
    OBVIOUS
  <2>2. CASE k <= Len(written)
    BY <1>1, <1>5, <2>2 DEF Numbered
  <2>3. CASE ~(k <= Len(written))
    <3>1. k - Len(written) \in 1..size /\ Len(written) + (k - Len(written)) = k
      BY <1>1, <2>3
    <3> QED BY <1>2, <1>5, <2>3, <3>1
  <2> QED BY <2>2, <2>3
<1>7. Numbered'
  BY <1>3, <1>5, <1>6 DEF Numbered
<1> QED BY <1>2, <1>3, <1>4, <1>5, <1>7 DEF bytes

\* A write to the file.
LEMMA WriteFileAppends ==
  ASSUME TypeOK, NEW ok \in BOOLEAN, WriteFile(ok)
  PROVE  /\ file' \in Seq(Nat) /\ local_buffer' = <<>> /\ local_buffer' \in Seq(Nat)
         /\ Len(local_buffer') = 0
         /\ broken' \in BOOLEAN /\ result_io_error' = broken'
         /\ ~broken' => /\ ~broken
                        /\ Len(file') = Len(file) + Len(local_buffer)
                        /\ \A k \in 1..Len(file') :
                             file'[k] = IF k <= Len(file) THEN file[k]
                                                          ELSE local_buffer[k - Len(file)]
<1>1. /\ file \o local_buffer \in Seq(Nat)
      /\ Len(file \o local_buffer) = Len(file) + Len(local_buffer)
      /\ \A k \in 1..Len(file) + Len(local_buffer) :
           (file \o local_buffer)[k] = IF k <= Len(file) THEN file[k]
                                                         ELSE local_buffer[k - Len(file)]
  BY ConcatProperties DEF TypeOK, BytesType
<1>2. CASE ok
  <2>1. file' = file \o local_buffer /\ local_buffer' = <<>>
    BY <1>2 DEF WriteFile
  <2>2. (broken' <=> broken) /\ broken' \in BOOLEAN /\ result_io_error' = broken'
    BY <1>2 DEF WriteFile, TypeOK, StatusType
  <2> QED BY <1>1, <2>1, <2>2
<1>3. CASE ~ok
  <2>1. file' = file /\ local_buffer' = <<>>
    BY <1>3 DEF WriteFile
  <2>2. broken' = TRUE /\ result_io_error' = broken'
    BY <1>3 DEF WriteFile, TypeOK, StatusType
  <2> QED BY <2>1, <2>2 DEF TypeOK, BytesType
<1> QED BY <1>2, <1>3

\* aio_new.
LEMMA InitInv ==
  ASSUME Init
  PROVE  IInv
<1>1. TypeOK
  <2>1. RingType
    BY SizesAssumption DEF Init, RingType
  <2>2. StatusType /\ PcType
    BY DEF Init, StatusType, PcType, OwnerPcs, ThreadPcs
  <2>3. BytesType
    BY DEF Init, BytesType
  <2> QED BY <2>1, <2>2, <2>3 DEF TypeOK
<1>2. Numbered /\ Flushed
  <2>1. Len(written) = 0
    BY DEF Init
  <2>2. Numbered
    BY <2>1 DEF Numbered
  <2>3. owed <= Len(written)
    BY <2>1 DEF Init
  <2>4. Flushed
    BY <2>3 DEF Init, Flushed
  <2> QED BY <2>2, <2>4
<1>3. InTransit
  <2>1. Len(file) = 0 /\ Len(local_buffer) = 0 /\ Len(written) = 0 /\ buffer_len = 0
    BY DEF Init, buffer_len
  <2> QED BY <2>1 DEF InTransit
<1>4. Counted
  BY DEF Init, Counted, OwnerHolds, ThreadHolds
<1> QED BY <1>1, <1>2, <1>3, <1>4 DEF IInv

\* Every step keeps the types.
LEMMA TypeStep ==
  ASSUME TypeOK, Numbered, [Next]_vars
  PROVE  TypeOK'
<1>1. ASSUME NEW w \in Writers, NEW size \in 1..MaxSize, Write(w, size) PROVE TypeOK'
  <2>1. RingType'
    BY <1>1, WriteAppends DEF Appended
  <2>2. StatusType'
    BY <1>1 DEF Write, fileVars, TypeOK, StatusType
  <2>3. PcType'
    BY <1>1 DEF Write, TypeOK, PcType
  <2>4. BytesType'
    <3>1. written' \in Seq(Nat)
      BY <1>1, WriteAppends
    <3> QED BY <1>1, <3>1 DEF Write, fileVars, TypeOK, BytesType
  <2> QED BY <2>1, <2>2, <2>3, <2>4 DEF TypeOK
<1>2. ASSUME NEW w \in Writers, WriteSignal(w) PROVE TypeOK'
  <2>1. RingType' /\ StatusType' /\ BytesType'
    BY <1>2 DEF WriteSignal, ring, fileVars, TypeOK, RingType, StatusType, BytesType
  <2>2. PcType'
    BY <1>2 DEF WriteSignal, TypeOK, PcType
  <2> QED BY <2>1, <2>2 DEF TypeOK
<1>3. CASE aio_close \/ aio_wait
  <2>1. RingType' /\ StatusType' /\ PcType'
    BY <1>3 DEF aio_close, aio_wait, ring, fileVars, TypeOK, RingType, StatusType, PcType, OwnerPcs
  <2>2. Owed \in Nat
    BY LenProperties DEF Owed, TypeOK, BytesType
  <2>3. BytesType'
    BY <1>3, <2>2 DEF aio_close, aio_wait, ring, fileVars, TypeOK, BytesType
  <2> QED BY <2>1, <2>3 DEF TypeOK
<1>4. CASE EndSignal \/ Joined \/ OwnerFrees \/ aio_free
  <2>1. RingType' /\ StatusType' /\ BytesType'
    BY <1>4 DEF EndSignal, Joined, OwnerFrees, aio_free, ring, fileVars, TypeOK, RingType,
                StatusType, BytesType
  <2>2. PcType'
    BY <1>4 DEF EndSignal, Joined, OwnerFrees, aio_free, TypeOK, PcType, OwnerPcs
  <2> QED BY <2>1, <2>2 DEF TypeOK
<1>5. CASE TakeBytes
  <2>1. RingType' /\ local_buffer' \in Seq(Nat)
    BY <1>5, TakeBytesTakes DEF TypeOK
  <2>2. StatusType' /\ PcType'
    BY <1>5 DEF TakeBytes, fileVars, TypeOK, StatusType, PcType, ThreadPcs
  <2>3. BytesType'
    BY <1>5, <2>1 DEF TakeBytes, fileVars, TypeOK, BytesType
  <2> QED BY <2>1, <2>2, <2>3 DEF TypeOK
<1>6. CASE Sleep \/ Exit \/ ThreadFrees \/ Wake
  <2>1. RingType' /\ StatusType' /\ BytesType'
    BY <1>6 DEF Sleep, Exit, ThreadFrees, Wake, ring, fileVars, TypeOK, RingType,
                StatusType, BytesType
  <2>2. PcType'
    BY <1>6 DEF Sleep, Exit, ThreadFrees, Wake, TypeOK, PcType, ThreadPcs
  <2> QED BY <2>1, <2>2 DEF TypeOK
<1>7. ASSUME NEW ok \in BOOLEAN, WriteFile(ok) PROVE TypeOK'
  <2>1. RingType' /\ PcType'
    BY <1>7 DEF WriteFile, ring, TypeOK, RingType, PcType, ThreadPcs
  <2>2. StatusType'
    BY <1>7, WriteFileAppends DEF WriteFile, TypeOK, StatusType
  <2>3. BytesType'
    BY <1>7, WriteFileAppends DEF WriteFile, TypeOK, BytesType
  <2> QED BY <2>1, <2>2, <2>3 DEF TypeOK
<1>8. CASE UNCHANGED vars
  BY <1>8 DEF vars, ring, fileVars, TypeOK, RingType, StatusType, PcType, BytesType
<1> QED BY <1>1, <1>2, <1>3, <1>4, <1>5, <1>6, <1>7, <1>8 DEF Next, Thread, OwnerProgress

\* Numbered, which only a write changes.
LEMMA NumberedStep ==
  ASSUME TypeOK, Numbered, [Next]_vars
  PROVE  Numbered'
<1>1. ASSUME NEW w \in Writers, NEW size \in 1..MaxSize, Write(w, size) PROVE Numbered'
  BY <1>1, WriteAppends
<1>2. ASSUME UNCHANGED written PROVE Numbered'
  BY <1>2 DEF Numbered
<1>3. ASSUME NEW w \in Writers, WriteSignal(w) PROVE Numbered'
  BY <1>2, <1>3 DEF WriteSignal
<1>4. CASE aio_close \/ aio_wait \/ aio_free \/ EndSignal \/ Joined \/ OwnerFrees
  BY <1>2, <1>4 DEF aio_close, aio_wait, aio_free, EndSignal, Joined, OwnerFrees
<1>5. CASE TakeBytes \/ Sleep \/ Exit \/ ThreadFrees \/ Wake
  BY <1>2, <1>5 DEF TakeBytes, Sleep, Exit, ThreadFrees, Wake
<1>6. ASSUME NEW ok \in BOOLEAN, WriteFile(ok) PROVE Numbered'
  BY <1>2, <1>6 DEF WriteFile
<1>7. CASE UNCHANGED vars
  BY <1>2, <1>7 DEF vars
<1> QED BY <1>1, <1>3, <1>4, <1>5, <1>6, <1>7 DEF Next, Thread, OwnerProgress

\* What moves a byte moves it to its place.
LEMMA InTransitStep ==
  ASSUME TypeOK, Numbered, InTransit, Flushed, [Next]_vars
  PROVE  InTransit'
<1> USE DEF TypeOK
<1>0. /\ Len(file) \in Nat /\ Len(local_buffer) \in Nat /\ Len(written) \in Nat
      /\ buffer_len \in 0..buffer_size - 1 /\ buffer_size \in Nat
  BY LenProperties, ContentAt DEF RingType, BytesType
<1>1. ASSUME NEW w \in Writers, NEW size \in 1..MaxSize, Write(w, size) PROVE InTransit'
  <2>1. UNCHANGED <<file, local_buffer, broken>>
    BY <1>1 DEF Write, fileVars
  <2>2. /\ buffer_len' = buffer_len + size /\ Len(written') = Len(written) + size
        /\ \A k \in 1..buffer_len + size :
             buffer'[At(k)'] = IF k <= buffer_len THEN buffer[At(k)]
                                                  ELSE Bytes(size)[k - buffer_len]
        /\ \A k \in 1..size : Bytes(size)[k] = Len(written) + k
    BY <1>1, WriteAppends DEF Appended
  <2>3. size \in Nat
    BY SizesAssumption
  <2>4. ASSUME ~broken, NEW k \in 1..buffer_len + size
        PROVE  buffer'[At(k)'] = Len(file) + Len(local_buffer) + k
    <3>1. CASE k <= buffer_len
      BY <1>0, <2>2, <2>3, <2>4, <3>1 DEF InTransit
    <3>2. CASE ~(k <= buffer_len)
      <4>1. /\ k - buffer_len \in 1..size
            /\ Len(written) = Len(file) + Len(local_buffer) + buffer_len
        BY <1>0, <2>3, <2>4, <3>2 DEF InTransit
      <4>2. buffer'[At(k)'] = Len(written) + (k - buffer_len)
        BY <2>2, <3>2, <4>1
      <4>3. Len(written) + (k - buffer_len) = Len(file) + Len(local_buffer) + k
        BY <1>0, <2>3, <4>1
      <4> QED BY <4>2, <4>3
    <3> QED BY <3>1, <3>2
  <2>5. ~broken => Len(file) + Len(local_buffer) + (buffer_len + size) = Len(written) + size
    BY <1>0, <2>3 DEF InTransit
  <2> QED BY <2>1, <2>2, <2>4, <2>5 DEF InTransit
<1>2. CASE TakeBytes
  <2>1. local_buffer = <<>> /\ Len(local_buffer) = 0
    BY <1>2 DEF TakeBytes, Flushed
  <2>2. UNCHANGED <<file, broken, written>>
    BY <1>2 DEF TakeBytes, fileVars
  <2>3. PICK n \in 0..buffer_len : Len(local_buffer') = n
    BY <1>2, TakeBytesTakes
  <2>4. /\ buffer_len' = buffer_len - n
        /\ \A k \in 1..n : local_buffer'[k] = buffer[At(k)]
        /\ \A k \in 1..buffer_len - n : buffer'[At(k)'] = buffer[At(n + k)]
    BY <1>2, <2>3, TakeBytesTakes
  <2>5. ASSUME ~broken
        PROVE  /\ Len(file) + n + (buffer_len - n) = Len(written)
               /\ \A k \in 1..n : local_buffer'[k] = Len(file) + k
    <3>1. Len(file) + n + (buffer_len - n) = Len(written)
      <4>1. Len(file) + Len(local_buffer) + buffer_len = Len(written)
        BY <2>5 DEF InTransit
      <4> QED BY <1>0, <2>1, <2>3, <4>1
    <3>2. ASSUME NEW k \in 1..n PROVE local_buffer'[k] = Len(file) + k
      <4>1. k \in 1..buffer_len
        BY <1>0, <2>3
      <4>2. buffer[At(k)] = Len(file) + Len(local_buffer) + k
        BY <2>5, <4>1 DEF InTransit
      <4>3. Len(file) + Len(local_buffer) + k = Len(file) + k
        BY <1>0, <2>1
      <4> QED BY <2>4, <4>2, <4>3
    <3> QED BY <3>1, <3>2
  <2>6. ASSUME ~broken, NEW k \in 1..buffer_len - n
        PROVE  buffer'[At(k)'] = Len(file) + n + k
    <3>1. n + k \in 1..buffer_len
      BY <1>0, <2>3
    <3>2. buffer[At(n + k)] = Len(file) + Len(local_buffer) + (n + k)
      BY <2>6, <3>1 DEF InTransit
    <3>3. Len(file) + Len(local_buffer) + (n + k) = Len(file) + n + k
      BY <1>0, <2>1, <2>3
    <3> QED BY <2>4, <3>2, <3>3
  <2> QED BY <2>2, <2>3, <2>4, <2>5, <2>6 DEF InTransit
<1>3. ASSUME NEW ok \in BOOLEAN, WriteFile(ok) PROVE InTransit'
  <2>1. UNCHANGED <<ring, written>>
    BY <1>3 DEF WriteFile
  <2>2. buffer_len' = buffer_len /\ \A k \in 1..buffer_len : At(k)' = At(k)
    BY <2>1 DEF ring, buffer_len, At
  <2>3. /\ Len(local_buffer') = 0
        /\ ~broken' => /\ ~broken
                       /\ Len(file') = Len(file) + Len(local_buffer)
                       /\ \A k \in 1..Len(file') :
                             file'[k] = IF k <= Len(file) THEN file[k]
                                                          ELSE local_buffer[k - Len(file)]
    BY <1>3, WriteFileAppends
  <2>4. ASSUME ~broken' PROVE InTransit'
    <3>1. PICK n \in Nat : n = Len(file) + Len(local_buffer) /\ Len(file') = n
      BY <1>0, <2>3, <2>4
    <3>2. ASSUME NEW k \in 1..n PROVE file'[k] = k
      <4>1. CASE k <= Len(file)
        <5>1. k \in 1..Len(file)
          BY <1>0, <4>1
        <5>2. file[k] = k
          BY <2>3, <2>4, <5>1 DEF InTransit
        <5> QED BY <2>3, <2>4, <3>1, <4>1, <5>2
      <4>2. CASE ~(k <= Len(file))
        <5>1. k - Len(file) \in 1..Len(local_buffer) /\ Len(file) + (k - Len(file)) = k
          BY <1>0, <3>1, <4>2
        <5>2. local_buffer[k - Len(file)] = k
          BY <2>3, <2>4, <5>1 DEF InTransit
        <5> QED BY <2>3, <2>4, <3>1, <4>2, <5>2
      <4> QED BY <4>1, <4>2
    <3>3. n + 0 + buffer_len = Len(written)
      BY <1>0, <2>3, <2>4, <3>1 DEF InTransit
    <3>4. ASSUME NEW k \in 1..buffer_len PROVE buffer'[At(k)'] = n + 0 + k
      <4>1. buffer[At(k)] = Len(file) + Len(local_buffer) + k
        BY <2>3, <2>4 DEF InTransit
      <4> QED BY <1>0, <2>1, <2>2, <3>1, <4>1 DEF ring
    <3> QED BY <2>1, <2>2, <2>3, <3>1, <3>2, <3>3, <3>4 DEF InTransit
  <2> QED BY <2>4 DEF InTransit
<1>4. ASSUME UNCHANGED <<ring, file, local_buffer, broken, written>> PROVE InTransit'
  <2>1. buffer_len' = buffer_len /\ \A k \in 1..buffer_len : At(k)' = At(k)
    BY <1>4 DEF ring, buffer_len, At
  <2> QED BY <1>4, <2>1 DEF ring, InTransit
<1>5. ASSUME NEW w \in Writers, WriteSignal(w) PROVE InTransit'
  BY <1>4, <1>5 DEF WriteSignal, fileVars
<1>6. CASE aio_close \/ aio_wait \/ aio_free \/ EndSignal \/ Joined \/ OwnerFrees
  BY <1>4, <1>6 DEF aio_close, aio_wait, aio_free, EndSignal, Joined, OwnerFrees, fileVars
<1>7. CASE Sleep \/ Exit \/ ThreadFrees \/ Wake
  BY <1>4, <1>7 DEF Sleep, Exit, ThreadFrees, Wake, fileVars
<1>8. CASE UNCHANGED vars
  BY <1>4, <1>8 DEF vars, fileVars
<1> QED BY <1>1, <1>2, <1>3, <1>5, <1>6, <1>7, <1>8 DEF Next, Thread, OwnerProgress

\* What was asked for is written when the thread exits.
LEMMA FlushedStep ==
  ASSUME TypeOK, Numbered, InTransit, Flushed, [Next]_vars
  PROVE  Flushed'
<1> USE DEF TypeOK
<1>0. /\ Len(file) \in Nat /\ Len(local_buffer) \in Nat /\ Len(written) \in Nat
      /\ buffer_len \in 0..buffer_size - 1 /\ owed \in Nat
  BY LenProperties, ContentAt DEF BytesType
<1>1. ASSUME NEW w \in Writers, NEW size \in 1..MaxSize, Write(w, size) PROVE Flushed'
  <2>1. owed <= Len(written')
    <3>1. size \in Nat /\ Len(written') = Len(written) + size
      BY <1>1, WriteAppends, SizesAssumption
    <3>2. owed <= Len(written) + size
      BY <1>0, <3>1 DEF Flushed
    <3> QED BY <3>1, <3>2
  <2> QED BY <1>1, <2>1 DEF Write, fileVars, Flushed
<1>2. CASE aio_close \/ aio_wait
  <2>1. Owed <= Len(written) /\ (finish # "RUNNING" => Owed = owed)
    BY <1>0 DEF Owed, Flushed
  <2>2. /\ finish' # "RUNNING" /\ owed' = Owed /\ ownerPc' # "waited"
        /\ UNCHANGED <<written, file, threadPc, local_buffer, error, result_io_error, broken>>
    BY <1>2 DEF aio_close, aio_wait, fileVars, StatusType
  <2> QED BY <2>1, <2>2 DEF Flushed
<1>3. CASE aio_free \/ EndSignal \/ Joined \/ OwnerFrees
  <2>1. UNCHANGED <<finish, owed, written, file, threadPc, local_buffer, error,
                    result_io_error, broken>>
    BY <1>3 DEF aio_free, EndSignal, Joined, OwnerFrees, fileVars
  <2>2. ownerPc' = "waited" => ownerPc = "waited" \/ threadPc = "done"
    BY <1>3 DEF aio_free, EndSignal, Joined, OwnerFrees
  <2> QED BY <2>1, <2>2 DEF Flushed
<1>4. CASE TakeBytes
  BY <1>4 DEF TakeBytes, fileVars, Flushed
<1>5. CASE Sleep \/ Wake
  BY <1>5 DEF Sleep, Wake, fileVars, Flushed
<1>6. CASE Exit
  <2>1. /\ threadPc = "lock" /\ finish # "RUNNING" /\ error' = broken
        /\ threadPc' \in {"freeing", "done"}
        /\ UNCHANGED <<finish, owed, written, file, local_buffer, result_io_error, broken, ownerPc>>
    BY <1>6 DEF Exit, fileVars, Flushed
  <2>2. buffer_len = 0 /\ local_buffer = <<>> /\ Len(local_buffer) = 0
    BY <1>6, <2>1 DEF Exit, Flushed, buffer_len, RingType
  <2>3. ~broken => Len(file) >= owed
    BY <1>0, <2>2 DEF InTransit, Flushed
  <2>4. error' \/ Len(file') >= owed'
    BY <2>1, <2>3 DEF StatusType
  <2>5. ownerPc # "waited"
    BY <2>1 DEF Flushed
  <2> QED BY <2>1, <2>2, <2>4, <2>5 DEF Flushed
<1>7. CASE ThreadFrees
  BY <1>7 DEF ThreadFrees, fileVars, Flushed
<1>8. ASSUME NEW ok \in BOOLEAN, WriteFile(ok) PROVE Flushed'
  <2>1. local_buffer' = <<>> /\ result_io_error' = broken'
    BY <1>8, WriteFileAppends
  <2> QED BY <1>8, <2>1 DEF WriteFile, Flushed
<1>9. ASSUME NEW w \in Writers, WriteSignal(w) PROVE Flushed'
  BY <1>9 DEF WriteSignal, fileVars, Flushed
<1>10. CASE UNCHANGED vars
  BY <1>10 DEF vars, fileVars, Flushed
<1> QED BY <1>1, <1>2, <1>3, <1>4, <1>5, <1>6, <1>7, <1>8, <1>9, <1>10
        DEF Next, Thread, OwnerProgress

\* The count goes down by the one that lets go, and the last one frees.
LEMMA CountedStep ==
  ASSUME TypeOK, Flushed, Counted, [Next]_vars
  PROVE  Counted'
<1> USE DEF TypeOK, PcType
<1>1. ASSUME NEW w \in Writers, NEW size \in 1..MaxSize, Write(w, size) PROVE Counted'
  BY <1>1 DEF Write, Counted, OwnerHolds, ThreadHolds
<1>2. ASSUME NEW w \in Writers, WriteSignal(w) PROVE Counted'
  <2>1. UNCHANGED <<refcount, freed, ownerPc, threadPc>>
    BY <1>2 DEF WriteSignal
  <2>2. \A v \in Writers : writerPc[v] = "idle" => writerPc'[v] = "idle"
    BY <1>2 DEF WriteSignal
  <2> QED BY <2>1, <2>2 DEF Counted, OwnerHolds, ThreadHolds
<1>3. CASE aio_close \/ aio_wait \/ EndSignal \/ Joined
  <2>1. /\ UNCHANGED <<refcount, freed, writerPc, threadPc>>
        /\ ownerPc \notin {"freeing", "gone"} /\ ownerPc' \notin {"freeing", "gone"}
    BY <1>3 DEF aio_close, aio_wait, EndSignal, Joined
  <2> QED BY <2>1 DEF Counted, OwnerHolds, ThreadHolds
<1>4. CASE aio_free
  <2>1. /\ UNCHANGED <<freed, writerPc, threadPc>> /\ refcount' = refcount - 1
        /\ ownerPc \in {"closed", "waited"} /\ \A w \in Writers : writerPc[w] = "idle"
        /\ ownerPc' = IF refcount' = 0 THEN "freeing" ELSE "gone"
    BY <1>4 DEF aio_free
  <2>2. CASE threadPc = "done"
    <3>1. refcount = 1 /\ refcount' = 0 /\ freed = 0
      BY <2>1, <2>2 DEF Counted, OwnerHolds, ThreadHolds
    <3> QED BY <2>1, <2>2, <3>1 DEF Counted, OwnerHolds, ThreadHolds
  <2>3. CASE threadPc # "done"
    <3>1. threadPc \notin {"freeing", "done"}
      BY <2>1, <2>3 DEF Counted
    <3>2. refcount = 2 /\ refcount' = 1 /\ freed = 0
      BY <2>1, <2>3, <3>1 DEF Counted, OwnerHolds, ThreadHolds
    <3> QED BY <2>1, <3>1, <3>2 DEF Counted, OwnerHolds, ThreadHolds
  <2> QED BY <2>2, <2>3
<1>5. CASE OwnerFrees
  <2>1. /\ ownerPc = "freeing" /\ ownerPc' = "gone" /\ threadPc = "done"
        /\ UNCHANGED <<refcount, writerPc, threadPc>>
    BY <1>5 DEF OwnerFrees, Counted
  <2>2. freed' = 1
    BY <1>5, <2>1 DEF OwnerFrees, Counted
  <2> QED BY <2>1, <2>2 DEF Counted, OwnerHolds, ThreadHolds
<1>6. CASE TakeBytes \/ Sleep \/ Wake
  <2>1. /\ UNCHANGED <<refcount, freed, writerPc, ownerPc>>
        /\ threadPc \notin {"freeing", "done"} /\ threadPc' \notin {"freeing", "done"}
    BY <1>6 DEF TakeBytes, Sleep, Wake
  <2> QED BY <2>1 DEF Counted, OwnerHolds, ThreadHolds
<1>7. ASSUME NEW ok \in BOOLEAN, WriteFile(ok) PROVE Counted'
  <2>1. /\ UNCHANGED <<refcount, freed, writerPc, ownerPc>>
        /\ threadPc \notin {"freeing", "done"} /\ threadPc' \notin {"freeing", "done"}
    BY <1>7 DEF WriteFile
  <2> QED BY <2>1 DEF Counted, OwnerHolds, ThreadHolds
<1>8. CASE Exit
  <2>1. /\ UNCHANGED <<freed, writerPc, ownerPc>> /\ refcount' = refcount - 1
        /\ threadPc = "lock" /\ threadPc' = IF refcount' = 0 THEN "freeing" ELSE "done"
    BY <1>8 DEF Exit
  <2>2. CASE ownerPc = "gone"
    <3>1. refcount = 1 /\ refcount' = 0 /\ freed = 0
      BY <2>1, <2>2 DEF Counted, OwnerHolds, ThreadHolds
    <3> QED BY <2>1, <2>2, <3>1 DEF Counted, OwnerHolds, ThreadHolds
  <2>3. CASE ownerPc # "gone"
    <3>1. ownerPc \notin {"freeing", "gone"}
      BY <2>1, <2>3 DEF Counted
    <3>2. refcount = 2 /\ refcount' = 1 /\ freed = 0
      BY <2>1, <3>1 DEF Counted, OwnerHolds, ThreadHolds
    <3> QED BY <2>1, <3>1, <3>2 DEF Counted, OwnerHolds, ThreadHolds
  <2> QED BY <2>2, <2>3
<1>9. CASE ThreadFrees
  <2>1. /\ threadPc = "freeing" /\ threadPc' = "done" /\ ownerPc = "gone"
        /\ UNCHANGED <<refcount, writerPc, ownerPc>>
    BY <1>9 DEF ThreadFrees, Counted
  <2>2. freed' = 1
    BY <1>9, <2>1 DEF ThreadFrees, Counted
  <2> QED BY <2>1, <2>2 DEF Counted, OwnerHolds, ThreadHolds
<1>10. CASE UNCHANGED vars
  BY <1>10 DEF vars, Counted, OwnerHolds, ThreadHolds
<1> QED BY <1>1, <1>2, <1>3, <1>4, <1>5, <1>6, <1>7, <1>8, <1>9, <1>10
        DEF Next, Thread, OwnerProgress

\* Every step keeps the invariant.
LEMMA NextInv ==
  ASSUME IInv, [Next]_vars
  PROVE  IInv'
BY TypeStep, NumberedStep, InTransitStep, FlushedStep, CountedStep DEF IInv

\* The state behind the three properties, in every run.
THEOREM Invariance == Spec => []IInv
<1>1. Init => IInv
  BY InitInv
<1>2. IInv /\ [Next]_vars => IInv'
  BY NextInv
<1> QED BY <1>1, <1>2, PTL DEF Spec

-----------------------------------------------------------------------------
(* The properties.                                                         *)

\* Bytes that are each in the place of their number are all bytes, in order.
LEMMA AllInPlace ==
  ASSUME IInv
  PROVE  NothingLost
<1> SUFFICES ASSUME ~broken PROVE file \o local_buffer \o Content = written
  BY DEF NothingLost
<1> DEFINE front == file \o local_buffer
           s == front \o Content
<1>1. /\ Len(file) \in Nat /\ Len(local_buffer) \in Nat /\ Len(written) \in Nat
      /\ file \in Seq(Nat) /\ local_buffer \in Seq(Nat) /\ written \in Seq(Nat)
  BY LenProperties DEF IInv, TypeOK, BytesType
<1>2. /\ Content \in Seq(Nat) /\ Len(Content) = buffer_len /\ buffer_len \in Nat
      /\ \A k \in 1..buffer_len : Content[k] = buffer[At(k)]
  BY ContentAt DEF IInv, TypeOK
<1>3. /\ front \in Seq(Nat) /\ Len(front) = Len(file) + Len(local_buffer)
      /\ \A k \in 1..Len(file) + Len(local_buffer) :
           front[k] = IF k <= Len(file) THEN file[k] ELSE local_buffer[k - Len(file)]
  BY <1>1, ConcatProperties
<1> HIDE DEF front
<1>4. /\ s \in Seq(Nat) /\ Len(s) = Len(front) + buffer_len
      /\ \A k \in 1..Len(front) + buffer_len :
           s[k] = IF k <= Len(front) THEN front[k] ELSE Content[k - Len(front)]
  <2>1. front \in Seq(Nat) /\ Content \in Seq(Nat)
    BY <1>2, <1>3
  <2>2. /\ s \in Seq(Nat) /\ Len(s) = Len(front) + Len(Content)
        /\ \A k \in 1..Len(front) + Len(Content) :
             s[k] = IF k <= Len(front) THEN front[k] ELSE Content[k - Len(front)]
    BY <2>1, ConcatProperties
  <2> HIDE DEF s
  <2> QED BY <1>2, <2>2
<1> HIDE DEF s
<1>5. Len(s) = Len(written)
  BY <1>1, <1>2, <1>3, <1>4 DEF IInv, InTransit
<1>6. ASSUME NEW k \in 1..Len(s) PROVE s[k] = k
  <2>1. CASE k <= Len(file)
    <3>1. k <= Len(front) /\ k \in 1..Len(file) + Len(local_buffer) /\ k \in 1..Len(file)
      BY <1>1, <1>3, <2>1
    <3>2. file[k] = k
      BY <3>1 DEF IInv, InTransit
    <3> QED BY <1>3, <1>4, <2>1, <3>1, <3>2
  <2>2. CASE ~(k <= Len(file)) /\ k <= Len(front)
    <3>1. /\ k \in 1..Len(file) + Len(local_buffer) /\ k - Len(file) \in 1..Len(local_buffer)
          /\ Len(file) + (k - Len(file)) = k
      BY <1>1, <1>3, <2>2
    <3>2. local_buffer[k - Len(file)] = k
      BY <3>1 DEF IInv, InTransit
    <3> QED BY <1>3, <1>4, <2>2, <3>1, <3>2
  <2>3. CASE ~(k <= Len(front))
    <3>1. /\ k - Len(front) \in 1..buffer_len
          /\ Len(file) + Len(local_buffer) + (k - Len(front)) = k
      BY <1>1, <1>2, <1>3, <1>4, <2>3
    <3>2. buffer[At(k - Len(front))] = k
      BY <3>1 DEF IInv, InTransit
    <3>3. Content[k - Len(front)] = k
      BY <1>2, <3>1, <3>2
    <3> QED BY <1>4, <2>3, <3>3
  <2> QED BY <2>1, <2>2, <2>3
<1>7. \A k \in 1..Len(s) : s[k] = written[k]
  BY <1>5, <1>6 DEF IInv, Numbered
<1>8. s = written
  BY <1>1, <1>4, <1>5, <1>7, SeqEqual
<1> QED BY <1>8 DEF s, front

\* While the file takes its bytes, every byte written is in the file, on its way or
\* in the ring, in order, whatever the sizes of the ring, of the local buffer and of
\* the writes.
THEOREM BytesAreKept == Spec => []NothingLost
BY Invariance, AllInPlace, PTL

\* When aio_wait returns, what was written before is in the file, or aio_error tells
\* that writing failed.
THEOREM WaitFlushes == Spec => []FlushedAtWait
<1>1. IInv => FlushedAtWait
  BY DEF IInv, Flushed, FlushedAtWait
<1> QED BY <1>1, Invariance, PTL

\* The handle is freed once, when nobody will use it again.
THEOREM LastOneFrees == Spec => []FreedLast
<1>1. IInv => FreedLast
  BY DEF IInv, Counted, FreedLast
<1> QED BY <1>1, Invariance, PTL
=============================================================================
