------------------------------- MODULE JobPool -------------------------------
(***************************************************************************)
(* CJobPool, the engine's pool of worker threads (engine/shared/jobs.cpp): *)
(* an intrusive singly linked list of jobs guarded by m_Lock, a counting   *)
(* semaphore, worker threads, and the owning (main) thread that adds jobs  *)
(* and finally destroys the pool.  A critical section is one step; the     *)
(* semaphore operation that follows it is another, because other threads   *)
(* run in between.                                                         *)
(*                                                                         *)
(* A job object is queued at most once: every caller of AddJob makes a     *)
(* fresh one.                                                              *)
(***************************************************************************)
EXTENDS Naturals, Sequences, FiniteSets

CONSTANTS Jobs,     \* the IJob objects
          Workers,  \* the worker threads started by Init(NumThreads)
          NoJob     \* the null pointer

ASSUME JobsAssumption == NoJob \notin Jobs
ASSUME WorkersAssumption == IsFiniteSet(Workers)

VARIABLES
  m_pFirstJob, m_pLastJob,  \* ends of the linked list
  m_pNext,                  \* IJob::m_pNext of each job
  m_Status,                 \* IJob::m_Status of each job
  m_Semaphore,              \* value of the counting semaphore
  m_Shutdown,
  pc,                       \* where each worker thread stands
  pJob,                     \* the local pJob of each worker thread
  mainPc,                   \* where the owning thread stands
  mainJob,                  \* the job the owning thread runs in RunBlocking
  toSignal,                 \* signals Destroy has still to send
  added, fetched            \* history: jobs in the order queued and dequeued

poolVars == <<m_pFirstJob, m_pLastJob, m_pNext, m_Status, m_Semaphore, m_Shutdown,
              pc, pJob, mainPc, mainJob, toSignal, added, fetched>>

listVars == <<m_pFirstJob, m_pLastJob, m_pNext, added, fetched>>
mainVars == <<mainPc, mainJob, toSignal, m_Shutdown>>

NumThreads == Cardinality(Workers)
InQueueOrDone == {added[i] : i \in 1..Len(added)}

PoolInit ==
  /\ m_pFirstJob = NoJob
  /\ m_pLastJob = NoJob
  /\ m_pNext = [j \in Jobs |-> NoJob]
  /\ m_Status = [j \in Jobs |-> "PENDING"]
  /\ m_Semaphore = 0
  /\ m_Shutdown = FALSE
  /\ pc = [w \in Workers |-> "loop"]
  /\ pJob = [w \in Workers |-> NoJob]
  /\ mainPc = "idle"
  /\ mainJob = NoJob
  /\ toSignal = 0
  /\ added = <<>>
  /\ fetched = <<>>

-----------------------------------------------------------------------------
(* The owning thread.                                                      *)

\* Add: the critical section.  The signal is a step of its own.
Add(j) ==
  /\ mainPc = "idle"
  /\ j \notin InQueueOrDone
  /\ m_Status[j] = "PENDING"
  /\ m_pNext' = IF m_pLastJob # NoJob THEN [m_pNext EXCEPT ![m_pLastJob] = j]
                                      ELSE m_pNext
  /\ m_pLastJob' = j
  /\ m_pFirstJob' = IF m_pFirstJob = NoJob THEN j ELSE m_pFirstJob
  /\ added' = Append(added, j)
  /\ mainPc' = "signal"
  /\ UNCHANGED <<m_Status, m_Semaphore, m_Shutdown, pc, pJob, mainJob, toSignal,
                 fetched>>

\* Mutant: the signal is sent only when the list was empty before.
AddSignalsFirstOnly ==
  /\ mainPc = "signal"
  /\ m_Semaphore' = IF m_pFirstJob = m_pLastJob THEN m_Semaphore + 1
                                                ELSE m_Semaphore
  /\ mainPc' = "idle"
  /\ UNCHANGED <<listVars, m_Status, m_Shutdown, pc, pJob, mainJob, toSignal>>

AddSignal ==
  /\ mainPc = "signal"
  /\ m_Semaphore' = m_Semaphore + 1
  /\ mainPc' = "idle"
  /\ UNCHANGED <<listVars, m_Status, m_Shutdown, pc, pJob, mainJob, toSignal>>

\* RunBlocking on the caller's own thread, for a job that is not queued.
RunBlockingBegin(j) ==
  /\ mainPc = "idle"
  /\ j \notin InQueueOrDone
  /\ m_Status[j] = "PENDING"
  /\ m_Status' = [m_Status EXCEPT ![j] = "RUNNING"]
  /\ mainJob' = j
  /\ mainPc' = "blocking"
  /\ UNCHANGED <<listVars, m_Semaphore, m_Shutdown, pc, pJob, toSignal>>

RunBlockingEnd ==
  /\ mainPc = "blocking"
  /\ m_Status' = [m_Status EXCEPT ![mainJob] = "DONE"]
  /\ mainJob' = NoJob
  /\ mainPc' = "idle"
  /\ UNCHANGED <<listVars, m_Semaphore, m_Shutdown, pc, pJob, toSignal>>

\* Mutant: one worker is not woken.
DestroySignalsOneLess ==
  /\ mainPc = "idle"
  /\ m_Shutdown' = TRUE
  /\ toSignal' = NumThreads - 1
  /\ mainPc' = "destroy"
  /\ UNCHANGED <<listVars, m_Status, m_Semaphore, pc, pJob, mainJob>>

\* Destroy: set the flag, signal once per thread, join every thread, destroy
\* the lock and the semaphore.
Destroy ==
  /\ mainPc = "idle"
  /\ m_Shutdown' = TRUE
  /\ toSignal' = NumThreads
  /\ mainPc' = "destroy"
  /\ UNCHANGED <<listVars, m_Status, m_Semaphore, pc, pJob, mainJob>>

DestroySignal ==
  /\ mainPc = "destroy"
  /\ toSignal > 0
  /\ m_Semaphore' = m_Semaphore + 1
  /\ toSignal' = toSignal - 1
  /\ UNCHANGED <<listVars, m_Status, m_Shutdown, pc, pJob, mainPc, mainJob>>

DestroyJoined ==
  /\ mainPc = "destroy"
  /\ toSignal = 0
  /\ \A w \in Workers : pc[w] = "exited"
  /\ mainPc' = "destroyed"
  /\ UNCHANGED <<listVars, m_Status, m_Semaphore, m_Shutdown, pc, pJob, mainJob,
                 toSignal>>

-----------------------------------------------------------------------------
(* A worker thread.                                                        *)

\* while(!m_Shutdown), evaluated once per turn of the loop.
LoopTest(w) ==
  /\ pc[w] = "loop"
  /\ pc' = [pc EXCEPT ![w] = IF m_Shutdown THEN "exited" ELSE "wait"]
  /\ pJob' = [pJob EXCEPT ![w] = NoJob]
  /\ UNCHANGED <<listVars, mainVars, m_Status, m_Semaphore>>

SemaphoreWait(w) ==
  /\ pc[w] = "wait"
  /\ m_Semaphore > 0
  /\ m_Semaphore' = m_Semaphore - 1
  /\ pc' = [pc EXCEPT ![w] = "fetch"]
  /\ UNCHANGED <<listVars, mainVars, m_Status, pJob>>

\* Mutant: the worker looks at the list without removing the job.
FetchPeeks(w) ==
  /\ pc[w] = "fetch"
  /\ m_pFirstJob # NoJob
  /\ pJob' = [pJob EXCEPT ![w] = m_pFirstJob]
  /\ fetched' = Append(fetched, m_pFirstJob)
  /\ pc' = [pc EXCEPT ![w] = "run"]
  /\ UNCHANGED <<m_pFirstJob, m_pLastJob, m_pNext, added, mainVars, m_Status,
                 m_Semaphore>>

\* Mutant: m_pLastJob keeps pointing at the job of an emptied list.
FetchKeepsLast(w) ==
  /\ pc[w] = "fetch"
  /\ m_pFirstJob # NoJob
  /\ pJob' = [pJob EXCEPT ![w] = m_pFirstJob]
  /\ m_pFirstJob' = m_pNext[m_pFirstJob]
  /\ fetched' = Append(fetched, m_pFirstJob)
  /\ pc' = [pc EXCEPT ![w] = "run"]
  /\ UNCHANGED <<m_pLastJob, m_pNext, added, mainVars, m_Status, m_Semaphore>>

\* The critical section that dequeues; m_pNext of the job is left as it is.
Fetch(w) ==
  /\ pc[w] = "fetch"
  /\ m_pFirstJob # NoJob
  /\ pJob' = [pJob EXCEPT ![w] = m_pFirstJob]
  /\ m_pFirstJob' = m_pNext[m_pFirstJob]
  /\ m_pLastJob' = IF m_pNext[m_pFirstJob] = NoJob THEN NoJob ELSE m_pLastJob
  /\ fetched' = Append(fetched, m_pFirstJob)
  /\ pc' = [pc EXCEPT ![w] = "run"]
  /\ UNCHANGED <<m_pNext, added, mainVars, m_Status, m_Semaphore>>

FetchNothing(w) ==
  /\ pc[w] = "fetch"
  /\ m_pFirstJob = NoJob
  /\ pc' = [pc EXCEPT ![w] = "loop"]
  /\ UNCHANGED <<listVars, mainVars, m_Status, m_Semaphore, pJob>>

\* RunBlocking on the worker.
RunBegin(w) ==
  /\ pc[w] = "run"
  /\ m_Status' = [m_Status EXCEPT ![pJob[w]] = "RUNNING"]
  /\ pc' = [pc EXCEPT ![w] = "running"]
  /\ UNCHANGED <<listVars, mainVars, m_Semaphore, pJob>>

RunEnd(w) ==
  /\ pc[w] = "running"
  /\ m_Status' = [m_Status EXCEPT ![pJob[w]] = "DONE"]
  /\ pc' = [pc EXCEPT ![w] = "loop"]
  /\ UNCHANGED <<listVars, mainVars, m_Semaphore, pJob>>

-----------------------------------------------------------------------------
Worker(w) ==
  \/ LoopTest(w) \/ SemaphoreWait(w)
  \/ Fetch(w) \/ FetchNothing(w)
  \/ RunBegin(w) \/ RunEnd(w)

\* What the owning thread does without being asked again.
MainProgress == AddSignal \/ RunBlockingEnd \/ DestroySignal \/ DestroyJoined

\* The destroyed pool is the end of the program.
Terminated == mainPc = "destroyed" /\ UNCHANGED poolVars

PoolNext ==
  \/ \E j \in Jobs : Add(j) \/ RunBlockingBegin(j)
  \/ Destroy
  \/ MainProgress
  \/ \E w \in Workers : Worker(w)
  \/ Terminated

PoolSpec == PoolInit /\ [][PoolNext]_poolVars

\* The scheduler runs every runnable thread, and a job's Run() returns.
Fairness == WF_poolVars(MainProgress) /\ \A w \in Workers : WF_poolVars(Worker(w))
FairPoolSpec == PoolSpec /\ Fairness

-----------------------------------------------------------------------------
(* Properties.                                                             *)

WorkerPcs == {"loop", "wait", "fetch", "run", "running", "exited"}
MainPcs == {"idle", "signal", "blocking", "destroy", "destroyed"}

\* Type invariant of the pool's state.
PoolTypeOK ==
  /\ m_pFirstJob \in Jobs \cup {NoJob}
  /\ m_pLastJob \in Jobs \cup {NoJob}
  /\ m_pNext \in [Jobs -> Jobs \cup {NoJob}]
  /\ m_Status \in [Jobs -> {"PENDING", "RUNNING", "DONE"}]
  /\ m_Semaphore \in Nat
  /\ m_Shutdown \in BOOLEAN
  /\ pc \in [Workers -> WorkerPcs]
  /\ pJob \in [Workers -> Jobs \cup {NoJob}]
  /\ mainPc \in MainPcs
  /\ mainJob \in Jobs \cup {NoJob}
  /\ toSignal \in Nat
  /\ added \in Seq(Jobs)
  /\ fetched \in Seq(Jobs)

\* The linked list is exactly the jobs queued and not yet dequeued, in order:
\* the pointer updates of Add and of the workers' critical section never lose,
\* repeat or reorder a job, although m_pNext of a dequeued job is never reset.
Taken == Len(fetched)
ListShape ==
  /\ Taken <= Len(added)
  /\ m_pFirstJob = IF Taken < Len(added) THEN added[Taken + 1] ELSE NoJob
  /\ m_pLastJob = IF Taken < Len(added) THEN added[Len(added)] ELSE NoJob
  /\ \A i \in (Taken + 1)..Len(added) :
       m_pNext[added[i]] = IF i < Len(added) THEN added[i + 1] ELSE NoJob

\* Jobs start in the order they were added: the dequeue history is a prefix of
\* the queueing history (CJobPool::Add appends, WorkerThread takes the first).
FIFO == \A i \in 1..Taken : fetched[i] = added[i]

\* A job is in the hands of one thread only, so it is run once.
RunByOne ==
  \A v, w \in Workers :
    /\ pc[v] \in {"run", "running"} => pJob[v] # mainJob
    /\ v # w /\ pc[v] \in {"run", "running"} /\ pc[w] \in {"run", "running"}
         => pJob[v] # pJob[w]

\* Every queued job is eventually run unless the pool is shut down.
QueuedJobsRun ==
  \A j \in Jobs : (j \in InQueueOrDone) ~> (m_Status[j] = "DONE" \/ m_Shutdown)

\* Destroy returns: the signals it sends reach every worker that sleeps.
DestroyReturns == m_Shutdown ~> (mainPc = "destroyed")

=============================================================================
