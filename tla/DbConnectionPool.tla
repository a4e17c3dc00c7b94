--------------------------- MODULE DbConnectionPool ---------------------------
(***************************************************************************)
(* CDbConnectionPool (engine/server/databases/connection_pool.cpp): the    *)
(* ring of tasks between the server's thread and the thread that works on  *)
(* the databases, the choice of a database, the backup, and the shutdown.  *)
(*                                                                         *)
(* A task is a query or a write of the scores.  Whether a database answers *)
(* is arbitrary.  The null pointer in a slot of the ring is what tells the *)
(* worker that the signal it was woken by is that of OnShutdown.  Nothing  *)
(* tests if the ring is full: a task that is stored then replaces another, *)
(* and the semaphore counts more tasks than the ring has.                  *)
(***************************************************************************)
EXTENDS Naturals, Sequences, FiniteSets

CONSTANTS Tasks, Writes,      \* all tasks, and those that write
          Null,               \* the null pointer
          RingSize,           \* slots of m_aTasks (512)
          NumRead, NumWrite, NumBackup   \* databases of each kind

ASSUME TasksAssumption == Writes \subseteq Tasks /\ Null \notin Tasks
ASSUME SizesAssumption ==
  /\ RingSize \in Nat \ {0}
  /\ NumRead \in Nat /\ NumWrite \in Nat /\ NumBackup \in Nat

VARIABLES
  m_aTasks, m_FirstElem, m_LastElem,  \* the ring
  m_Sem, m_Count,                     \* m_NumElem: the semaphore and its counter
  m_Shutdown,
  mainPc,                             \* where the server's thread stands
  pc, pThreadData, i, FailMode, ReadServer, WriteServer, Success,  \* the worker
  m_Success, m_Completed,             \* ISqlResult of each task
  queued, reported,                   \* history: order of tasks and of outcomes
  taken,                              \* history: number of tasks the worker has taken
  lost,                               \* history: tasks that were overwritten in the ring
  stored,                             \* history: where a task was carried out
  seen                                \* history: outcomes the server has read

ringVars == <<m_aTasks, m_FirstElem, m_LastElem, queued, taken, lost>>
semVars == <<m_Sem, m_Count>>
workVars == <<pThreadData, i, FailMode, ReadServer, WriteServer, Success, stored>>
resultVars == <<m_Success, m_Completed, reported>>
vars == <<ringVars, semVars, m_Shutdown, mainPc, pc, workVars, resultVars, seen>>

Init ==
  /\ m_aTasks = [n \in 0..RingSize - 1 |-> Null]
  /\ m_FirstElem = 0 /\ m_LastElem = 0
  /\ m_Sem = 0 /\ m_Count = 0
  /\ m_Shutdown = FALSE
  /\ mainPc = "idle"
  /\ pc = "loop" /\ pThreadData = Null /\ i = 0
  /\ FailMode = FALSE /\ ReadServer = 0 /\ WriteServer = 0 /\ Success = FALSE
  /\ m_Success = [t \in Tasks |-> FALSE]
  /\ m_Completed = [t \in Tasks |-> FALSE]
  /\ queued = <<>> /\ reported = <<>> /\ taken = 0 /\ lost = {}
  /\ stored = [t \in Tasks |-> 0]
  /\ seen = {}

IsQueued(t) == \E n \in 1..Len(queued) : queued[n] = t

-----------------------------------------------------------------------------
(* The server's thread.                                                    *)

\* A position of the ring after the next element.
Wrap(n) == (n + 1) % RingSize

\* Execute and ExecuteWrite up to the signal: the task is new, and destroys what
\* the slot may still hold.
Execute(t) ==
  /\ mainPc = "idle" /\ ~IsQueued(t)
  /\ m_aTasks' = [m_aTasks EXCEPT ![m_FirstElem] = t]
  /\ lost' = lost \cup ({m_aTasks[m_FirstElem]} \ {Null})
  /\ m_FirstElem' = Wrap(m_FirstElem)
  /\ queued' = Append(queued, t)
  /\ mainPc' = "count"
  /\ UNCHANGED <<m_LastElem, taken, semVars, m_Shutdown, pc, workVars, resultVars, seen>>

\* The slot is written while the worker, which was woken, moves its task out of it:
\* a data race.  The worker may go on with a task that is destroyed, so nothing is
\* known of the program from then on.  (Execute before or after the worker's access
\* is Execute.)
ExecuteRaces(t) ==
  /\ mainPc = "idle" /\ ~IsQueued(t)
  /\ pc = "take" /\ m_FirstElem = m_LastElem
  /\ queued' = Append(queued, t)
  /\ lost' = lost \cup {t}
  /\ mainPc' = "undefined" /\ pc' = "undefined"
  /\ UNCHANGED <<m_aTasks, m_FirstElem, m_LastElem, taken, semVars, m_Shutdown, workVars,
                 resultVars, seen>>

\* CSemaphore::Signal: the counter and then the semaphore.
SignalCount ==
  /\ mainPc \in {"count", "countDown"}
  /\ m_Count' = m_Count + 1
  /\ mainPc' = IF mainPc = "count" THEN "post" ELSE "postDown"
  /\ UNCHANGED <<ringVars, m_Sem, m_Shutdown, pc, workVars, resultVars, seen>>

\* Mutant: the worker is woken only when the counter says that it sleeps.
SignalPostWhenIdle ==
  /\ mainPc \in {"post", "postDown"}
  /\ m_Sem' = IF m_Count = 1 THEN m_Sem + 1 ELSE m_Sem
  /\ mainPc' = IF mainPc = "post" THEN "idle" ELSE "down"
  /\ UNCHANGED <<ringVars, m_Count, m_Shutdown, pc, workVars, resultVars, seen>>

SignalPost ==
  /\ mainPc \in {"post", "postDown"}
  /\ m_Sem' = m_Sem + 1
  /\ mainPc' = IF mainPc = "post" THEN "idle" ELSE "down"
  /\ UNCHANGED <<ringVars, m_Count, m_Shutdown, pc, workVars, resultVars, seen>>

\* The server polls m_Completed and then uses the result.
ReadResult(t) ==
  /\ mainPc = "idle"
  /\ m_Completed[t] /\ \A r \in seen : r.task # t
  /\ seen' = seen \cup {[task |-> t, ok |-> m_Success[t]]}
  /\ UNCHANGED <<ringVars, semVars, m_Shutdown, mainPc, pc, workVars, resultVars>>

\* OnShutdown up to its signal; then it waits for the worker to reset the flag.
OnShutdown ==
  /\ mainPc = "idle"
  /\ m_Shutdown' = TRUE
  /\ mainPc' = "countDown"
  /\ UNCHANGED <<ringVars, semVars, pc, workVars, resultVars, seen>>

OnShutdownReturns ==
  /\ mainPc = "down" /\ ~m_Shutdown
  /\ mainPc' = "returned"
  /\ UNCHANGED <<ringVars, semVars, m_Shutdown, pc, workVars, resultVars, seen>>

\* A turn of the loop in which OnShutdown sleeps.
OnShutdownSleeps == mainPc = "down" /\ m_Shutdown /\ UNCHANGED vars

-----------------------------------------------------------------------------
(* The worker.                                                             *)

Loop ==
  /\ pc = "loop"
  /\ FailMode' = (FailMode /\ m_Count # 0)
  /\ pc' = "wait"
  /\ UNCHANGED <<ringVars, semVars, m_Shutdown, mainPc, pThreadData, i, ReadServer,
                 WriteServer, Success, stored, resultVars, seen>>

Wait ==
  /\ pc = "wait" /\ m_Sem > 0
  /\ m_Sem' = m_Sem - 1 /\ m_Count' = m_Count - 1
  /\ pc' = "take"
  /\ UNCHANGED <<ringVars, m_Shutdown, mainPc, workVars, resultVars, seen>>

\* Mutant: a task is copied out of the ring, and its slot keeps it.
TakeCopies ==
  /\ pc = "take" /\ m_aTasks[m_LastElem] # Null
  /\ pThreadData' = m_aTasks[m_LastElem]
  /\ m_aTasks' = m_aTasks
  /\ m_LastElem' = Wrap(m_LastElem)
  /\ taken' = taken + 1
  /\ Success' = FALSE /\ i' = 0
  /\ pc' = "servers"
  /\ UNCHANGED <<m_FirstElem, queued, lost, semVars, m_Shutdown, mainPc, FailMode, ReadServer,
                 WriteServer, stored, resultVars, seen>>

\* A task is moved out of the ring, which leaves a null pointer.
Take ==
  /\ pc = "take" /\ m_aTasks[m_LastElem] # Null
  /\ pThreadData' = m_aTasks[m_LastElem]
  /\ m_aTasks' = [m_aTasks EXCEPT ![m_LastElem] = Null]
  /\ m_LastElem' = Wrap(m_LastElem)
  /\ taken' = taken + 1
  /\ Success' = FALSE /\ i' = 0
  /\ pc' = "servers"
  /\ UNCHANGED <<m_FirstElem, queued, lost, semVars, m_Shutdown, mainPc, FailMode, ReadServer,
                 WriteServer, stored, resultVars, seen>>

\* Mutant: the flag ends the thread, whatever is left in the ring.
ExitAtFlag ==
  /\ pc = "take" /\ (m_Shutdown \/ m_aTasks[m_LastElem] = Null)
  /\ m_Shutdown' = FALSE
  /\ pc' = "exited"
  /\ UNCHANGED <<ringVars, semVars, mainPc, workVars, resultVars, seen>>

\* A null pointer ends the thread, as Worker takes it for the shutdown, called or
\* not.
Exit ==
  /\ pc = "take" /\ m_aTasks[m_LastElem] = Null
  /\ m_Shutdown' = FALSE
  /\ pc' = "exited"
  /\ UNCHANGED <<ringVars, semVars, mainPc, workVars, resultVars, seen>>

IsWrite == pThreadData \in Writes
NumServers == IF IsWrite THEN NumWrite ELSE NumRead

\* Reads are dismissed, and writes left to the backup if there is one.
Skips == (m_Shutdown \/ FailMode) /\ (IsWrite => NumBackup > 0)

\* Mutant: a database that fails is taken for one that answered.
ExecSqlFuncIgnoresError(ok) ==
  /\ stored' = IF ok THEN [stored EXCEPT ![pThreadData] = @ + 1] ELSE stored
  /\ Success' = TRUE
  /\ i' = i
  /\ pc' = "result"

\* ExecSqlFunc, and the part of the loops that follows it.
ExecSqlFunc(ok) ==
  /\ stored' = IF ok THEN [stored EXCEPT ![pThreadData] = @ + 1] ELSE stored
  /\ Success' = ok
  /\ i' = IF ok THEN i ELSE i + 1
  /\ pc' = IF ok THEN "result" ELSE pc

\* The database asked in turn i.  The loop over the write databases computes the
\* same position as the one over the read databases, and then asks the i-th.
CurServer == IF IsWrite THEN i ELSE (ReadServer + i) % NumRead

\* A turn of the loop over the read or the write databases.
TryServer(ok) ==
  /\ pc = "servers" /\ i < NumServers /\ ~Skips
  /\ ExecSqlFunc(ok)
  /\ ReadServer' = IF ok /\ ~IsWrite THEN CurServer ELSE ReadServer
  /\ WriteServer' = IF ok /\ IsWrite THEN (WriteServer + i) % NumWrite ELSE WriteServer
  /\ UNCHANGED <<ringVars, semVars, m_Shutdown, mainPc, pThreadData, FailMode,
                 resultVars, seen>>

NoServer ==
  /\ pc = "servers" /\ (i >= NumServers \/ Skips)
  /\ FailMode' = TRUE /\ i' = 0
  /\ pc' = IF IsWrite THEN "backup" ELSE "result"
  /\ UNCHANGED <<ringVars, semVars, m_Shutdown, mainPc, pThreadData, ReadServer,
                 WriteServer, Success, stored, resultVars, seen>>

TryBackup(ok) ==
  /\ pc = "backup" /\ i < NumBackup
  /\ ExecSqlFunc(ok)
  /\ UNCHANGED <<ringVars, semVars, m_Shutdown, mainPc, pThreadData, FailMode, ReadServer,
                 WriteServer, resultVars, seen>>

NoBackup ==
  /\ pc = "backup" /\ i >= NumBackup
  /\ pc' = "result"
  /\ UNCHANGED <<ringVars, semVars, m_Shutdown, mainPc, workVars, resultVars, seen>>

\* The outcome, and then the flag that makes it visible.
SetSuccess ==
  /\ pc = "result"
  /\ m_Success' = [m_Success EXCEPT ![pThreadData] = Success]
  /\ pc' = "complete"
  /\ UNCHANGED <<ringVars, semVars, m_Shutdown, mainPc, workVars, m_Completed, reported,
                 seen>>

SetCompleted ==
  /\ pc = "complete"
  /\ m_Completed' = [m_Completed EXCEPT ![pThreadData] = TRUE]
  /\ reported' = Append(reported, pThreadData)
  /\ pc' = "loop"
  /\ UNCHANGED <<ringVars, semVars, m_Shutdown, mainPc, workVars, m_Success, seen>>

-----------------------------------------------------------------------------
Worker ==
  \/ Loop \/ Wait \/ Take \/ Exit
  \/ \E ok \in BOOLEAN : TryServer(ok) \/ TryBackup(ok)
  \/ NoServer \/ NoBackup
  \/ SetSuccess \/ SetCompleted

MainProgress == SignalCount \/ SignalPost \/ OnShutdownReturns

\* The server has stopped, or its behaviour is undefined.
Terminated == mainPc \in {"returned", "undefined"} /\ UNCHANGED vars

Next ==
  \/ \E t \in Tasks : Execute(t) \/ ExecuteRaces(t) \/ ReadResult(t)
  \/ OnShutdown \/ OnShutdownSleeps
  \/ MainProgress
  \/ Worker
  \/ Terminated

Spec == Init /\ [][Next]_vars

\* Both threads are scheduled, and a database answers or fails in the end.
FairSpec == Spec /\ WF_vars(MainProgress) /\ WF_vars(Worker)

-----------------------------------------------------------------------------
(* Properties.                                                             *)

\* The pool is a TaskQueue for as many tasks as the ring has slots: until one more
\* is stored than fits they are worked on in the order of Execute, and none is
\* worked on twice even then.
Queue == INSTANCE TaskQueue WITH Capacity <- RingSize, overrun <- lost # {}
TasksInOrder == Queue!Spec

\* Unless the ring was overrun, the worker exits only when OnShutdown was called, and
\* has then worked through all tasks.
ExitsWhenDone ==
  pc = "exited" /\ lost = {} =>
    mainPc \in {"down", "returned"} /\ Len(reported) = Len(queued)

\* What Worker says it does (connection_pool.cpp:148): "work through all database
\* jobs after OnShutdown is called before exiting the thread".  False in a ring
\* that was overrun.
DrainedAtShutdown == mainPc = "returned" => Len(reported) = Len(queued)

\* What the server reads as the outcome of a task is what the databases did, and
\* no task is carried out on two of them, in an overrun ring either.
OutcomeIsTrue ==
  /\ \A r \in seen : r.ok <=> stored[r.task] = 1
  /\ \A t \in Tasks : stored[t] <= 1

\* The server can stop: OnShutdown returns, unless the ring was overrun.
ShutdownReturns == (mainPc = "countDown" /\ lost = {}) ~> (mainPc = "returned")
=============================================================================
