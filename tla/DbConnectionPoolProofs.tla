------------------------ MODULE DbConnectionPoolProofs ------------------------
(***************************************************************************)
(* Proofs about the database workers, for any tasks, any databases and a   *)
(* ring of any size, in which tasks may be overwritten.  The pool          *)
(* implements TaskQueue, has worked through all tasks when the worker      *)
(* exits unless one was overwritten, and reports of each task what the     *)
(* databases did.                                                          *)
(***************************************************************************)
EXTENDS DbConnectionPool, SequenceTheorems, TLAPS

MainPcs == {"idle", "count", "post", "countDown", "postDown", "down", "returned",
            "undefined"}
Working == {"servers", "backup", "result", "complete"}
WorkerPcs == {"loop", "wait", "take", "exited", "undefined"} \cup Working

\* Types of the state the proofs are about.
TypeOK ==
  /\ m_aTasks \in [0..RingSize - 1 -> Tasks \cup {Null}]
  /\ m_FirstElem \in 0..RingSize - 1 /\ m_LastElem \in 0..RingSize - 1
  /\ m_Sem \in Nat /\ m_Shutdown \in BOOLEAN
  /\ mainPc \in MainPcs /\ pc \in WorkerPcs
  /\ pThreadData \in Tasks \cup {Null} /\ Success \in BOOLEAN
  /\ m_Success \in [Tasks -> BOOLEAN] /\ m_Completed \in [Tasks -> BOOLEAN]
  /\ queued \in Seq(Tasks) /\ reported \in Seq(Tasks) /\ taken \in Nat /\ lost \subseteq Tasks
  /\ stored \in [Tasks -> Nat]
  /\ seen \subseteq [task : Tasks, ok : BOOLEAN]

Waiting == Len(queued) - taken

\* The slot k places after the next one to be taken.
Slot(k) == IF m_LastElem + k < RingSize THEN m_LastElem + k
                                        ELSE m_LastElem + k - RingSize

Reported(t) == \E n \in 1..Len(reported) : reported[n] = t

\* No task is in two places: in a slot of the ring, with the worker, or reported.
Placed ==
  /\ \A n \in 0..RingSize - 1 : m_aTasks[n] # Null =>
       /\ IsQueued(m_aTasks[n]) /\ ~Reported(m_aTasks[n])
       /\ pc \in Working => m_aTasks[n] # pThreadData
       /\ \A m \in 0..RingSize - 1 : m_aTasks[m] = m_aTasks[n] => m = n
  /\ pc \in Working =>
       pThreadData \in Tasks /\ IsQueued(pThreadData) /\ ~Reported(pThreadData)
  /\ \A t : Reported(t) => IsQueued(t)

\* The ring holds the tasks that wait, in order, and null pointers elsewhere.
RingShape ==
  /\ Waiting \in 0..RingSize
  /\ m_FirstElem = Slot(Waiting)
  /\ \A k \in 0..Waiting - 1 : m_aTasks[Slot(k)] = queued[taken + k + 1]
  /\ \A k \in Waiting..RingSize - 1 : m_aTasks[Slot(k)] = Null

\* Signals under way: a task in the ring is signalled, or is about to be; the
\* shutdown is signalled once; and the worker uses up one signal for each.
Unsignalled == IF mainPc \in {"count", "post"} THEN 1 ELSE 0
EndSignalled == IF mainPc \in {"down", "returned"} THEN 1 ELSE 0
Consumed == IF pc \in {"take", "exited"} THEN 1 ELSE 0
Signals == m_Sem = Waiting + EndSignalled - Unsignalled - Consumed

\* The thread exits only when the end was signalled and nothing waits.
ShutdownPhase ==
  /\ pc = "exited" => mainPc \in {"down", "returned"} /\ Waiting = 0
  /\ mainPc \in {"countDown", "postDown", "down"} => (m_Shutdown <=> pc # "exited")
  /\ mainPc = "returned" => pc = "exited"

\* Tasks are reported in the order they were taken, the one the worker has last.
Order ==
  /\ Len(reported) = IF pc \in Working THEN taken - 1 ELSE taken
  /\ \A n \in 1..Len(reported) : reported[n] = queued[n]
  /\ pc \in Working => taken > 0 /\ pThreadData = queued[taken]

\* What was carried out is what the worker's variables say.
Outcomes ==
  /\ \A n \in 0..RingSize - 1 : m_aTasks[n] # Null => stored[m_aTasks[n]] = 0
  /\ \A t \in Tasks : ~IsQueued(t) => stored[t] = 0
  /\ \A t \in Tasks : stored[t] <= 1
  /\ pc \in {"servers", "backup"} => ~Success
  /\ pc \in Working => (Success <=> stored[pThreadData] = 1)
  /\ pc = "complete" => m_Success[pThreadData] = Success
  /\ \A t \in Tasks : m_Completed[t] => Reported(t)
  /\ \A t \in Tasks : Reported(t) => (m_Success[t] <=> stored[t] = 1)
  /\ \A r \in seen : Reported(r.task) /\ (r.ok <=> m_Success[r.task])

\* What holds until a task is overwritten.
InStep == RingShape /\ Signals /\ ShutdownPhase /\ Order

IInv == TypeOK /\ Placed /\ Outcomes /\ (lost = {} => InStep)

-----------------------------------------------------------------------------
\* The pool before the first task.
LEMMA InitInv == Init => IInv
<1> SUFFICES ASSUME Init PROVE IInv
  OBVIOUS
<1>1. queued = <<>> /\ reported = <<>> /\ Len(queued) = 0 /\ Len(reported) = 0
      /\ queued \in Seq(Tasks) /\ reported \in Seq(Tasks) /\ taken = 0
  BY DEF Init
<1>2. TypeOK
  <2>1. 0 \in 0..RingSize - 1
    BY SizesAssumption
  <2>2. /\ m_aTasks \in [0..RingSize - 1 -> Tasks \cup {Null}]
        /\ m_Success \in [Tasks -> BOOLEAN] /\ m_Completed \in [Tasks -> BOOLEAN]
        /\ stored \in [Tasks -> Nat]
    BY DEF Init
  <2>3. mainPc \in MainPcs /\ pc \in WorkerPcs
    BY DEF Init, MainPcs, WorkerPcs
  <2>4. /\ m_FirstElem \in 0..RingSize - 1 /\ m_LastElem \in 0..RingSize - 1
        /\ m_Sem \in Nat /\ m_Shutdown \in BOOLEAN /\ Success \in BOOLEAN
        /\ pThreadData \in Tasks \cup {Null} /\ taken \in Nat
        /\ seen \subseteq [task : Tasks, ok : BOOLEAN] /\ lost \subseteq Tasks
    BY <2>1 DEF Init
  <2> QED BY <1>1, <2>2, <2>3, <2>4 DEF TypeOK
<1>3. RingShape
  <2>1. \A k \in 0..RingSize - 1 : Slot(k) = k
    BY SizesAssumption DEF Init, Slot
  <2>2. Waiting = 0 /\ Slot(0) = 0
    BY <1>1, <2>1, SizesAssumption DEF Waiting
  <2> QED BY <1>1, <2>1, <2>2, SizesAssumption DEF Init, RingShape
<1>4. Signals /\ ShutdownPhase
  BY <1>1 DEF Init, Signals, ShutdownPhase, Waiting, Unsignalled, EndSignalled, Consumed
<1>5. Order
  BY <1>1 DEF Init, Order, Working
<1>6. /\ \A n \in 0..RingSize - 1 : m_aTasks[n] = Null
      /\ pc \notin Working /\ \A t : ~Reported(t)
  BY <1>1 DEF Init, Working, Reported
<1>7. Placed
  BY <1>6 DEF Placed
<1>8. Outcomes
  BY <1>1, <1>6 DEF Init, Outcomes, Working
<1> QED BY <1>2, <1>3, <1>4, <1>5, <1>7, <1>8 DEF IInv, InStep

\* A position of the ring is followed by the next, or by 0.
LEMMA WrapNext ==
  ASSUME NEW n \in 0..RingSize - 1
  PROVE  Wrap(n) = IF n + 1 < RingSize THEN n + 1 ELSE 0
<1>1. CASE n + 1 < RingSize
  BY <1>1, SizesAssumption DEF Wrap
<1>2. CASE n + 1 = RingSize
  BY <1>2, SizesAssumption DEF Wrap
<1> QED BY <1>1, <1>2, SizesAssumption

\* Execute and ExecuteWrite change nothing but the ring.
LEMMA ExecuteQueue ==
  ASSUME TypeOK, NEW t \in Tasks, Execute(t)
  PROVE  /\ queued' \in Seq(Tasks) /\ Len(queued') = Len(queued) + 1
         /\ Len(queued) \in Nat
         /\ queued'[Len(queued) + 1] = t
         /\ \A n \in 1..Len(queued) : queued'[n] = queued[n] /\ queued[n] # t
         /\ Waiting' = Waiting + 1
         /\ \A u : IsQueued(u)' <=> IsQueued(u) \/ u = t
<1>1. /\ queued' \in Seq(Tasks) /\ Len(queued') = Len(queued) + 1 /\ Len(queued) \in Nat
      /\ queued'[Len(queued) + 1] = t
      /\ \A n \in 1..Len(queued) : queued'[n] = queued[n] /\ queued[n] # t
      /\ Waiting' = Waiting + 1
  BY DEF Execute, IsQueued, TypeOK, Waiting
<1>2. /\ Len(queued) + 1 \in 1..Len(queued')
      /\ \A n \in 1..Len(queued) : n \in 1..Len(queued')
      /\ \A n \in 1..Len(queued') : n = Len(queued) + 1 \/ n \in 1..Len(queued)
  BY <1>1
<1>3. ASSUME NEW u PROVE IsQueued(u)' <=> IsQueued(u) \/ u = t
  BY <1>1, <1>2 DEF IsQueued
<1> QED BY <1>1, <1>3

\* A race leaves no thread behind of which anything is known.
LEMMA RaceQueue ==
  ASSUME TypeOK, NEW t \in Tasks, ExecuteRaces(t)
  PROVE  /\ queued' \in Seq(Tasks) /\ lost' # {} /\ lost' \subseteq Tasks
         /\ \A u : IsQueued(u) => IsQueued(u)'
         /\ mainPc' = "undefined" /\ pc' = "undefined"
         /\ UNCHANGED <<m_aTasks, m_FirstElem, m_LastElem, taken, m_Sem, m_Shutdown, pThreadData,
                        Success, stored, m_Success, m_Completed, reported, seen>>
<1>1. queued' = Append(queued, t) /\ queued \in Seq(Tasks)
  BY DEF ExecuteRaces, TypeOK
<1>2. queued' \in Seq(Tasks) /\ Len(queued) \in Nat /\ Len(queued') = Len(queued) + 1
      /\ \A n \in 1..Len(queued) : queued'[n] = queued[n] /\ n \in 1..Len(queued')
  BY <1>1
<1>3. \A u : IsQueued(u) => IsQueued(u)'
  BY <1>2 DEF IsQueued
<1> QED BY <1>2, <1>3 DEF ExecuteRaces, TypeOK, semVars, workVars, resultVars

\* Nothing is overwritten unless the state before was in step.
LEMMA StaysInStep ==
  ASSUME IInv, Next, lost' = {}
  PROVE  TypeOK /\ lost = {} /\ InStep /\ \A t \in Tasks : ~ExecuteRaces(t)
<1>1. \A t \in Tasks : ~ExecuteRaces(t)
  BY RaceQueue DEF IInv
<1>2. lost \subseteq lost'
  BY <1>1
  DEF Next, Worker, Execute, ReadResult, OnShutdown, OnShutdownSleeps, MainProgress,
      SignalCount, SignalPost, OnShutdownReturns, Terminated, Loop, Wait, Take, Exit,
      TryServer, TryBackup, NoServer, NoBackup, SetSuccess, SetCompleted, vars, ringVars
<1> QED BY <1>1, <1>2 DEF IInv

\* Every step keeps the types.
LEMMA TypeStep ==
  ASSUME IInv, Next
  PROVE  TypeOK'
<1>0. ASSUME NEW n \in 0..RingSize - 1 PROVE Wrap(n) \in 0..RingSize - 1
  BY WrapNext, SizesAssumption
<1> USE DEF IInv, TypeOK
<1>1. ASSUME NEW t \in Tasks, Execute(t) PROVE TypeOK'
  <2>1. /\ m_FirstElem \in 0..RingSize - 1 /\ lost' \subseteq Tasks
        /\ m_aTasks' \in [0..RingSize - 1 -> Tasks \cup {Null}]
        /\ m_FirstElem' \in 0..RingSize - 1
    BY <1>0, <1>1 DEF Execute
  <2>2. queued' \in Seq(Tasks) /\ mainPc' \in MainPcs
    BY <1>1, ExecuteQueue DEF Execute, MainPcs
  <2>3. UNCHANGED <<m_LastElem, taken, m_Sem, m_Shutdown, pc, pThreadData, Success, stored,
                    m_Success, m_Completed, reported, seen>>
    BY <1>1 DEF Execute, semVars, workVars, resultVars
  <2> QED BY <2>1, <2>2, <2>3
<1>13. ASSUME NEW t \in Tasks, ExecuteRaces(t) PROVE TypeOK'
  BY <1>13, RaceQueue DEF MainPcs, WorkerPcs
<1>2. ASSUME NEW t \in Tasks, ReadResult(t) PROVE TypeOK'
  BY <1>2 DEF ReadResult, ringVars, semVars, workVars, resultVars
<1>3. CASE OnShutdown \/ MainProgress
  <2>1. mainPc' \in MainPcs /\ m_Shutdown' \in BOOLEAN /\ m_Sem' \in Nat
    <3>1. CASE OnShutdown
      BY <3>1 DEF OnShutdown, MainPcs, semVars
    <3>2. CASE SignalCount \/ OnShutdownReturns
      BY <3>2 DEF SignalCount, OnShutdownReturns, MainPcs, semVars
    <3>3. CASE SignalPost
      BY <3>3 DEF SignalPost, MainPcs
    <3> QED BY <1>3, <3>1, <3>2, <3>3 DEF MainProgress
  <2>2. UNCHANGED <<ringVars, pc, workVars, resultVars, seen>>
    BY <1>3 DEF OnShutdown, MainProgress, SignalCount, SignalPost, OnShutdownReturns
  <2> QED BY <2>1, <2>2 DEF ringVars, workVars, resultVars
<1>12. CASE OnShutdownSleeps \/ Terminated
  BY <1>12 DEF OnShutdownSleeps, Terminated, vars, ringVars, semVars, workVars, resultVars
<1>4. CASE Loop \/ Wait
  BY <1>4 DEF Loop, Wait, WorkerPcs, ringVars, semVars, workVars, resultVars
<1>5. CASE Take
  <2>1. m_aTasks[m_LastElem] \in Tasks \cup {Null} /\ pc' \in WorkerPcs
    BY <1>5 DEF Take, WorkerPcs, Working
  <2>2. m_aTasks' \in [0..RingSize - 1 -> Tasks \cup {Null}] /\ m_LastElem' \in 0..RingSize - 1
    BY <1>0, <1>5 DEF Take
  <2>3. pThreadData' \in Tasks \cup {Null} /\ taken' \in Nat
    BY <1>5, <2>1 DEF Take
  <2>4. /\ Success' = FALSE
        /\ UNCHANGED <<m_FirstElem, queued, lost, semVars, m_Shutdown, mainPc, stored,
                       resultVars, seen>>
    BY <1>5 DEF Take
  <2> QED BY <2>1, <2>2, <2>3, <2>4 DEF semVars, resultVars
<1>6. CASE Exit
  BY <1>6 DEF Exit, WorkerPcs, ringVars, semVars, workVars, resultVars
<1>7. pc \in Working => pThreadData \in Tasks
  BY DEF Placed
<1>8. ASSUME NEW ok \in BOOLEAN, TryServer(ok) \/ TryBackup(ok) PROVE TypeOK'
  <2>1. pThreadData \in Tasks /\ pc' \in WorkerPcs /\ ExecSqlFunc(ok)
    BY <1>7, <1>8 DEF TryServer, TryBackup, ExecSqlFunc, WorkerPcs, Working
  <2>2. stored' \in [Tasks -> Nat] /\ Success' \in BOOLEAN
    BY <2>1 DEF ExecSqlFunc
  <2> QED BY <1>8, <2>1, <2>2 DEF TryServer, TryBackup, ringVars, semVars, resultVars
<1>9. CASE NoServer \/ NoBackup
  BY <1>9 DEF NoServer, NoBackup, WorkerPcs, Working, ringVars, semVars, workVars, resultVars
<1>10. CASE SetSuccess
  BY <1>10 DEF SetSuccess, WorkerPcs, Working, ringVars, semVars, workVars
<1>11. CASE SetCompleted
  <2>1. pThreadData \in Tasks
    BY <1>7, <1>11 DEF SetCompleted, Working
  <2>2. reported' \in Seq(Tasks)
    BY <1>11, <2>1 DEF SetCompleted
  <2> QED BY <1>11, <2>1, <2>2 DEF SetCompleted, WorkerPcs, Working, ringVars, semVars, workVars
<1> QED
  BY <1>1, <1>2, <1>3, <1>4, <1>5, <1>6, <1>8, <1>9, <1>10, <1>11, <1>12, <1>13 DEF Next, Worker

-----------------------------------------------------------------------------
(* The ring.                                                               *)

\* A task is entered in the first free slot.
LEMMA RingExecute ==
  ASSUME TypeOK, RingShape, Waiting < RingSize, NEW t \in Tasks, Execute(t)
  PROVE  RingShape'
<1>1. /\ Waiting' = Waiting + 1 /\ Waiting \in 0..RingSize - 1
      /\ Len(queued) \in Nat /\ taken \in Nat /\ taken' = taken
      /\ Len(queued) = taken + Waiting
  BY ExecuteQueue, SizesAssumption DEF Execute, RingShape, Waiting, TypeOK
<1>2. /\ m_aTasks' = [m_aTasks EXCEPT ![Slot(Waiting)] = t]
      /\ m_FirstElem' = Wrap(Slot(Waiting)) /\ m_LastElem' = m_LastElem
      /\ m_LastElem \in 0..RingSize - 1 /\ RingSize \in Nat
  BY SizesAssumption DEF Execute, RingShape, TypeOK
<1>3. \A k : Slot(k)' = Slot(k)
  BY <1>2 DEF Slot
<1>4. \A k \in 0..RingSize - 1 : Slot(k) \in 0..RingSize - 1
  BY <1>2 DEF Slot
<1>5. \A k, l \in 0..RingSize - 1 : Slot(k) = Slot(l) => k = l
  BY <1>2 DEF Slot
<1>6. m_FirstElem' = Slot(Waiting + 1)
  BY <1>1, <1>2, <1>4, WrapNext DEF Slot
<1>7. \A k \in 0..RingSize - 1 :
        m_aTasks'[Slot(k)] = IF k = Waiting THEN t ELSE m_aTasks[Slot(k)]
  BY <1>1, <1>2, <1>4, <1>5 DEF TypeOK
<1>8. ASSUME NEW k \in 0..Waiting PROVE m_aTasks'[Slot(k)] = queued'[taken + k + 1]
  <2>1. CASE k = Waiting
    BY <1>1, <1>7, <2>1, ExecuteQueue
  <2>2. CASE k < Waiting
    <3>1. k \in 0..Waiting - 1 /\ taken + k + 1 \in 1..Len(queued)
          /\ k \in 0..RingSize - 1 /\ k # Waiting
      BY <1>1, <1>2, <2>2
    <3> QED BY <1>7, <3>1, ExecuteQueue DEF RingShape
  <2> QED BY <1>1, <2>1, <2>2
<1>9. \A k \in Waiting + 1..RingSize - 1 : m_aTasks'[Slot(k)] = Null
  <2> SUFFICES ASSUME NEW k \in Waiting + 1..RingSize - 1 PROVE m_aTasks'[Slot(k)] = Null
    OBVIOUS
  <2>1. k \in 0..RingSize - 1 /\ k # Waiting /\ k \in Waiting..RingSize - 1
    BY <1>1, <1>2
  <2> QED BY <1>7, <2>1 DEF RingShape
<1>10. \A k \in 0..Waiting' - 1 : k \in 0..Waiting
  BY <1>1
<1> QED
  BY <1>1, <1>2, <1>3, <1>6, <1>8, <1>9, <1>10 DEF RingShape

\* What the next slot holds tells if a task waits.
LEMMA NextSlot ==
  ASSUME TypeOK, RingShape
  PROVE  /\ m_aTasks[m_LastElem] = Null <=> Waiting = 0
         /\ Waiting # 0 => m_aTasks[m_LastElem] = queued[taken + 1]
<1>1. Slot(0) = m_LastElem /\ 0 \in 0..RingSize - 1 /\ RingSize \in Nat
      /\ Waiting \in Nat /\ Len(queued) \in Nat /\ taken \in Nat
  BY SizesAssumption DEF Slot, TypeOK, RingShape
<1>2. CASE Waiting = 0
  <2>1. 0 \in Waiting..RingSize - 1
    BY <1>1, <1>2
  <2> QED BY <1>1, <1>2, <2>1 DEF RingShape
<1>3. CASE Waiting # 0
  <2>1. 0 \in 0..Waiting - 1 /\ taken + 1 \in 1..Len(queued)
    BY <1>1, <1>3 DEF Waiting
  <2>2. m_aTasks[m_LastElem] = queued[taken + 1]
    BY <1>1, <2>1 DEF RingShape
  <2>3. queued[taken + 1] \in Tasks
    BY <2>1 DEF TypeOK
  <2> QED BY <1>3, <2>2, <2>3, TasksAssumption
<1> QED BY <1>2, <1>3

\* The slot that is written holds a task when the ring is full, and only then.
LEMMA FullRing ==
  ASSUME TypeOK, RingShape
  PROVE  m_aTasks[m_FirstElem] # Null <=> Waiting = RingSize
<1>1. /\ RingSize \in Nat \ {0} /\ Waiting \in 0..RingSize /\ m_FirstElem = Slot(Waiting)
      /\ m_LastElem \in 0..RingSize - 1
  BY SizesAssumption DEF TypeOK, RingShape
<1>2. CASE Waiting = RingSize
  <2>1. m_FirstElem = m_LastElem
    BY <1>1, <1>2 DEF Slot
  <2> QED BY <1>1, <1>2, <2>1, NextSlot
<1>3. CASE Waiting # RingSize
  <2>1. Waiting \in Waiting..RingSize - 1
    BY <1>1, <1>3
  <2> QED BY <1>1, <1>3, <2>1 DEF RingShape
<1> QED BY <1>2, <1>3

\* The worker takes the oldest task.
LEMMA RingTake ==
  ASSUME TypeOK, RingShape, Take
  PROVE  RingShape' /\ Waiting' = Waiting - 1 /\ Waiting \in 1..RingSize
<1>1. /\ Waiting # 0 /\ Waiting \in 0..RingSize /\ RingSize \in Nat
      /\ taken' = taken + 1 /\ queued' = queued
      /\ Len(queued) \in Nat /\ taken \in Nat
  BY NextSlot, SizesAssumption DEF Take, RingShape, TypeOK
<1>2. Waiting' = Waiting - 1 /\ Waiting \in 1..RingSize
  BY <1>1 DEF Waiting
<1>3. /\ m_aTasks' = [m_aTasks EXCEPT ![Slot(0)] = Null]
      /\ m_LastElem' = Wrap(m_LastElem) /\ m_FirstElem' = m_FirstElem
      /\ m_LastElem \in 0..RingSize - 1 /\ Slot(0) = m_LastElem
  <2>1. m_LastElem \in 0..RingSize - 1 /\ Slot(0) = m_LastElem
    BY <1>1 DEF TypeOK, Slot
  <2> QED BY <2>1 DEF Take
<1>4. m_LastElem' = IF m_LastElem + 1 < RingSize THEN m_LastElem + 1 ELSE 0
  BY <1>3, WrapNext
<1>5. /\ \A k \in 0..RingSize - 2 : Slot(k)' = Slot(k + 1)
      /\ Slot(RingSize - 1)' = Slot(0)
      /\ Slot(RingSize)' = Slot(1)
  BY <1>1, <1>3, <1>4 DEF Slot
<1>6. \A k \in 1..RingSize - 1 : Slot(k) \in 0..RingSize - 1 /\ Slot(k) # Slot(0)
  BY <1>1, <1>3 DEF Slot
<1>7. m_FirstElem' = Slot(Waiting)'
  BY <1>1, <1>2, <1>3, <1>4 DEF RingShape, Slot
<1>8. \A k \in 1..RingSize - 1 : m_aTasks'[Slot(k)] = m_aTasks[Slot(k)]
  BY <1>3, <1>6 DEF TypeOK
<1>9. m_aTasks'[Slot(0)] = Null
  BY <1>3 DEF TypeOK
<1>10. ASSUME NEW k \in 0..Waiting - 2 PROVE m_aTasks'[Slot(k)'] = queued[taken + 1 + k + 1]
  <2>1. k \in 0..RingSize - 2 /\ k + 1 \in 1..RingSize - 1 /\ k + 1 \in 0..Waiting - 1
        /\ taken + 1 + k + 1 = taken + (k + 1) + 1
    BY <1>1, <1>2
  <2>2. m_aTasks[Slot(k + 1)] = queued[taken + (k + 1) + 1]
    BY <2>1 DEF RingShape
  <2> QED BY <1>5, <1>8, <2>1, <2>2
<1>11. ASSUME NEW k \in Waiting - 1..RingSize - 1 PROVE m_aTasks'[Slot(k)'] = Null
  <2>1. CASE k = RingSize - 1
    BY <1>5, <1>9, <2>1
  <2>2. CASE k < RingSize - 1
    <3>1. k \in 0..RingSize - 2 /\ k + 1 \in 1..RingSize - 1 /\ k + 1 \in Waiting..RingSize - 1
      BY <1>1, <1>2, <2>2
    <3>2. m_aTasks[Slot(k + 1)] = Null
      BY <3>1 DEF RingShape
    <3> QED BY <1>5, <1>8, <3>1, <3>2
  <2> QED BY <1>1, <1>2, <2>1, <2>2
<1>12. \A k \in 0..Waiting' - 1 : k \in 0..Waiting - 2
  BY <1>1, <1>2
<1> QED
  BY <1>1, <1>2, <1>7, <1>10, <1>11, <1>12 DEF RingShape

\* Every step keeps the ring in order.
LEMMA RingStep == ASSUME IInv, Next, lost' = {} PROVE RingShape'
<1>0. TypeOK /\ RingShape /\ \A t \in Tasks : ~ExecuteRaces(t)
  BY StaysInStep DEF InStep
<1>1. ASSUME NEW t \in Tasks, Execute(t) PROVE RingShape'
  <2>1. m_aTasks[m_FirstElem] = Null
    BY <1>1 DEF Execute
  <2>2. Waiting < RingSize
    BY <1>0, <2>1, FullRing, SizesAssumption DEF RingShape
  <2> QED BY <1>0, <1>1, <2>2, RingExecute
<1>2. CASE Take
  BY <1>0, <1>2, RingTake
<1>3. CASE UNCHANGED ringVars
  BY <1>0, <1>3 DEF RingShape, Waiting, Slot, ringVars
<1> QED
  BY <1>0, <1>1, <1>2, <1>3
  DEF Next, Worker, ReadResult, OnShutdown, OnShutdownSleeps, MainProgress, SignalCount,
      SignalPost, OnShutdownReturns, Terminated, Loop, Wait, Exit, TryServer, TryBackup,
      NoServer, NoBackup, SetSuccess, SetCompleted, vars, ringVars

-----------------------------------------------------------------------------
(* The semaphore and the end.                                              *)

\* Every signal is accounted for.
LEMMA SignalsStep == ASSUME IInv, Next, lost' = {} PROVE Signals'
<1>a. TypeOK /\ RingShape /\ Signals /\ \A t \in Tasks : ~ExecuteRaces(t)
  BY StaysInStep DEF InStep
<1>0. /\ Waiting \in Nat /\ m_Sem \in Nat
      /\ UNCHANGED <<queued, taken>> => Waiting' = Waiting
      /\ UNCHANGED mainPc => Unsignalled' = Unsignalled /\ EndSignalled' = EndSignalled
      /\ UNCHANGED pc => Consumed' = Consumed
      /\ Unsignalled \in Nat /\ EndSignalled \in Nat /\ Consumed \in Nat
  BY <1>a DEF RingShape, TypeOK, Waiting, Unsignalled, EndSignalled, Consumed
<1>1. ASSUME NEW t \in Tasks, Execute(t) PROVE Signals'
  <2>1. /\ Unsignalled = 0 /\ EndSignalled = 0 /\ Unsignalled' = 1 /\ EndSignalled' = 0
        /\ m_Sem' = m_Sem /\ pc' = pc
    BY <1>1 DEF Execute, Unsignalled, EndSignalled, semVars
  <2>2. Waiting' = Waiting + 1
    BY <1>a, <1>1, ExecuteQueue
  <2> QED BY <1>a, <1>0, <2>1, <2>2 DEF Signals
<1>2. CASE SignalPost
  <2>1. \/ Unsignalled = 1 /\ EndSignalled = 0 /\ Unsignalled' = 0 /\ EndSignalled' = 0
        \/ Unsignalled = 0 /\ EndSignalled = 0 /\ Unsignalled' = 0 /\ EndSignalled' = 1
    BY <1>2 DEF SignalPost, Unsignalled, EndSignalled
  <2>2. m_Sem' = m_Sem + 1 /\ UNCHANGED <<queued, taken, pc>>
    BY <1>2 DEF SignalPost, ringVars
  <2> QED BY <1>a, <1>0, <2>1, <2>2 DEF Signals
<1>3. CASE OnShutdown \/ SignalCount \/ OnShutdownReturns
  <2>1. Unsignalled' = Unsignalled /\ EndSignalled' = EndSignalled
    BY <1>3 DEF OnShutdown, SignalCount, OnShutdownReturns, Unsignalled, EndSignalled
  <2>2. m_Sem' = m_Sem /\ UNCHANGED <<queued, taken, pc>>
    BY <1>3 DEF OnShutdown, SignalCount, OnShutdownReturns, ringVars, semVars
  <2> QED BY <1>a, <1>0, <2>1, <2>2 DEF Signals
<1>4. CASE Wait
  <2>1. Consumed = 0 /\ Consumed' = 1 /\ m_Sem' = m_Sem - 1 /\ UNCHANGED <<queued, taken, mainPc>>
    BY <1>4 DEF Wait, Consumed, ringVars
  <2> QED BY <1>a, <1>0, <2>1 DEF Signals
<1>5. CASE Take
  <2>1. Consumed = 1 /\ Consumed' = 0 /\ m_Sem' = m_Sem /\ UNCHANGED mainPc
    BY <1>5 DEF Take, Consumed, semVars
  <2>2. Waiting' = Waiting - 1
    BY <1>a, <1>5, RingTake
  <2> QED BY <1>a, <1>0, <2>1, <2>2 DEF Signals
<1>6. CASE Exit
  <2>1. Consumed = 1 /\ Consumed' = 1 /\ m_Sem' = m_Sem /\ UNCHANGED <<queued, taken, mainPc>>
    BY <1>6 DEF Exit, Consumed, ringVars, semVars
  <2> QED BY <1>a, <1>0, <2>1 DEF Signals
<1>7. ASSUME UNCHANGED <<queued, taken, mainPc, m_Sem>>, Consumed' = Consumed PROVE Signals'
  BY <1>a, <1>0, <1>7 DEF Signals
<1>8. CASE Loop \/ NoServer \/ NoBackup \/ SetSuccess \/ SetCompleted
  <2>1. Consumed' = Consumed
    BY <1>8 DEF Loop, NoServer, NoBackup, SetSuccess, SetCompleted, Consumed
  <2>2. UNCHANGED <<queued, taken, mainPc, m_Sem>>
    BY <1>8 DEF Loop, NoServer, NoBackup, SetSuccess, SetCompleted, ringVars, semVars
  <2> QED BY <1>7, <2>1, <2>2
<1>9. ASSUME NEW ok \in BOOLEAN, TryServer(ok) \/ TryBackup(ok) PROVE Signals'
  <2>1. Consumed' = Consumed
    BY <1>9 DEF TryServer, TryBackup, ExecSqlFunc, Consumed
  <2>2. UNCHANGED <<queued, taken, mainPc, m_Sem>>
    BY <1>9 DEF TryServer, TryBackup, ringVars, semVars
  <2> QED BY <1>7, <2>1, <2>2
<1>10. ASSUME NEW t \in Tasks, ReadResult(t) PROVE Signals'
  <2>1. UNCHANGED <<queued, taken, mainPc, m_Sem, pc>>
    BY <1>10 DEF ReadResult, ringVars, semVars
  <2> QED BY <1>a, <1>0, <1>7, <2>1
<1>11. CASE OnShutdownSleeps \/ Terminated
  <2>1. UNCHANGED <<queued, taken, mainPc, m_Sem, pc>>
    BY <1>11 DEF OnShutdownSleeps, Terminated, vars, ringVars, semVars
  <2> QED BY <1>a, <1>0, <1>7, <2>1
<1> QED
  BY <1>a, <1>1, <1>2, <1>3, <1>4, <1>5, <1>6, <1>8, <1>9, <1>10, <1>11
  DEF Next, MainProgress, Worker

\* A null pointer in the next slot means that the end was signalled.
LEMMA ExitAtEnd ==
  ASSUME TypeOK, InStep, Exit
  PROVE  mainPc \in {"down", "returned"} /\ Waiting = 0
<1>1. Waiting = 0
  BY NextSlot DEF InStep, Exit
<1>2. Consumed = 1 /\ m_Sem \in Nat /\ Unsignalled \in Nat /\ EndSignalled \in Nat
  BY DEF Exit, Consumed, TypeOK, Unsignalled, EndSignalled
<1>3. EndSignalled # 0
  BY <1>1, <1>2 DEF InStep, Signals
<1> QED BY <1>1, <1>3 DEF EndSignalled

\* Every step keeps to the phases of the shutdown.
LEMMA ShutdownStep == ASSUME IInv, Next, lost' = {} PROVE ShutdownPhase'
<1>0. TypeOK /\ InStep /\ ShutdownPhase /\ \A t \in Tasks : ~ExecuteRaces(t)
  BY StaysInStep DEF InStep
<1>1. CASE Exit
  <2>1. /\ pc = "take" /\ pc' = "exited" /\ mainPc' = mainPc /\ m_Shutdown' = FALSE
        /\ Waiting' = Waiting
    BY <1>1 DEF Exit, ringVars, Waiting
  <2> QED BY <1>0, <1>1, <2>1, ExitAtEnd DEF ShutdownPhase
<1>2. ASSUME NEW t \in Tasks, Execute(t) PROVE ShutdownPhase'
  BY <1>0, <1>2 DEF Execute, ShutdownPhase
<1>3. CASE OnShutdown
  <2>1. /\ mainPc = "idle" /\ mainPc' = "countDown" /\ m_Shutdown' = TRUE /\ pc' = pc
    BY <1>3 DEF OnShutdown
  <2> QED BY <1>0, <2>1 DEF ShutdownPhase
<1>4. CASE SignalCount \/ SignalPost
  <2>1. /\ UNCHANGED <<pc, m_Shutdown>> /\ Waiting' = Waiting
    BY <1>4 DEF SignalCount, SignalPost, ringVars, Waiting
  <2>2. \/ mainPc \in {"count", "post"} /\ mainPc' \in {"post", "idle"}
        \/ mainPc \in {"countDown", "postDown"} /\ mainPc' \in {"postDown", "down"}
    BY <1>4 DEF SignalCount, SignalPost
  <2> QED BY <1>0, <2>1, <2>2 DEF ShutdownPhase
<1>5. CASE OnShutdownReturns
  <2>1. /\ mainPc = "down" /\ ~m_Shutdown /\ mainPc' = "returned"
        /\ UNCHANGED <<pc, m_Shutdown>> /\ Waiting' = Waiting
    BY <1>5 DEF OnShutdownReturns, ringVars, Waiting
  <2> QED BY <1>0, <2>1 DEF ShutdownPhase
<1>6. ASSUME UNCHANGED <<mainPc, m_Shutdown>>, pc # "exited" /\ pc' # "exited" PROVE ShutdownPhase'
  BY <1>0, <1>6 DEF ShutdownPhase
<1>7. CASE Loop \/ Wait \/ Take \/ NoServer \/ NoBackup \/ SetSuccess \/ SetCompleted
  BY <1>6, <1>7 DEF Loop, Wait, Take, NoServer, NoBackup, SetSuccess, SetCompleted
<1>8. ASSUME NEW ok \in BOOLEAN, TryServer(ok) \/ TryBackup(ok) PROVE ShutdownPhase'
  BY <1>6, <1>8 DEF TryServer, TryBackup, ExecSqlFunc
<1>9. ASSUME UNCHANGED <<mainPc, m_Shutdown, pc, queued, taken>> PROVE ShutdownPhase'
  BY <1>0, <1>9 DEF ShutdownPhase, Waiting
<1>10. ASSUME NEW t \in Tasks, ReadResult(t) PROVE ShutdownPhase'
  BY <1>9, <1>10 DEF ReadResult, ringVars
<1>11. CASE OnShutdownSleeps \/ Terminated
  BY <1>9, <1>11 DEF OnShutdownSleeps, Terminated, vars, ringVars
<1> QED
  BY <1>1, <1>2, <1>3, <1>4, <1>5, <1>7, <1>8, <1>10, <1>11, <1>0 DEF Next, MainProgress, Worker

-----------------------------------------------------------------------------
(* The order of tasks and their outcomes.                                  *)

\* The task the worker has is the first that is not reported.
LEMMA WorksOnNext ==
  ASSUME TypeOK, InStep, pc \in Working
  PROVE  /\ taken \in 1..Len(queued) /\ Len(reported) + 1 = taken
         /\ pThreadData = queued[taken]
         /\ Len(queued) \in Nat /\ Len(reported) \in Nat
<1>1. /\ taken \in Nat /\ Len(queued) \in Nat /\ Len(reported) \in Nat
      /\ taken <= Len(queued)
  BY DEF TypeOK, InStep, RingShape, Waiting
<1> QED BY <1>1 DEF InStep, Order

\* The worker reports the task it has.
LEMMA SetCompletedReports ==
  ASSUME IInv, SetCompleted
  PROVE  /\ Len(reported') = Len(reported) + 1 /\ Len(reported) \in Nat
         /\ reported'[Len(reported) + 1] = pThreadData
         /\ \A n \in 1..Len(reported) : reported'[n] = reported[n]
         /\ \A t : Reported(t)' <=> Reported(t) \/ t = pThreadData
<1>1. pThreadData \in Tasks
  BY DEF SetCompleted, Working, IInv, Placed
<1>2. reported' = Append(reported, pThreadData) /\ reported \in Seq(Tasks)
  BY DEF SetCompleted, IInv, TypeOK
<1>3. /\ Len(reported') = Len(reported) + 1 /\ Len(reported) \in Nat
      /\ reported'[Len(reported) + 1] = pThreadData
      /\ \A n \in 1..Len(reported) : reported'[n] = reported[n]
  BY <1>1, <1>2
<1>4. ASSUME NEW t PROVE Reported(t)' <=> Reported(t) \/ t = pThreadData
  <2>1. ASSUME NEW n \in 1..Len(reported'), reported'[n] = t
        PROVE  Reported(t) \/ t = pThreadData
    <3>1. CASE n = Len(reported) + 1
      BY <1>3, <2>1, <3>1
    <3>2. CASE n \in 1..Len(reported)
      BY <1>3, <2>1, <3>2 DEF Reported
    <3> QED BY <1>3, <3>1, <3>2
  <2>2. ASSUME Reported(t) PROVE Reported(t)'
    <3>1. PICK n \in 1..Len(reported) : reported[n] = t
      BY <2>2 DEF Reported
    <3>2. n \in 1..Len(reported') /\ reported'[n] = t
      BY <1>3, <3>1
    <3> QED BY <3>2 DEF Reported
  <2>3. ASSUME t = pThreadData PROVE Reported(t)'
    <3>1. Len(reported) + 1 \in 1..Len(reported')
      BY <1>3
    <3> QED BY <1>3, <2>3, <3>1 DEF Reported
  <2> QED BY <2>1, <2>2, <2>3 DEF Reported
<1> QED BY <1>3, <1>4

\* Every step keeps the order.
LEMMA OrderStep == ASSUME IInv, Next, lost' = {} PROVE Order'
<1>a. TypeOK /\ InStep /\ RingShape /\ Order /\ \A t \in Tasks : ~ExecuteRaces(t)
  BY StaysInStep DEF InStep
<1>0. /\ taken \in Nat /\ Len(queued) \in Nat /\ Len(reported) \in Nat
      /\ taken <= Len(queued) /\ Len(reported) <= Len(queued)
  BY <1>a DEF TypeOK, RingShape, Waiting, Order
<1>1. ASSUME NEW t \in Tasks, Execute(t) PROVE Order'
  <2>1. UNCHANGED <<pc, taken, reported, pThreadData>>
    BY <1>1 DEF Execute, workVars, resultVars
  <2>2. \A n \in 1..Len(queued) : queued'[n] = queued[n]
    BY <1>a, <1>1, ExecuteQueue
  <2>3. \A n \in 1..Len(reported) : reported'[n] = queued'[n]
    BY <1>a, <1>0, <2>1, <2>2 DEF Order
  <2>4. pc \in Working => taken \in 1..Len(queued)
    BY <1>a, <1>0 DEF Order
  <2> QED BY <1>a, <2>1, <2>2, <2>3, <2>4 DEF Order
<1>2. CASE Take
  <2>1. /\ pc = "take" /\ pc' = "servers" /\ taken' = taken + 1
        /\ UNCHANGED <<queued, reported>> /\ pThreadData' = m_aTasks[m_LastElem]
    BY <1>2 DEF Take, resultVars
  <2>2. Waiting # 0
    BY <1>a, <1>2, NextSlot DEF Take
  <2>3. pThreadData' = queued[taken + 1]
    BY <1>a, <2>1, <2>2, NextSlot
  <2> QED BY <1>a, <1>0, <2>1, <2>3 DEF Order, Working
<1>3. CASE SetCompleted
  <2>1. pc = "complete" /\ pc' = "loop" /\ UNCHANGED <<queued, taken, pThreadData>>
    BY <1>3 DEF SetCompleted, ringVars, workVars
  <2>2. /\ Len(reported) + 1 = taken /\ pThreadData = queued[taken]
    BY <1>a, <2>1, WorksOnNext DEF Working
  <2>3. Len(reported') = taken'
    BY <1>3, <2>1, <2>2, SetCompletedReports
  <2>4. ASSUME NEW n \in 1..Len(reported') PROVE reported'[n] = queued'[n]
    <3>1. CASE n = Len(reported) + 1
      BY <1>3, <2>1, <2>2, <3>1, SetCompletedReports
    <3>2. CASE n \in 1..Len(reported)
      BY <1>a, <1>3, <2>1, <3>2, SetCompletedReports DEF Order
    <3> QED BY <1>3, <3>1, <3>2, SetCompletedReports
  <2> QED BY <2>1, <2>3, <2>4 DEF Order, Working
<1>4. ASSUME UNCHANGED <<taken, queued, reported, pThreadData>>, pc' \in Working <=> pc \in Working
      PROVE  Order'
  BY <1>a, <1>4 DEF Order
<1>5. CASE Loop \/ Wait \/ Exit \/ NoServer \/ NoBackup \/ SetSuccess
  <2>1. UNCHANGED <<taken, queued, reported, pThreadData>>
    BY <1>5 DEF Loop, Wait, Exit, NoServer, NoBackup, SetSuccess, ringVars, workVars, resultVars
  <2>2. pc' \in Working <=> pc \in Working
    BY <1>5 DEF Loop, Wait, Exit, NoServer, NoBackup, SetSuccess, Working
  <2> QED BY <1>4, <2>1, <2>2
<1>6. ASSUME NEW ok \in BOOLEAN, TryServer(ok) \/ TryBackup(ok) PROVE Order'
  <2>1. UNCHANGED <<taken, queued, reported, pThreadData>>
    BY <1>6 DEF TryServer, TryBackup, ringVars, resultVars
  <2>2. pc' \in Working <=> pc \in Working
    BY <1>6 DEF TryServer, TryBackup, ExecSqlFunc, Working
  <2> QED BY <1>4, <2>1, <2>2
<1>7. ASSUME UNCHANGED <<ringVars, workVars, resultVars, pc>> PROVE Order'
  BY <1>4, <1>7 DEF ringVars, workVars, resultVars
<1> QED
  BY <1>a, <1>1, <1>2, <1>3, <1>5, <1>6, <1>7
  DEF Next, Worker, ReadResult, OnShutdown, OnShutdownSleeps, MainProgress, SignalCount,
      SignalPost, OnShutdownReturns, Terminated, vars

-----------------------------------------------------------------------------
(* Where a task is, also in a ring that was overrun.                       *)

\* A new task is in one place, and takes the place of another at most.
LEMMA PlacedExecute ==
  ASSUME TypeOK, Placed, NEW t \in Tasks, Execute(t)
  PROVE  Placed'
<1>1. /\ UNCHANGED <<pc, pThreadData, reported>>
      /\ ~IsQueued(t) /\ t # Null
      /\ m_aTasks' = [m_aTasks EXCEPT ![m_FirstElem] = t]
  BY TasksAssumption DEF Execute, workVars, resultVars
<1>2. /\ \A u : IsQueued(u)' <=> IsQueued(u) \/ u = t
      /\ \A u : Reported(u)' = Reported(u)
  BY <1>1, ExecuteQueue DEF Reported
<1>3. \A n \in 0..RingSize - 1 :
        m_aTasks'[n] = IF n = m_FirstElem THEN t ELSE m_aTasks[n]
  BY <1>1 DEF TypeOK
<1>4. ~Reported(t) /\ (pc \in Working => t # pThreadData)
  BY <1>1 DEF Placed
<1>5. \A n \in 0..RingSize - 1 : m_aTasks[n] # t
  BY <1>1 DEF Placed
<1>6. ASSUME NEW n \in 0..RingSize - 1, m_aTasks'[n] # Null
      PROVE  /\ IsQueued(m_aTasks[n])' /\ ~Reported(m_aTasks[n])'
             /\ pc' \in Working => m_aTasks'[n] # pThreadData'
             /\ \A m \in 0..RingSize - 1 : m_aTasks'[m] = m_aTasks'[n] => m = n
  <2>1. CASE n = m_FirstElem
    <3>1. m_aTasks'[n] = t
      BY <1>3, <2>1
    <3>2. IsQueued(m_aTasks[n])' /\ ~Reported(m_aTasks[n])'
      BY <1>2, <1>4, <3>1 DEF IsQueued, Reported
    <3> QED BY <1>1, <1>3, <1>4, <1>5, <2>1, <3>1, <3>2
  <2>2. CASE n # m_FirstElem
    <3>1. m_aTasks'[n] = m_aTasks[n] /\ m_aTasks[n] # Null
      BY <1>3, <1>6, <2>2
    <3>2. IsQueued(m_aTasks[n]) /\ ~Reported(m_aTasks[n])
      BY <3>1 DEF Placed
    <3>3. IsQueued(m_aTasks[n])' /\ ~Reported(m_aTasks[n])'
      <4>1. ASSUME NEW u, u = m_aTasks[n] PROVE IsQueued(u)' /\ ~Reported(u)'
        BY <1>2, <3>2, <4>1
      <4> QED BY <3>1, <4>1 DEF IsQueued, Reported
    <3>4. \A m \in 0..RingSize - 1 : m_aTasks'[m] = m_aTasks'[n] => m = n
      BY <1>3, <1>5, <3>1 DEF Placed
    <3> QED BY <1>1, <3>1, <3>3, <3>4 DEF Placed
  <2> QED BY <2>1, <2>2
<1>7. pc' \in Working => pThreadData' \in Tasks /\ IsQueued(pThreadData)' /\ ~Reported(pThreadData)'
  <2>1. ASSUME pc' \in Working
        PROVE  pThreadData' \in Tasks /\ IsQueued(pThreadData) /\ ~Reported(pThreadData)
    BY <1>1, <2>1 DEF Placed
  <2> QED BY <1>1, <1>2, <2>1 DEF IsQueued, Reported
<1>8. \A u : Reported(u)' => IsQueued(u)'
  BY <1>2 DEF Placed
<1> QED BY <1>6, <1>7, <1>8 DEF Placed

\* The worker has the task it takes, and no slot does.
LEMMA PlacedTake == ASSUME TypeOK, Placed, Take PROVE Placed'
<1>1. /\ UNCHANGED <<queued, reported>> /\ pc' = "servers"
      /\ pThreadData' = m_aTasks[m_LastElem] /\ m_aTasks[m_LastElem] # Null
      /\ m_aTasks' = [m_aTasks EXCEPT ![m_LastElem] = Null]
  BY DEF Take, resultVars
<1>2. /\ \A n \in 0..RingSize - 1 :
           m_aTasks'[n] = IF n = m_LastElem THEN Null ELSE m_aTasks[n]
      /\ m_LastElem \in 0..RingSize - 1 /\ pThreadData' \in Tasks
  BY <1>1 DEF TypeOK
<1>3. ASSUME NEW n \in 0..RingSize - 1, m_aTasks'[n] # Null
      PROVE  /\ IsQueued(m_aTasks[n])' /\ ~Reported(m_aTasks[n])'
             /\ m_aTasks'[n] # pThreadData'
             /\ \A m \in 0..RingSize - 1 : m_aTasks'[m] = m_aTasks'[n] => m = n
  <2>1. n # m_LastElem /\ m_aTasks'[n] = m_aTasks[n] /\ m_aTasks[n] # Null
    BY <1>2, <1>3
  <2>2. IsQueued(m_aTasks[n]) /\ ~Reported(m_aTasks[n])
    BY <2>1 DEF Placed
  <2>3. IsQueued(m_aTasks[n])' /\ ~Reported(m_aTasks[n])'
    BY <1>1, <2>1, <2>2 DEF IsQueued, Reported
  <2> QED BY <1>1, <1>2, <2>1, <2>3 DEF Placed
<1>4. IsQueued(pThreadData)' /\ ~Reported(pThreadData)'
  <2>1. IsQueued(m_aTasks[m_LastElem]) /\ ~Reported(m_aTasks[m_LastElem])
    BY <1>1, <1>2 DEF Placed
  <2> QED BY <1>1, <2>1 DEF IsQueued, Reported
<1>5. \A u : Reported(u)' => IsQueued(u)'
  BY <1>1 DEF Placed, Reported, IsQueued
<1> QED BY <1>2, <1>3, <1>4, <1>5 DEF Placed

\* Every step leaves each task in one place.
LEMMA PlacedStep == ASSUME IInv, Next PROVE Placed'
<1> USE DEF IInv
<1>1. CASE SetCompleted
  <2>1. /\ UNCHANGED <<m_aTasks, queued, pThreadData>> /\ pc \in Working /\ pc' \notin Working
    BY <1>1 DEF SetCompleted, ringVars, workVars, Working
  <2>2. \A u : Reported(u)' <=> Reported(u) \/ u = pThreadData
    BY <1>1, SetCompletedReports
  <2>3. \A u : IsQueued(u)' = IsQueued(u)
    BY <2>1 DEF IsQueued
  <2>4. ASSUME NEW n \in 0..RingSize - 1, m_aTasks'[n] # Null
        PROVE  /\ IsQueued(m_aTasks[n])' /\ ~Reported(m_aTasks[n])'
               /\ \A m \in 0..RingSize - 1 : m_aTasks'[m] = m_aTasks'[n] => m = n
    <3>1. IsQueued(m_aTasks[n]) /\ ~Reported(m_aTasks[n]) /\ m_aTasks[n] # pThreadData
      BY <2>1, <2>4 DEF Placed
    <3>2. IsQueued(m_aTasks[n])'
      BY <2>1, <3>1 DEF IsQueued
    <3>3. ~Reported(m_aTasks[n])'
      <4>1. ASSUME NEW u, u = m_aTasks[n] PROVE ~Reported(u)'
        BY <2>2, <3>1, <4>1
      <4>2. m_aTasks' = m_aTasks
        BY <2>1
      <4> QED BY <4>1, <4>2 DEF Reported
    <3> QED BY <2>1, <2>4, <3>2, <3>3 DEF Placed
  <2>5. \A u : Reported(u)' => IsQueued(u)'
    BY <2>1, <2>2, <2>3 DEF Placed
  <2> QED BY <2>1, <2>4, <2>5 DEF Placed
<1>2. ASSUME UNCHANGED <<m_aTasks, queued, reported, pThreadData>>, pc' \in Working => pc \in Working
      PROVE  Placed'
  BY <1>2 DEF Placed, Reported, IsQueued
<1>3. ASSUME NEW t \in Tasks, ExecuteRaces(t) PROVE Placed'
  <2>1. /\ UNCHANGED <<m_aTasks, reported>> /\ pc' \notin Working
        /\ \A u : IsQueued(u) => IsQueued(u)'
        /\ \A u : Reported(u)' = Reported(u)
    BY <1>3, RaceQueue DEF Working, Reported
  <2>2. ASSUME NEW n \in 0..RingSize - 1, m_aTasks'[n] # Null
        PROVE  /\ IsQueued(m_aTasks[n])' /\ ~Reported(m_aTasks[n])'
               /\ \A m \in 0..RingSize - 1 : m_aTasks'[m] = m_aTasks'[n] => m = n
    <3>1. IsQueued(m_aTasks[n]) /\ ~Reported(m_aTasks[n]) /\ m_aTasks' = m_aTasks
      BY <2>1, <2>2 DEF Placed
    <3>2. ASSUME NEW u, u = m_aTasks[n] PROVE IsQueued(u)' /\ ~Reported(u)'
      BY <2>1, <3>1, <3>2
    <3>3. IsQueued(m_aTasks[n])' /\ ~Reported(m_aTasks[n])'
      BY <3>1, <3>2 DEF IsQueued, Reported
    <3> QED BY <2>2, <3>1, <3>3 DEF Placed
  <2> QED BY <2>1, <2>2 DEF Placed
<1>4. ASSUME NEW ok \in BOOLEAN, TryServer(ok) \/ TryBackup(ok) PROVE Placed'
  BY <1>2, <1>4 DEF TryServer, TryBackup, ExecSqlFunc, ringVars, resultVars, Working
<1>5. CASE OnShutdown \/ OnShutdownSleeps \/ MainProgress \/ Terminated
  BY <1>2, <1>5 DEF OnShutdown, OnShutdownSleeps, MainProgress, SignalCount, SignalPost,
                    OnShutdownReturns, Terminated, vars, ringVars, workVars, resultVars
<1>6. CASE Loop \/ Wait \/ Exit \/ NoServer \/ NoBackup \/ SetSuccess
  BY <1>2, <1>6 DEF Loop, Wait, Exit, NoServer, NoBackup, SetSuccess, ringVars, workVars,
                    resultVars, Working
<1>7. ASSUME NEW t \in Tasks, ReadResult(t) PROVE Placed'
  BY <1>2, <1>7 DEF ReadResult, ringVars, workVars, resultVars
<1> QED
  BY <1>1, <1>3, <1>4, <1>5, <1>6, <1>7, PlacedExecute, PlacedTake DEF Next, Worker

-----------------------------------------------------------------------------
(* The outcomes.                                                           *)

\* A task that waits was not carried out.
LEMMA OutcomesExecute ==
  ASSUME IInv, NEW t \in Tasks, Execute(t)
  PROVE  Outcomes'
<1> USE DEF IInv
<1>1. /\ UNCHANGED <<stored, pc, Success, pThreadData, m_Success, m_Completed, reported, seen>>
      /\ ~IsQueued(t) /\ m_aTasks' = [m_aTasks EXCEPT ![m_FirstElem] = t]
  BY DEF Execute, workVars, resultVars
<1>2. \A u : Reported(u)' = Reported(u)
  BY <1>1 DEF Reported
<1>3. ASSUME NEW n \in 0..RingSize - 1, m_aTasks'[n] # Null PROVE stored'[m_aTasks'[n]] = 0
  <2>1. m_aTasks'[n] = IF n = m_FirstElem THEN t ELSE m_aTasks[n]
    BY <1>1 DEF TypeOK
  <2> QED BY <1>1, <1>3, <2>1 DEF Outcomes
<1>4. \A u \in Tasks : ~IsQueued(u)' => stored'[u] = 0
  BY <1>1, ExecuteQueue DEF Outcomes
<1>5. \A u \in Tasks : stored'[u] <= 1
  BY <1>1 DEF Outcomes
<1>6. /\ pc' \in {"servers", "backup"} => ~Success'
      /\ pc' \in Working => (Success' <=> stored'[pThreadData'] = 1)
      /\ pc' = "complete" => m_Success'[pThreadData'] = Success'
  BY <1>1 DEF Outcomes
<1>7. /\ \A u \in Tasks : m_Completed'[u] => Reported(u)'
      /\ \A u \in Tasks : Reported(u)' => (m_Success'[u] <=> stored'[u] = 1)
      /\ \A r \in seen' : Reported(r.task)' /\ (r.ok <=> m_Success'[r.task])
  BY <1>1, <1>2 DEF Outcomes, Reported
<1> QED BY <1>3, <1>4, <1>5, <1>6, <1>7 DEF Outcomes

\* The worker begins with a task that was not carried out.
LEMMA OutcomesTake == ASSUME IInv, Take PROVE Outcomes'
<1> USE DEF IInv
<1>1. /\ UNCHANGED <<queued, stored, m_Success, m_Completed, reported, seen>>
      /\ pc' = "servers" /\ ~Success'
      /\ pThreadData' = m_aTasks[m_LastElem] /\ m_aTasks[m_LastElem] # Null
      /\ m_aTasks' = [m_aTasks EXCEPT ![m_LastElem] = Null]
  BY DEF Take, resultVars
<1>2. /\ m_LastElem \in 0..RingSize - 1
      /\ \A n \in 0..RingSize - 1 : m_aTasks'[n] # Null => m_aTasks'[n] = m_aTasks[n]
  BY <1>1 DEF TypeOK
<1>3. stored'[pThreadData'] = 0
  BY <1>1, <1>2 DEF Outcomes
<1>4. \A n \in 0..RingSize - 1 : m_aTasks'[n] # Null => stored'[m_aTasks'[n]] = 0
  BY <1>1, <1>2 DEF Outcomes
<1>5. \A u : Reported(u)' = Reported(u) /\ IsQueued(u)' = IsQueued(u)
  BY <1>1 DEF Reported, IsQueued
<1>6. /\ \A u \in Tasks : ~IsQueued(u)' => stored'[u] = 0
      /\ \A u \in Tasks : stored'[u] <= 1
      /\ \A u \in Tasks : m_Completed'[u] => Reported(u)'
      /\ \A u \in Tasks : Reported(u)' => (m_Success'[u] <=> stored'[u] = 1)
      /\ \A r \in seen' : Reported(r.task)' /\ (r.ok <=> m_Success'[r.task])
  BY <1>1, <1>5 DEF Outcomes, Reported
<1> QED BY <1>1, <1>3, <1>4, <1>6 DEF Outcomes

\* A database carries out the task, or fails.
LEMMA OutcomesExec ==
  ASSUME IInv, NEW ok \in BOOLEAN, TryServer(ok) \/ TryBackup(ok)
  PROVE  Outcomes'
<1> USE DEF IInv
<1>1. /\ UNCHANGED <<m_aTasks, queued, pThreadData, m_Success, m_Completed, reported, seen>>
      /\ pc \in {"servers", "backup"} /\ pc \in Working
      /\ stored' = IF ok THEN [stored EXCEPT ![pThreadData] = @ + 1] ELSE stored
      /\ Success' = ok
      /\ pc' = IF ok THEN "result" ELSE pc
  BY DEF TryServer, TryBackup, ExecSqlFunc, ringVars, resultVars, Working
<1>2. pThreadData \in Tasks /\ ~Reported(pThreadData) /\ IsQueued(pThreadData)
  BY <1>1 DEF Placed
<1>3. \A u : Reported(u)' = Reported(u) /\ IsQueued(u)' = IsQueued(u)
  BY <1>1 DEF Reported, IsQueued
<1>4. stored[pThreadData] = 0
  <2>1. stored[pThreadData] \in Nat /\ stored[pThreadData] <= 1 /\ stored[pThreadData] # 1
    BY <1>1, <1>2 DEF Outcomes, TypeOK
  <2> QED BY <2>1
<1>5. /\ stored'[pThreadData] = IF ok THEN 1 ELSE 0
      /\ \A u \in Tasks : u # pThreadData => stored'[u] = stored[u]
  BY <1>1, <1>2, <1>4 DEF TypeOK
<1>6. ASSUME NEW n \in 0..RingSize - 1, m_aTasks'[n] # Null PROVE stored'[m_aTasks'[n]] = 0
  <2>1. m_aTasks'[n] = m_aTasks[n] /\ m_aTasks[n] \in Tasks /\ m_aTasks[n] # pThreadData
    BY <1>1, <1>6 DEF Placed, TypeOK
  <2> QED BY <1>5, <1>6, <2>1 DEF Outcomes
<1>7. \A u \in Tasks : ~IsQueued(u)' => stored'[u] = 0
  BY <1>2, <1>3, <1>5 DEF Outcomes
<1>8. \A u \in Tasks : stored'[u] <= 1
  BY <1>5 DEF Outcomes
<1>9. pc' \in {"servers", "backup"} => ~Success'
  BY <1>1
<1>10. Success' <=> stored'[pThreadData'] = 1
  <2>1. CASE ok
    BY <1>1, <1>5, <2>1
  <2>2. CASE ~ok
    BY <1>1, <1>5, <2>2
  <2> QED BY <2>1, <2>2
<1>11. \A u \in Tasks : Reported(u)' => (m_Success'[u] <=> stored'[u] = 1)
  BY <1>1, <1>2, <1>3, <1>5 DEF Outcomes
<1>12. pc' # "complete"
  BY <1>1
<1>13. /\ \A u \in Tasks : m_Completed'[u] => Reported(u)'
       /\ \A r \in seen' : Reported(r.task)' /\ (r.ok <=> m_Success'[r.task])
  BY <1>1, <1>3 DEF Outcomes
<1> QED BY <1>6, <1>7, <1>8, <1>9, <1>10, <1>11, <1>12, <1>13 DEF Outcomes

\* The outcome is noted, and then shown.
LEMMA OutcomesReport == ASSUME IInv, SetSuccess \/ SetCompleted PROVE Outcomes'
<1> USE DEF IInv
<1>1. /\ UNCHANGED <<m_aTasks, queued, pThreadData, stored, Success, seen>>
      /\ pc \in Working /\ pc' \notin {"servers", "backup"}
  BY DEF SetSuccess, SetCompleted, ringVars, workVars, Working
<1>2. /\ pThreadData \in Tasks /\ ~Reported(pThreadData)
      /\ Success <=> stored[pThreadData] = 1
  BY <1>1 DEF Outcomes, Placed
<1>3. \A u : IsQueued(u)' = IsQueued(u)
  BY <1>1 DEF IsQueued
<1>4. /\ \A n \in 0..RingSize - 1 : m_aTasks'[n] # Null => stored'[m_aTasks'[n]] = 0
      /\ \A t \in Tasks : ~IsQueued(t)' => stored'[t] = 0
      /\ \A t \in Tasks : stored'[t] <= 1
      /\ pc' \in Working => (Success' <=> stored'[pThreadData'] = 1)
  BY <1>1, <1>2, <1>3 DEF Outcomes
<1>5. CASE SetSuccess
  <2>1. /\ m_Success' = [m_Success EXCEPT ![pThreadData] = Success]
        /\ UNCHANGED <<m_Completed, reported>>
    BY <1>5 DEF SetSuccess
  <2>2. /\ m_Success'[pThreadData] = Success
        /\ \A u \in Tasks : u # pThreadData => m_Success'[u] = m_Success[u]
    BY <1>2, <2>1 DEF TypeOK
  <2>3. \A u : Reported(u)' = Reported(u)
    BY <2>1 DEF Reported
  <2>4. \A r \in seen : r.task \in Tasks /\ r.task # pThreadData
    BY <1>2 DEF TypeOK, Outcomes
  <2>5. \A u \in Tasks : Reported(u)' => (m_Success'[u] <=> stored'[u] = 1)
    BY <1>1, <1>2, <2>2, <2>3 DEF Outcomes
  <2>6. \A r \in seen' : Reported(r.task)' /\ (r.ok <=> m_Success'[r.task])
    BY <1>1, <2>2, <2>3, <2>4 DEF Outcomes
  <2>7. \A u \in Tasks : m_Completed'[u] => Reported(u)'
    BY <2>1, <2>3 DEF Outcomes
  <2>8. m_Success'[pThreadData'] = Success'
    BY <1>1, <2>2
  <2> QED BY <1>1, <1>4, <2>5, <2>6, <2>7, <2>8 DEF Outcomes
<1>6. CASE SetCompleted
  <2>1. /\ m_Completed' = [m_Completed EXCEPT ![pThreadData] = TRUE]
        /\ m_Success' = m_Success /\ pc = "complete" /\ pc' = "loop"
    BY <1>6 DEF SetCompleted
  <2>2. \A u : Reported(u)' <=> Reported(u) \/ u = pThreadData
    BY <1>6, SetCompletedReports
  <2>3. m_Success[pThreadData] <=> stored[pThreadData] = 1
    BY <1>2, <2>1 DEF Outcomes
  <2>4. \A u \in Tasks : Reported(u)' => (m_Success'[u] <=> stored'[u] = 1)
    BY <1>1, <2>1, <2>2, <2>3 DEF Outcomes
  <2>5. \A u \in Tasks : m_Completed'[u] => Reported(u)'
    BY <2>1, <2>2 DEF Outcomes, TypeOK
  <2>6. \A r \in seen' : Reported(r.task)' /\ (r.ok <=> m_Success'[r.task])
    BY <1>1, <2>1, <2>2 DEF Outcomes
  <2> QED BY <1>1, <1>4, <2>1, <2>4, <2>5, <2>6 DEF Outcomes
<1> QED BY <1>5, <1>6

\* Every step keeps the outcomes true.
LEMMA OutcomesStep == ASSUME IInv, Next PROVE Outcomes'
<1> USE DEF IInv
<1>1. ASSUME NEW t \in Tasks, ReadResult(t) PROVE Outcomes'
  <2>1. /\ UNCHANGED <<m_aTasks, queued, pc, pThreadData, stored, Success, m_Success, m_Completed,
                       reported>>
        /\ m_Completed[t] /\ seen' = seen \cup {[task |-> t, ok |-> m_Success[t]]}
    BY <1>1 DEF ReadResult, ringVars, workVars, resultVars
  <2>2. \A u : Reported(u)' = Reported(u) /\ IsQueued(u)' = IsQueued(u)
    BY <2>1 DEF Reported, IsQueued
  <2>3. \A r \in seen' : Reported(r.task)' /\ (r.ok <=> m_Success'[r.task])
    BY <2>1, <2>2 DEF Outcomes
  <2> QED BY <2>1, <2>2, <2>3 DEF Outcomes
<1>2. ASSUME UNCHANGED <<m_aTasks, queued, pThreadData, stored, Success, resultVars, seen>>,
             \/ pc' = pc \/ pc' \notin Working
             \/ pc \in {"servers", "backup"} /\ pc' \in {"backup", "result"}
      PROVE  Outcomes'
  <2>1. \A u : Reported(u)' = Reported(u) /\ IsQueued(u)' = IsQueued(u)
    BY <1>2 DEF Reported, IsQueued, resultVars
  <2> QED BY <1>2, <2>1 DEF Outcomes, Working, resultVars
<1>3. CASE OnShutdown \/ OnShutdownSleeps \/ MainProgress \/ Terminated
  BY <1>2, <1>3 DEF OnShutdown, OnShutdownSleeps, MainProgress, SignalCount, SignalPost,
                    OnShutdownReturns, Terminated, vars, ringVars, workVars
<1>4. CASE Loop \/ Wait \/ Exit \/ NoServer \/ NoBackup
  BY <1>2, <1>4 DEF Loop, Wait, Exit, NoServer, NoBackup, ringVars, workVars, Working
<1>5. ASSUME NEW t \in Tasks, ExecuteRaces(t) PROVE Outcomes'
  <2>1. /\ UNCHANGED <<m_aTasks, stored, m_Success, m_Completed, reported, seen>>
        /\ pc' = "undefined" /\ \A u : ~IsQueued(u)' => ~IsQueued(u)
        /\ \A u : Reported(u)' = Reported(u)
    BY <1>5, RaceQueue DEF Reported
  <2>2. /\ \A n \in 0..RingSize - 1 : m_aTasks'[n] # Null => stored'[m_aTasks'[n]] = 0
        /\ \A u \in Tasks : ~IsQueued(u)' => stored'[u] = 0
        /\ \A u \in Tasks : stored'[u] <= 1
    BY <2>1 DEF Outcomes
  <2>3. /\ \A u \in Tasks : m_Completed'[u] => Reported(u)'
        /\ \A u \in Tasks : Reported(u)' => (m_Success'[u] <=> stored'[u] = 1)
        /\ \A r \in seen' : Reported(r.task)' /\ (r.ok <=> m_Success'[r.task])
    BY <2>1 DEF Outcomes, Reported
  <2> QED BY <2>1, <2>2, <2>3 DEF Outcomes, Working
<1> QED
  BY <1>1, <1>3, <1>4, <1>5, OutcomesExecute, OutcomesTake, OutcomesExec, OutcomesReport
  DEF Next, Worker

-----------------------------------------------------------------------------
(* The results.                                                            *)

\* Every step keeps the invariant.
LEMMA StepInv == IInv /\ [Next]_vars => IInv'
<1>1. ASSUME IInv, Next PROVE IInv'
  <2>1. TypeOK' /\ Placed' /\ Outcomes'
    BY <1>1, TypeStep, PlacedStep, OutcomesStep
  <2>2. lost' = {} => InStep'
    BY <1>1, RingStep, SignalsStep, ShutdownStep, OrderStep DEF InStep
  <2> QED BY <2>1, <2>2 DEF IInv
<1>2. ASSUME IInv, UNCHANGED vars PROVE IInv'
  <2>1. UNCHANGED <<m_aTasks, m_FirstElem, m_LastElem, queued, taken, lost, m_Sem, m_Shutdown,
                    mainPc, pc, pThreadData, Success, stored, m_Success, m_Completed, reported,
                    seen>>
    BY <1>2 DEF vars, ringVars, semVars, workVars, resultVars
  <2>2. TypeOK' /\ (lost' = {} => InStep')
    BY <1>2, <2>1 DEF IInv, TypeOK, InStep, RingShape, Slot, Waiting, Signals, Unsignalled,
                      EndSignalled, Consumed, ShutdownPhase, Order
  <2>3. Placed' /\ Outcomes'
    BY <1>2, <2>1 DEF IInv, Placed, Outcomes, Reported, IsQueued
  <2> QED BY <2>2, <2>3 DEF IInv
<1> QED BY <1>1, <1>2

\* The invariant holds in every state.
LEMMA Invariance == Spec => []IInv
  BY InitInv, StepInv, PTL DEF Spec

\* The ring of a pool in step is full when its positions meet and the worker, which
\* was woken, is about to take a task.
LEMMA FullAtRace ==
  ASSUME TypeOK, InStep, pc = "take", m_FirstElem = m_LastElem, mainPc = "idle"
  PROVE  Waiting = RingSize
<1>1. /\ Waiting \in 0..RingSize /\ RingSize \in Nat \ {0} /\ m_LastElem \in 0..RingSize - 1
      /\ m_FirstElem = Slot(Waiting)
  BY SizesAssumption DEF TypeOK, InStep, RingShape
<1>2. Waiting # 0
  <2>1. Unsignalled = 0 /\ EndSignalled = 0 /\ Consumed = 1 /\ m_Sem \in Nat
    BY DEF Unsignalled, EndSignalled, Consumed, TypeOK
  <2> QED BY <1>1, <2>1 DEF InStep, Signals
<1>3. Slot(Waiting) = m_LastElem
  BY <1>1
<1> QED BY <1>1, <1>2, <1>3 DEF Slot

\* A task is overwritten only when the ring is full, which means that as many tasks
\* have no outcome yet.
LEMMA OverrunIsFull ==
  ASSUME IInv, NEW t \in Tasks, Execute(t) \/ ExecuteRaces(t), lost = {}, lost' # {}
  PROVE  Len(queued) - Len(reported) >= RingSize
<1>1. TypeOK /\ InStep /\ RingShape
  BY DEF IInv, InStep
<1>2. Waiting = RingSize
  <2>1. CASE Execute(t)
    <3>1. m_aTasks[m_FirstElem] # Null
      BY <2>1 DEF Execute
    <3> QED BY <1>1, <3>1, FullRing
  <2>2. CASE ExecuteRaces(t)
    BY <1>1, <2>2, FullAtRace DEF ExecuteRaces
  <2> QED BY <2>1, <2>2
<1>3. /\ Len(reported) <= taken /\ Len(reported) \in Nat /\ Len(queued) \in Nat /\ taken \in Nat
      /\ RingSize \in Nat
  BY <1>1, SizesAssumption DEF InStep, Order, TypeOK
<1> QED BY <1>2, <1>3 DEF Waiting

\* Every step of the pool is a step of the queue, or none.
LEMMA QueueStep == IInv /\ [Next]_vars => [Queue!Next]_<<queued, reported, lost # {}>>
<1> SUFFICES ASSUME IInv, [Next]_vars PROVE [Queue!Next]_<<queued, reported, lost # {}>>
  OBVIOUS
<1>1. ASSUME NEW t \in Tasks, Execute(t) \/ ExecuteRaces(t) PROVE Queue!Next
  <2>1. /\ ~Queue!Among(t, queued) /\ queued' = Append(queued, t) /\ reported' = reported
        /\ lost \subseteq lost'
    BY <1>1 DEF Execute, ExecuteRaces, IsQueued, Queue!Among, resultVars
  <2>2. \/ (lost' # {}) = (lost # {})
        \/ Len(queued) - Len(reported) >= RingSize /\ (lost' # {}) = TRUE
    BY <1>1, <2>1, OverrunIsFull
  <2>3. Queue!Hand(t)
    BY <2>1, <2>2 DEF Queue!Hand
  <2> QED BY <2>3 DEF Queue!Next
<1>2. CASE SetCompleted
  <2>1. pc \in Working /\ pThreadData \in Tasks /\ IsQueued(pThreadData) /\ ~Reported(pThreadData)
    BY <1>2 DEF SetCompleted, Working, IInv, Placed
  <2>2. lost = {} => pThreadData = queued[Len(reported) + 1]
    BY <2>1, WorksOnNext DEF IInv
  <2>3. Queue!Among(pThreadData, queued) /\ ~Queue!Among(pThreadData, reported)
    BY <2>1 DEF Queue!Among, IsQueued, Reported
  <2>4. UNCHANGED <<queued, lost>> /\ reported' = Append(reported, pThreadData)
    BY <1>2 DEF SetCompleted, ringVars
  <2>5. Queue!Report(pThreadData)
    BY <2>2, <2>3, <2>4 DEF Queue!Report
  <2> QED BY <2>1, <2>5 DEF Queue!Next
<1>3. CASE UNCHANGED <<queued, reported, lost>>
  BY <1>3
<1> QED
  BY <1>1, <1>2, <1>3
  DEF Next, Worker, ReadResult, OnShutdown, OnShutdownSleeps, MainProgress, SignalCount,
      SignalPost, OnShutdownReturns, Terminated, Loop, Wait, Take, Exit, TryServer, TryBackup,
      NoServer, NoBackup, SetSuccess, vars, ringVars, resultVars

\* The ring, the semaphore and the worker of CDbConnectionPool implement a queue for
\* as many tasks as the ring has slots: they are worked on in the order they were
\* handed over until one more is handed over than fits, and never twice.
THEOREM ImplementsQueue == Spec => TasksInOrder
<1>1. Init => Queue!Init
  BY DEF Init, Queue!Init
<1> QED BY <1>1, Invariance, QueueStep, PTL DEF Spec, TasksInOrder, Queue!Spec

\* In a ring that was never overrun, the null pointer that ends the worker is met only
\* after OnShutdown, behind the last task.
THEOREM ExitsDone == Spec => []ExitsWhenDone
<1>1. IInv => ExitsWhenDone
  BY DEF IInv, InStep, ExitsWhenDone, ShutdownPhase, Order, Waiting, Working, TypeOK
<1> QED BY <1>1, Invariance, PTL

\* The outcome the server reads is what the databases did, whichever failed on the
\* way, and no task is carried out twice, whatever was overwritten.
THEOREM OutcomesAreTrue == Spec => []OutcomeIsTrue
<1>1. IInv => OutcomeIsTrue
  BY DEF IInv, OutcomeIsTrue, Outcomes, TypeOK
<1> QED BY <1>1, Invariance, PTL
=============================================================================
