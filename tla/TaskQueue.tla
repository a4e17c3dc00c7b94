------------------------------ MODULE TaskQueue ------------------------------
(***************************************************************************)
(* What the database workers promise the server: every task that is handed *)
(* over is worked on, one at a time and in the order they were handed      *)
(* over, and its outcome is reported once.  The promise of the order holds *)
(* until a task is handed over while Capacity others have no outcome yet;  *)
(* this may overrun the queue, and some tasks are then late or lost.       *)
(***************************************************************************)
EXTENDS Integers, Sequences

CONSTANTS Tasks, Capacity

VARIABLES queued,    \* tasks in the order they were handed over
          reported,  \* tasks in the order their outcome was reported
          overrun    \* whether order is lost

Among(t, tasks) == \E i \in 1..Len(tasks) : tasks[i] = t

Init == queued = <<>> /\ reported = <<>> /\ overrun = FALSE

Hand(t) ==
  /\ ~Among(t, queued)
  /\ queued' = Append(queued, t)
  /\ \/ overrun' = overrun
     \/ Len(queued) - Len(reported) >= Capacity /\ overrun' = TRUE
  /\ UNCHANGED reported

Report(t) ==
  /\ Among(t, queued) /\ ~Among(t, reported)
  /\ overrun \/ t = queued[Len(reported) + 1]
  /\ reported' = Append(reported, t)
  /\ UNCHANGED <<queued, overrun>>

Next == \E t \in Tasks : Hand(t) \/ Report(t)

Spec == Init /\ [][Next]_<<queued, reported, overrun>>
=============================================================================
