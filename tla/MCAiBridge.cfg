CONSTANTS
  Actions = {left, right}
  Stand = Stand
  Local = Local
  KillTicks = 2
  Latency = 4
  MaxTick = 6
SPECIFICATION Spec
INVARIANTS Lockstep AnsweredAtOnce KillIsKept LatestAction
CHECK_DEADLOCK FALSE
