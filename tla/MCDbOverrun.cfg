CONSTANTS
  Tasks = {r1, r2, w1}
  Writes = {w1}
  Null = Null
  RingSize = 2
  NumRead = 2
  NumWrite = 2
  NumBackup = 1
SPECIFICATION Spec
INVARIANTS DrainedAtShutdown
