CONSTANTS
  Writers = {w1, w2}
  BufSize = 3
  LocalSize = 2
  MaxSize = 2
  MaxBytes = 5
SPECIFICATION FairSpec
INVARIANTS NothingLost FlushedAtWait FreedLast
PROPERTY FreedInTheEnd
CHECK_DEADLOCK FALSE
