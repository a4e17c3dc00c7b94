CONSTANTS
  Modulus = 4
  CalcHashID <- Bucket
  HASHLIST_BUCKET_SIZE = 1
  World <- SmallWorld
  KeepTicks = 4
  RecoverEvery = 2
  InitEvery = 1
  MaxCrcErrors = 1
  PartSize = 2
  MaxTick = 6
SPECIFICATION Spec
INVARIANTS SameWorld ShownAreStored BaseWasReceived AckedIsStored
CHECK_DEADLOCK FALSE
