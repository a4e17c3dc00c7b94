CONSTANTS
  Jobs = {j1, j2, j3}
  Workers = {w1, w2}
  NoJob = NoJob
SPECIFICATION FairPoolSpec
INVARIANTS ListShape RunByOne
PROPERTIES QueuedJobsRun DestroyReturns
