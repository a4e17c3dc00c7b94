CONSTANTS
  NumProtocols = 2
  Threads = 2
  MaxJobs = 2
  MaxLate = 1
  MaxEvents = 2
SPECIFICATION FairSpec
INVARIANT ServersAgree
PROPERTIES EventuallyListed EventuallyGone
CHECK_DEADLOCK FALSE
