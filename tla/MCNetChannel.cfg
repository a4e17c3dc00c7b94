CONSTANTS
  NET_MAX_SEQUENCE = 6
  Start <- WrapStart
  BufferCap = 2
  ConstructCap = 1
  MaxUnacked = 2
  MaxSent <- WrapMaxSent
  NetCap <- WrapNetCap
SPECIFICATION FairSpec
INVARIANTS UnreceivedIsKept CountersAgree
PROPERTIES InOrderOnce EventuallyReceived
CHECK_DEADLOCK FALSE
