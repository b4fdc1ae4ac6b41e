SPECIFICATION Spec
CONSTANTS
  NumServers = 2
  MaxRetry = 2
  Short <- MCShort
  Calls <- MCCalls
  MaxCalls = 2
  MaxRequests = 1
  MaxFaults = 2
INVARIANT StoppedIsStopped
CHECK_DEADLOCK FALSE
