SPECIFICATION FairSpec
CONSTANTS
  NumServers = 2
  MaxRetry = 2
  Short <- MCShort
  Calls <- MCCalls
  MaxCalls = 2
  MaxRequests = 1
  MaxFaults = 2
INVARIANTS
  TypeOK
  SignsInAgain
  KeepsTrying
  SavedOrPending
PROPERTY DeregistrationEnds
CHECK_DEADLOCK FALSE
