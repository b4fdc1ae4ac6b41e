SPECIFICATION Spec
CONSTANTS
  c1 = c1
  c2 = c2
  r1 = r1
  r2 = r2
  Client = {c1, c2}
  Resource = {r1, r2}
  Periodic = {r1}
  Deletable = {r2}
  Readable <- Readable1
  Guarded <- Guarded1
  Mortal = {c1}
  MaxObservers = 2
  MaxTransactions = 1
  MaxRetransmit = 2
  Refresh = 2
  MaxValue = 3
  MaxInFlight = 1
INVARIANT PeriodicIsPolled
