SPECIFICATION FairSpec
CONSTANTS
  Slot = {s1, s2, s3}
  Trigger = {f}
  Context = {a, b}
  Resource = {r}
  Periodic = Periodic
  Null = Null
  Api = {"add", "remove", "filter", "reset", "observe"}
  MatchAll = {TRUE, FALSE}
  MaxTimerEvents = 2
INVARIANTS BlocksAreSound ExpiredIsAnnounced
PROPERTIES OncePerCheck CancelledNeverRuns EventuallyRuns
