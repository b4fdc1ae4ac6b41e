SPECIFICATION FairSpec
CONSTANTS
  light = light
  lamp = lamp
  None = None
  Key = {light, lamp}
  Kind <- MCKind
  MaxRequests = 2
  MaxMid = 5
  MaxCopies = 1
INVARIANTS
  PayloadsAreAssembled
  UndisturbedIsExact
  BuffersAreSound
PROPERTY NothingIsKept
CHECK_DEADLOCK FALSE
