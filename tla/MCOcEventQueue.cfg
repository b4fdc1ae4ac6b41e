SPECIFICATION QueueSpec
CONSTANTS
  Process = {p1, p2}
  Data = {d1}
  Empty = Empty
  NumEvents = 3
  MaxNumEvents = 6
INVARIANT QueueInv
PROPERTIES RingIsFifo ImplementsFifo
