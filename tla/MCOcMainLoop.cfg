SPECIFICATION TimedSpec
CONSTANTS
  Receiver = {r1, r2}
  MaxMessages = 1
  Timer = {t1, t2}
  Interval = {1, 2}
  MaxTime = 3
  Loops = {"eventfd", "condvar"}
INVARIANTS TypeOK NoLostWakeup NoOversleep MessagesConserved
PROPERTIES MessagesAreHandled TimersFire
CHECK_DEADLOCK FALSE
