SPECIFICATION FairSpec
CONSTANTS
  plain = plain
  dtls = dtls
  Endpoint = {plain, dtls}
  Secured = {dtls}
  Profile <- Asks
  HandlerProfile <- HandlerAsks
  MaxRequests = 2
  MaxMids = 2
  MaxRetransmit = 2
  CounterSize = 4
INVARIANTS
  TypeOK HandlerAtMostOnce NoDanglingTimer ShortTimeoutIsNotified WalkIsSafe
  StillTrying
PROPERTY ExchangesEnd
CHECK_DEADLOCK FALSE
