SPECIFICATION Spec
CONSTANTS
  plain = plain
  dtls = dtls
  Endpoint = {plain, dtls}
  Secured = {dtls}
  Profile <- TimedAsks
  HandlerProfile <- HandlerAsks
  MaxRequests = 2
  MaxMids = 2
  MaxRetransmit = 2
  CounterSize = 4
INVARIANT TimeoutIsNotified
CHECK_DEADLOCK FALSE
