SPECIFICATION Spec
CONSTANTS
  Requests <- FittingRequests
  LastRequests <- LimitRequests
  MaxRequests = 2
  NegativeSize = {"-1"}
  ContentLength = 6
  RequestLength = 15
INVARIANTS
  DeliversWhatIsWritten
  DiesWithReason
