SPECIFICATION Spec
CONSTANTS
  Requests <- OtherRequests
  LastRequests <- LimitRequests
  MaxRequests = 1
  NegativeSize = {"-1"}
  ContentLength = 5
  RequestLength = 14
INVARIANTS
  DiesOnlyIfUnquoted
