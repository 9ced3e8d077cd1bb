\* Two operations share a client; tokens that live a little longer than needed.
CONSTANTS
  c1 = c1
  c2 = c2
  Callers = {c1, c2}
  Threshold = 4
  RoleTTL = 7
  Delay = 2
  MaxRequests = 3
  MaxAge = 6
SPECIFICATION FairSpec
INVARIANTS
  TypeOK
  NeverDeniedInTime
  NobodyLogsInTwice
PROPERTIES
  OperationsEnd
