\* Two jobs, a pool with one connection for all but the migrations.
CONSTANTS
  c1 = c1
  c2 = c2
  Callers = {c1, c2}
  Clients = {c1, c2}
  MinRequests = 3
  MaxRequests = 3
  MaxTries = 2
  Window = 4
  MaxConnections = 2
  MaxOutages = 1
  MaxCloses = 2
SPECIFICATION FairSpec
CHECK_DEADLOCK FALSE
INVARIANTS
  TypeOK
  HalfOpenGetsDecided
  TripsWhenAllFail
  ClosedQuietly
  NoSendOnClosedChannel
  NobodyWaitsInVain
PROPERTIES
  ClosesAfterAllTests
  EveryCallReturns
  Recovers
