\* The capacity a configuration without "concurrency" gives: every job waits for
\* ever, so that the system stops.
CONSTANTS
  p1 = p1
  p2 = p2
  p3 = p3
  Paths = {p1, p2}
  Concurrency = 0
SPECIFICATION FairSpec
CHECK_DEADLOCK FALSE
PROPERTY Returns
