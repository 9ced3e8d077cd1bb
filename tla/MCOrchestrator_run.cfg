\* Three secrets, two slots: one job has to wait.
CONSTANTS
  p1 = p1
  p2 = p2
  p3 = p3
  Paths = {p1, p2, p3}
  Concurrency = 2
SPECIFICATION FairSpec
INVARIANTS
  TypeOK
  WithinLimit
  NoSendOnClosed
  EveryPathAccountedFor
  NilErrorMeansAllRan
  SendersHaveRoom
  NeverStuck
PROPERTIES
  Returns
  IsParallelLoop
