\* One write that a replica refuses.
CONSTANTS
  run1 = run1
  run2 = run2
  Replicas <- TwoReplicas
  Runs = {run1}
  MaxWrites = 2
  MaxFaults = 1
  Faults = {"writeFail"}
SPECIFICATION Spec
INVARIANT NoOpMeansUpToDate
