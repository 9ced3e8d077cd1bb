\* One deletion of the secret's metadata, after which it is created anew.
CONSTANTS
  run1 = run1
  run2 = run2
  Replicas <- TwoReplicas
  Runs = {run1}
  MaxWrites = 2
  MaxFaults = 1
  Faults = {"recreate"}
SPECIFICATION Spec
INVARIANT NoOpMeansUpToDate
