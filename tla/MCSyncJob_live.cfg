\* One run at a time, started again and again; crashes and failing calls.
CONSTANTS
  run1 = run1
  run2 = run2
  Replicas <- TwoReplicas
  Runs = {run1}
  MaxWrites = 2
  MaxFaults = 2
  Faults = {"dbFail", "vaultFail", "lostReply", "crash", "replicaDelete"}
SPECIFICATION FairSpec
PROPERTIES
  DeletionCarriedThrough
  Mirrors
