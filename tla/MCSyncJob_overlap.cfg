\* Two runs that overlap (plain cron), any one fault.
CONSTANTS
  run1 = run1
  run2 = run2
  Replicas <- OneReplica
  Runs = {run1, run2}
  MaxWrites = 2
  MaxFaults = 1
  Faults = {"dbFail", "vaultFail", "writeFail", "lostReply", "lateWrite",
            "confused404", "crash", "cancel", "recreate", "replicaDelete",
            "replicaSoftDelete"}
SPECIFICATION Spec
SYMMETRY RunSymmetry
INVARIANTS
  SuccessIsEarned
PROPERTIES
  IsReplicaStore
