\* One run at a time (concurrencyPolicy: Forbid), two faults.
CONSTANTS
  run1 = run1
  run2 = run2
  Replicas <- TwoReplicas
  Runs = {run1}
  MaxWrites = 2
  MaxFaults = 2
  Faults = {"dbFail", "vaultFail", "writeFail", "lostReply", "lateWrite",
            "confused404", "crash", "cancel", "recreate", "replicaDelete"}
SPECIFICATION Spec
INVARIANTS
  TypeOK
  SuccessIsEarned
  RowNeverAhead
  CopiesTracked
  NoOpUpToDate
  ReportTruthful
PROPERTIES
  NeverDeletesCurrentCopy
  IsMirror
  RowGoesLast
