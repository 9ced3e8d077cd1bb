\* Two mounts, rules of patterns up to three segments, one fault, one change.
CONSTANTS
  Mounts <- TwoMounts
  Universe <- TwoMountPaths
  Trees <- SmallTrees
  Rules <- ManyRules
  Faults = {"loginFail", "listFail", "confused404", "cancel"}
  MaxFaults = 1
  MaxChanges = 1
SPECIFICATION FairSpec
INVARIANTS
  TypeOK
  OnlyWhatTheRuleAccepts
  Complete
  PruningHidesNothing
PROPERTY Ends
