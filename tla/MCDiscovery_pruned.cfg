\* What is not directly under "a" is to be synced.
CONSTANTS
  Mounts <- TwoMounts
  Universe <- TwoMountPaths
  Trees <- SmallTrees
  Rules <- ExceptUnderA
  Faults = {}
  MaxFaults = 0
  MaxChanges = 0
SPECIFICATION Spec
INVARIANT WhatMatchesIsDiscovered
