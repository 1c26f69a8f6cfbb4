CONSTANTS
  Width = 8
  Tau = 2
  Targets <- MCTargets
  CompactToDifficulty <- MCCompactToDifficulty
  MaxSwitches = 4
  Lengths = {1, 2}
  Inputs <- HonestInputs
SPECIFICATION Spec
INVARIANT HonestSegmentAccepted
CHECK_DEADLOCK FALSE
