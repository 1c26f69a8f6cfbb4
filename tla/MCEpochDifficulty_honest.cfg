CONSTANTS
  Width = 8
  Tau = 2
  Targets <- MCTargets
  CompactToDifficulty <- MCCompactToDifficulty
  MaxSwitches = 3
  Lengths = {1, 2}
  Inputs <- TauAndHonestInputs
SPECIFICATION Spec
INVARIANT TauLoopsMatchExactPowers
INVARIANT HonestSegmentAccepted
CHECK_DEADLOCK FALSE
