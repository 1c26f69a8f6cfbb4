CONSTANTS
  Width = 6
  Tau = 2
  Targets <- MCTargets
  CompactToDifficulty <- MCCompactToDifficulty
  MaxSwitches = 6
  Lengths = {1}
  Inputs <- PeerInputs
SPECIFICATION Spec
INVARIANT NoOverflowPanic
CHECK_DEADLOCK FALSE
