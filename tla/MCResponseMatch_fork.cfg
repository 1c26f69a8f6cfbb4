CONSTANTS
  Tip = 6
  BlockDiffs = {1, 2}
  LastNBlocks = 2
  MaxSamples = 2
  MaxPeerSamples = 1
  Kinds = {"fork"}
SPECIFICATION Spec
INVARIANT MatcherNeverPanics
CHECK_DEADLOCK FALSE
