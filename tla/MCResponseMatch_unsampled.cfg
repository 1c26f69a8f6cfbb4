CONSTANTS
  Tip = 5
  BlockDiffs = {1, 2}
  LastNBlocks = 2
  MaxSamples = 2
  MaxPeerSamples = 1
  Kinds = {"honest"}
SPECIFICATION Spec
INVARIANT HonestUnsampledResponseMatched
CHECK_DEADLOCK FALSE
