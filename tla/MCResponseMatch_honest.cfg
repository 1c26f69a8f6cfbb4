CONSTANTS
  Tip = 5
  BlockDiffs = {1, 2}
  LastNBlocks = 2
  MaxSamples = 2
  MaxPeerSamples = 1
  Kinds = {"honest", "peer"}
SPECIFICATION Spec
INVARIANT HonestResponseMatched SampledCoverRequested
CHECK_DEADLOCK FALSE
