CONSTANTS
  p1 = p1
  Peers <- MCPeers
  Chain <- MCChain
  Tip = 5
  LastNBlocks = 2
  MaxSamples = 1
  MaxInFlight = 2
  HonestPeers = FALSE
  TxBlocks = {}
SPECIFICATION Spec
INVARIANT ReorgHeadersContinuous
