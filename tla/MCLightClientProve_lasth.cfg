CONSTANTS
  p1 = p1
  Peers <- MCPeers
  Chain <- MCChain
  Tip = 4
  LastNBlocks = 2
  MaxSamples = 1
  MaxInFlight = 2
  HonestPeers = FALSE
  TxBlocks = {}
SPECIFICATION Spec
INVARIANT LastHeadersAreTipSuffix
