CONSTANTS
  p1 = p1
  Peers <- MCPeers
  Chain <- MCChainUnsampled
  Tip = 4
  LastNBlocks = 2
  MaxSamples = 1
  MaxInFlight = 2
  HonestPeers = TRUE
  TxBlocks = {}
SPECIFICATION FairSpec
INVARIANT LastHeadersAreTipSuffix
PROPERTY ProvedAtTip
