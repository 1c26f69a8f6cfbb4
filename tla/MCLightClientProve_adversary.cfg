CONSTANTS
  p1 = p1
  Peers <- MCPeers
  Chain <- MCChain
  Tip = 3
  LastNBlocks = 2
  MaxSamples = 1
  MaxInFlight = 2
  HonestPeers = FALSE
  TxBlocks = {1}
SPECIFICATION Spec
PROPERTY AbsSpec
INVARIANT TypeOK
INVARIANT FetchedTxsOnChain
