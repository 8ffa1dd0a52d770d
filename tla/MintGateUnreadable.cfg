SPECIFICATION MintSpec
CONSTANTS
  nft = nft
  cat = cat
  mainnet = mainnet
  testnet = testnet
  Digests = {nft, cat}
  Networks = {mainnet, testnet}
  NetworkOf <- MCNetworkOf
  NoGate = NoGate
  Corrupt = Corrupt
  MaxApprovals = 1
  MaxGates = 2
  MaxMintClock = 1
  MaxMintCrashes = 1
  MaxReadErrors = 1
  MaxMintWriteErrors = 1
CHECK_DEADLOCK FALSE
INVARIANT UnreadableRecordRefuses
