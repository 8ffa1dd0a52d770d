SPECIFICATION Spec
CONSTANTS
  nft = nft
  cat = cat
  mainnet = mainnet
  testnet = testnet
  NoGate = NoGate
  Corrupt = Corrupt
  Digests = {nft, cat}
  Networks = {mainnet, testnet}
  NetworkOf <- MCNetworkOf
  MaxApprovals = 2
  MaxGates = 2
  MaxMintClock = 1
  MaxMintCrashes = 1
  MaxReadErrors = 1
  MaxMintWriteErrors = 1
  chia = chia
  evm = evm
  NoType = NoType
  Messages = {chia, evm}
  AllowedType <- MCAllowedType
  Lifetime = 1
  MaxMints = 2
  MaxPresented = 3
  MaxSignClock = 2
  MaxRestarts = 1
  MaxSignWriteErrors = 1
  s1 = s1
  s2 = s2
  call = call
  erc20 = erc20
  permit2 = permit2
  Spends = {s1, s2, call}
  Keys = {erc20, permit2}
  Rechecks = {call}
  Needs <- MCNeeds
  Amount <- MCAmount
  Chains = {"dev", "main"}
  Mainnets = {"main"}
  Addresses = {"payee"}
  Transfers <- MCTransfers
  MaxExecuted = 2
  MaxTip = 1
  MaxSolanaTrouble = 1
  c1 = c1
  c2 = c2
  o1 = o1
  o2 = o2
  pay = pay
  Coins = {c1, c2}
  Offers = {o1, o2}
  Payments = {pay}
  MaxInFlight = 2
  MaxOfferCrashes = 1
  Assets = {"xch", "cat", "nft"}
  Kind <- MCKind
  Amounts = {2}
  Fees = {0, 5, 11}
  Costs = {1, 2}
  Routers = {"r1", "r2"}
  RoutesFor <- MCRoutes
  MaxFee = 10
  Ttl = 2
  Lag = 1
  MaxAsked = 2
  MaxOffers = 2
  MaxForgeClock = 4
  MaxForgeTrouble = 1
SYMMETRY CoinSymmetry
INVARIANTS OneAttemptPerGrant AttemptWasGranted SignaturesWithinApprovals
  AllowanceIsExact NothingReplaced RowsNameTheirOwn LandedIsCounted
  OneOpenOfferPerCoin OneOpenOfferPerPair FilledIsOnRecord
PROPERTIES OpenOffersAreLeftAlone FilledAsApproved
CHECK_DEADLOCK FALSE
