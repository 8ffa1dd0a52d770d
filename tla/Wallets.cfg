SPECIFICATION Spec
CONSTANTS
  Lower <- MCLower
  Launcher <- MCLauncher
  Dids = {"did"}
  Options = {"option"}
  Coins = {"coin"}
  OfferIds = {"ours", "theirs"}
  OwnAddresses = {"own"}
  NetworkAddresses = {"own", "payee"}
  MaxFee = 1
  ConfiguredFee = 1
  Bodies <- MCBodies
  FirstHoldings <- MCHoldings
  Slack = 0
  Patience = 1
  RuntimeImport = FALSE
  MaxAsked = 2
  MaxTrouble = 1
  MaxClock = 1
  Generated = {k1, k2}
  Seeds = {s1, s2}
  MaxKills = 1
  MaxSeals = 1
  Wallets = {"w1", "w2"}
  MaxTroubles = 3
SYMMETRY Symmetric
INVARIANTS FundsAreBacked ReportIsTrue JudgedAtTotal OwnWalletPays RecordedMoveIsReal
PROPERTIES EnvelopeStaysOpen SealKeepsSeed
CHECK_DEADLOCK FALSE
