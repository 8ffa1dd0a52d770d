SPECIFICATION FairCoinsSpec
CONSTANTS
  Coins = {"c"}
  Peers = {"p1", "p2"}
  Handlers = {"h1", "h2"}
  Watched = "c"
  CacheFor = 0
  MaxFaults = 1
  MaxClock = 1
INVARIANTS ConfirmedIsSpent HostedIsRecent
PROPERTY CacheCatchesUp
CHECK_DEADLOCK FALSE
