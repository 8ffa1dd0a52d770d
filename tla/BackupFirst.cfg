SPECIFICATION SeedsSpec
CONSTANTS
  Generated = {k1, k2}
  Seeds = {s1, s2}
  MaxKills = 1
  MaxSeals = 1
  Wallets = {"w1", "w2"}
  MaxTroubles = 3
SYMMETRY Symmetric
INVARIANT BackupBeforeFunds
CHECK_DEADLOCK FALSE
