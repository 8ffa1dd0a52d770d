SPECIFICATION Spec
CONSTANTS
  Roles <- McRoles
  Contracts <- McContracts
  Builtin <- McBuiltin
  Alternates <- McAlternates
  Tokens <- McTokens
  Rank <- McRank
  Natives = {"0x0", "0xe"}
  Zero = "0x0"
  Wrapped = "weth"
  Settlers = {"settler"}
  MaxHops = 2
  Balance = 9
  Slack = 1
  U24 = 3
  U48 = 40
  U128 = 3
  U256 = 5
  I24 = 2
  V3Fees = {1}
  Soon = 1
  Lifetime = 2
  MaxCommands = 3
  MaxEdits = 2
  Requesters = {"swap", "lp", "contract"}
  Unset = Unset
  NoDestination = NoDestination
  PolicyKeys = {xch, cat}
  PolicyDestinations = {home}
  LeastLimit = 1
  MaxAmount = 2
SYMMETRY KeySymmetry
CHECK_DEADLOCK FALSE
INVARIANTS SplittingNeverHelps SwapKeepsBounds SwapAllowancesFit IntentKeepsBounds LiquidityNotWasted
