SPECIFICATION EvmSpec
CONSTANTS
  s1 = s1
  s2 = s2
  call = call
  erc20 = erc20
  permit2 = permit2
  Spends = {s1, s2, call}
  Keys = {erc20, permit2}
  Needs <- MCNeeds
  Amount <- MCAmount
  Rechecks = {call}
INVARIANT FailedIsNotPending
