SPECIFICATION Spec
CONSTANTS
  Unset = Unset
  NoDestination = NoDestination
  xch = xch
  cat = cat
  small = small
  large = large
  offer = offer
  swap = swap
  claim = claim
  DailyCap = 1
  Keys = {xch, cat}
  Destinations = {}
  SpendPolicy <- MCPolicy
  Params = {offer, swap, claim}
  Request <- MCRequest
  Window = 1
  MaxRequests = 2
  MaxClock = 1
  MaxCrashes = 1
  MaxWriteErrors = 1
CHECK_DEADLOCK FALSE
INVARIANTS CountedStaysOnDisk CapHolds
PROPERTY HandlerEnds
