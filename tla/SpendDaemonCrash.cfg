SPECIFICATION Spec
CONSTANTS
  Unset = Unset
  NoDestination = NoDestination
  xch = xch
  cat = cat
  small = small
  large = large
  offer = offer
  swap = swap
  claim = claim
  DailyCap = 2
  Keys = {xch}
  Destinations = {}
  SpendPolicy <- MCPolicy
  Params = {small, large}
  Request <- MCRequest
  Window = 1
  MaxRequests = 2
  MaxClock = 2
  MaxCrashes = 1
  MaxWriteErrors = 1
CHECK_DEADLOCK FALSE
INVARIANTS TypeOK OneApprovalOneAttempt AnnouncedIsWhatRuns AnnouncedIsKept SentIsShown
PROPERTY ImplementsAuthority
