SPECIFICATION TrustSpec
CONSTANTS
  Walks = {w1, w2}
  MaxRoots = 2
  MaxKids = 2
  MaxStops = 1
  KeyTtl = 2
  MaxWalk = 1
  Checks = {k1, k2}
  StatusTtl = 1
  Window = 1
  ClockSkew = 1
  MaxWait = 2
  MaxBehind = 0
  MaxAhead = 2
  Checkings = {k3}
  Replies = {a1, a2}
  CheckTtl = 1
  PresentationMaxAge = 1
  Skew = 1
  StaleFor = 1
  MaxCalls = 1
  Fast = 1
  Ceremonies = {c1, c2}
  Tickets = {t1}
  NoTicket = NoTicket
  MaxCodes = 2
  Attempts = 2
  PerHour = 1
  MaxAccounts = 2
  MaxRestarts = 1
SYMMETRY Symmetry
INVARIANTS KeysRecentlyPinned PinnedRootServed RotatedPeerHeard StatusHeardRightly ConfirmedOnce
PROPERTIES ChecksAnsweredRightly WayInStays
CHECK_DEADLOCK FALSE
