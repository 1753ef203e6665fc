SPECIFICATION AccessSpec
CONSTANTS
  Items = {i1}
  Owned = {o1, o2}
  MaxConnections = 2
  MaxCalls = 1
  ConnectionTtl = 1
  MaxConnectionTime = 1
  Controls = {c1, c2}
  ShareKeys = {"name"}
  MaxTickets = 1
  MaxCodes = 1
  MaxGenerations = 1
  MaxShares = 2
  People = {a, b}
  Sends = {s1, s2}
  PairPerDay = 1
  MaxEdits = 2
  MaxLosses = 1
SYMMETRY Symmetry
INVARIANTS PauseAndHoldsAgree LapsedStayDead HeldOnlyWhilePaused EndedGrantsReadNothing StrangersBounded
PROPERTIES BlockHolds
CHECK_DEADLOCK FALSE
