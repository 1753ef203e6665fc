SPECIFICATION WorkspacesSpec
CONSTANTS
  People = {p1, p2}
  Founder = p1
  NoPerson = NoPerson
  Lists <- TwoLists
  Writers = {p2}
  MaxMembers = 3
  MaxUses = 1
  MaxJoined = 3
  MaxIdentities = 1
  Slots = {w1}
PROPERTY ClosingNotRefused
SYMMETRY Symmetry
CHECK_DEADLOCK FALSE
