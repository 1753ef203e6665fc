SPECIFICATION Spec
CONSTANTS
  Readers = {r1, r2}
  Owners = {o1, o2}
  Caps = {0, 2}
  MaxTime = 1
  MaxChanges = 2
  MaxServed = 2
  SaveModes = {"columns"}
INVARIANTS LinksInv EveryClosingTold IndexCurrent
PROPERTIES KeepsBudget ClosedStaysClosed
CHECK_DEADLOCK FALSE
SYMMETRY Symmetry
