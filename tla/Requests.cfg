SPECIFICATION Spec
CONSTANTS
  Submissions = {s1, s2}
  Locals = {p}
  Remotes = {q}
  Owners = {o}
  Tools = {t}
  Caps = {0, 1, 2}
  MaxTime = 1
  MaxChanges = 2
INVARIANTS RequestsInv CountExact CapKept
PROPERTIES ClosedStaysClosed
CHECK_DEADLOCK FALSE
SYMMETRY Symmetry
