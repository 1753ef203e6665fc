SPECIFICATION Spec
CONSTANTS
  Submissions = {s1}
  Locals = {p}
  Remotes = {}
  Owners = {o}
  Tools = {}
  Caps = {0}
  MaxTime = 0
  MaxChanges = 3
PROPERTY OwnerPauseStays
CHECK_DEADLOCK FALSE
