SPECIFICATION Spec
CONSTANTS
  Submissions = {s1, s2}
  Locals = {p}
  Remotes = {q}
  Owners = {}
  Tools = {}
  Caps = {0, 2}
  MaxTime = 0
  MaxChanges = 0
INVARIANT OneAnswerEach
CHECK_DEADLOCK FALSE
