CONSTANTS
  x = x
  y = y
  old = old
  new = new
  Absent = Absent
  Plan = {p}
  Path <- TwoPaths
  Content <- TwoContents
  Menu <- SmallMenu
  MaxOps = 2
  UserEdits = FALSE
  Crashes = FALSE
CHECK_DEADLOCK FALSE
SPECIFICATION Spec
INVARIANT UndoBringsBackAll
