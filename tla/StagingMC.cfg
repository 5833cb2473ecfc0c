CONSTANTS
  x = x
  y = y
  old = old
  new = new
  Absent = Absent
  Plan = {p}
  Path <- TwoPaths
  Content <- TwoContents
  Menu <- SmallMenu
  MaxOps = 2
  UserEdits = TRUE
  Crashes = TRUE
SPECIFICATION Spec
INVARIANT TypeOK
INVARIANT ApplyIsReversible
INVARIANT UndoRestoresOriginal
