CONSTANTS
  c1 = c1
  c2 = c2
  Caller = {c1, c2}
  MaxPairs = 3
SPECIFICATION Spec
SYMMETRY Alike
INVARIANT OneLivePerLogin
INVARIANT LiveTokenHeld
INVARIANT LogoutRevokes
