CONSTANTS
  User = {ann, bob}
  Anon = Anon
  None = None
  MaxItems = 3
  MaxLogins = 3
SPECIFICATION Spec
INVARIANT LoggedInOpensOwn
