CONSTANTS
  Tabs = {"t1", "t2"}
  Uris = {"u1", "u2"}
  Creds = {"c1"}
  WizardFaults = {"write", "marker"}
  b1 = b1
  b2 = b2
  Browsers = {b1, b2}
  MaxTokens = 2
  MaxTime = 1
  Ttl = 1
  MaxPasswords = 2
  SessionFaults = {"save", "password", "ldap"}
  SignInConf <- Filled
SYMMETRY Alike
SPECIFICATION Spec
INVARIANT PagesLand
PROPERTIES  RestartKeepsSessions RevokedCannotRotate
CHECK_DEADLOCK FALSE
