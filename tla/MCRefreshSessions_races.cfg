CONSTANTS
  None = None
  p1 = p1
  Accounts = {us}
  Students = {}
  Browsers = {b1}
  Requests = {r1, r2}
  Passwords = {p1}
  MaxSessions = 2
  MaxOpened = 3
  MaxSecrets = 3
  InitialPassword <- FirstPassword
  OldHashes = {}
  Ops = {"login", "refresh", "logout", "logoutAll", "revoke", "deactivate"}
  Expiring = FALSE
  Overlap = TRUE
  SingleFlight = TRUE
  Lossy = TRUE
SPECIFICATION Spec
SYMMETRY Symmetry
CHECK_DEADLOCK FALSE
PROPERTIES RevokedForGood  
