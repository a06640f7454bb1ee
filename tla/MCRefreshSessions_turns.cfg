CONSTANTS
  None = None
  p1 = p1
  Accounts = {st}
  Students = {st}
  Browsers = {b1}
  Requests = {r1, r2}
  Passwords = {p1, p2}
  MaxSessions = 2
  MaxOpened = 3
  MaxSecrets = 2
  InitialPassword <- FirstPassword
  OldHashes = {st}
  Ops = {"login", "refresh", "reset", "activate", "deactivate"}
  Expiring = TRUE
  Overlap = FALSE
  SingleFlight = TRUE
  Lossy = FALSE
SPECIFICATION Spec
SYMMETRY Symmetry
CHECK_DEADLOCK FALSE
INVARIANTS OldPasswordLockedOut InactiveHasNoSession CookiesAreCurrent
PROPERTIES BookSpec 
