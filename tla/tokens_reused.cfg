\* Two refreshes with one token, and no fault.
SPECIFICATION SessionsSpec
CONSTANTS
  signup = signup
  login = login
  device1 = device1
  device2 = device2
  s = s
  e = e
  AuthRequests = {signup, login, device1, device2}
  Slugs = {s}
  Emails = {e}
  Bodies <- OneRouteEach
  MaxAuthFaults = 0
INVARIANTS
  TokensAreUsedOnce
CHECK_DEADLOCK FALSE
