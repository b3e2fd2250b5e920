\* Two users, three logins (two at a time) and two calls of administrators.
SPECIFICATION Spec
CONSTANTS
  root = root
  bob = bob
  pw1 = pw1
  pw2 = pw2
  ip1 = ip1
  l1 = l1
  l2 = l2
  l3 = l3
  NULL = NULL
  Users = {root, bob}
  Root = root
  Passwords = {pw1, pw2}
  Ips = {ip1}
  Attempts = {l1, l2, l3}
  UserFails = 1
  IpFails = 2
  Window = 2
  MaxNow = 2
  MaxLogins = 2
  MaxRestarts = 1
  MaxCalls = 2
SYMMETRY Symmetry
INVARIANTS AdminRemains SessionsFollowPassword GuessesBounded LockoutJustified
\* Every login and every call may be over and the clock at its bound.
CHECK_DEADLOCK FALSE
