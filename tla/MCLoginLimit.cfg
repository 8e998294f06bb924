SPECIFICATION Spec
CONSTANTS
  Clients = {c1, c2}
  Passwords = {p, weak, long}
  Weak = {weak}
  Unhashable = {long}
  MaxAttempts = 2
  Window = 2
  AccessTTL = 1
  RefreshTTL = 1
  MaxResets = 2
  None = None
INVARIANT AtMostMaxAttempts
CHECK_DEADLOCK FALSE
