SPECIFICATION FairSpec
CONSTANTS
  Callers = {c1, c2}
  Keys = {k1, k2}
  Buckets = {b1, b2, b3}
  Burst = 2
  None = None
INVARIANT TypeOK
PROPERTIES ImplementsContract IdleKeysGo
CHECK_DEADLOCK FALSE
