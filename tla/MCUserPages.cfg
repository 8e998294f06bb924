SPECIFICATION Spec
CONSTANTS
  MaxId = 4
  MaxInt = 7
  MaxInt32 = 3
  DefaultLimit = 1
  MaxLimit = 2
INVARIANTS TypeOK WalkIsComplete WalkHasNoRepeats TotalIsTrue EarlierUsersSkipped
CHECK_DEADLOCK FALSE
