SPECIFICATION ApiSpec
CONSTANTS
  Clients = {c1, c2}
  MaxId = 2
  Former = 1
  Names = {"ann", "a"}
  Emails = {"a@x", "ax"}
  Passwords = {"secret", "pw", "long"}
  Unhashable = {"long"}
  CreateInputs <- MCCreates
  UpdateInputs <- MCUpdates
  EmailConfigured = FALSE
  Faults = {"postgres", "redis", "process"}
  None = None
  Misnamed = {"a"}
  Malformed = {"ax"}
  Short = {"pw"}
INVARIANTS ApiTypeOK NoHashLeaves HttpRowsAreValid
PROPERTY DeletedStayUnseen
CHECK_DEADLOCK FALSE
