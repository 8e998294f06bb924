SPECIFICATION Spec
CONSTANTS
  Clients = {c1, c2}
  MaxId = 1
  Names = {"ann"}
  Emails = {"a@x", "b@x"}
  Passwords = {"p", "long"}
  Unhashable = {"long"}
  CreateInputs <- MCCreates
  UpdateInputs <- MCUpdates
  EmailConfigured = FALSE
  Faults = {}
  None = None
PROPERTY DeletedIsGone
CHECK_DEADLOCK FALSE
