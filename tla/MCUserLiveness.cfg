SPECIFICATION FairSpec
CONSTANTS
  Clients = {c1, c2}
  MaxId = 1
  Names = {"ann"}
  Emails = {"a@x", "b@x"}
  Passwords = {"p", "long"}
  Unhashable = {"long"}
  CreateInputs <- MCCreates
  UpdateInputs <- MCUpdates
  EmailConfigured = TRUE
  Faults = {"postgres", "process"}
  None = None
PROPERTIES GhostsExpire EventuallyCoherent
CHECK_DEADLOCK FALSE
