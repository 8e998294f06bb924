SPECIFICATION Spec
CONSTANTS
  Clients = {c1, c2}
  MaxId = 2
  Names = {"ann"}
  Emails = {"a@x", "b@x"}
  Passwords = {"p", "long"}
  Unhashable = {"long"}
  CreateInputs <- MCCreates
  UpdateInputs <- MCUpdates
  EmailConfigured = TRUE
  Faults = {"postgres", "redis", "process"}
  None = None
SYMMETRY ClientSymmetry
INVARIANTS TypeOK EmailsUnique Prepared
PROPERTY GoneForGood
CHECK_DEADLOCK FALSE
