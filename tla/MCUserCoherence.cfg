SPECIFICATION CSpec
CONSTANTS
  Clients = {c1, c2, c3}
  MaxId = 1
  Names = {"ann", "eve"}
  Emails = {"a@x"}
  Passwords = {"p"}
  Unhashable = {}
  CreateInputs <- MCCreates
  UpdateInputs <- MCUpdates
  EmailConfigured = FALSE
  Faults = {"postgres", "redis", "process"}
  None = None
SYMMETRY ClientSymmetry
INVARIANTS CoherentUnlessDisturbed
PROPERTY UndisturbedReadsAreFresh
CHECK_DEADLOCK FALSE
