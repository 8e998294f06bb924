SPECIFICATION HSpec
CONSTANTS
  Clients = {c1, c2}
  MaxId = 2
  Names = {"ann"}
  Emails = {"a@x", "b@x"}
  Passwords = {"p"}
  Unhashable = {}
  CreateInputs <- MCCreates
  UpdateInputs <- MCUpdates
  EmailConfigured = FALSE
  Faults = {"postgres", "redis", "process"}
  None = None
SYMMETRY ClientSymmetry
INVARIANTS Provenance
PROPERTY ImplementsRegistry
CHECK_DEADLOCK FALSE
