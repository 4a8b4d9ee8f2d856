\* One call that gives up and one that reads the confirmation left behind.
SPECIFICATION Spec
CONSTANTS
  c1 = c1
  c2 = c2
  Call = {c1, c2}
INVARIANT SuccessIsConfirmed
CHECK_DEADLOCK FALSE
