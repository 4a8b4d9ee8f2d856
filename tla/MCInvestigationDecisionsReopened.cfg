\* A row is OPEN and two requests race: one ends the investigation, one does not.
SPECIFICATION Spec
CONSTANTS
  r1 = r1
  q1 = q1
  q2 = q2
  NoRow = NoRow
  Return = {r1}
  Request = {q1, q2}
PROPERTY FinalIsNotReopened
CHECK_DEADLOCK FALSE
