\* Three requests about one return, each for any outcome: two may race while a third
\* puts the row into the state they raced for.
SPECIFICATION Spec
CONSTANTS
  r1 = r1
  q1 = q1
  q2 = q2
  q3 = q3
  NoRow = NoRow
  Return = {r1}
  Request = {q1, q2, q3}
SYMMETRY Symmetry
INVARIANTS
  TypeOK
  RowsAreSanctioned
PROPERTIES
  FinalChangesOnlyByStaleCheck
  InsertNeverReplaces
CHECK_DEADLOCK FALSE
