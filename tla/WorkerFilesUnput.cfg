\* One upload and one call at a time are enough.
SPECIFICATION Spec
CONSTANTS
  DocKeys = {d1}
  ImageKeys = {i1}
  Rows = {r1}
  Callers = {c1}
  MaxConfirms = 1
  NoKey = NoKey
  NoRow = NoRow
  NoCall = NoCall
PROPERTY RowsAreValidated
CHECK_DEADLOCK FALSE
