SPECIFICATION Spec
CONSTANTS
  DocKeys = {d1}
  ImageKeys = {i1, i2}
  Rows = {r1, r2}
  Callers = {c1, c2}
  MaxConfirms = 2
  NoKey = NoKey
  NoRow = NoRow
  NoCall = NoCall
SYMMETRY Symmetry
INVARIANTS
  TypeOK
  ReferencesOpen
  NoStrayObject
CHECK_DEADLOCK FALSE
