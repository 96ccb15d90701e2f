\* Two calls may approve or reject the same pending request.
SPECIFICATION Spec
CONSTANTS
  Requests  = {r1}
  Callers   = {c1, c2}
  RowIds    = {i1, i2}
  Amounts   = {1}
  Owed      = {0, 1}
  NoAmount  = NoAmount
  NoRow     = NoRow
  NoRequest = NoRequest
  NoCaller  = NoCaller
  NoCall    = NoCall
INVARIANTS
  AtMostOneEffect
