\* Two requests, three overlapping calls, two ledger rows, every interleaving.
SPECIFICATION Spec
CONSTANTS
  Requests  = {r1, r2}
  Callers   = {c1, c2, c3}
  RowIds    = {i1, i2}
  Amounts   = {1}
  Owed      = {0, 1}
  NoAmount  = NoAmount
  NoRow     = NoRow
  NoRequest = NoRequest
  NoCaller  = NoCaller
  NoCall    = NoCall
SYMMETRY Symmetric
INVARIANTS
  TypeOK
  LedgerInv
  EffectsBounded
  ReversalSawAll
PROPERTIES
  AtomicDecisions
