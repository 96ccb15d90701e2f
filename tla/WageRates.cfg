\* Two overlapping creations, two companies, one site, three rules.
SPECIFICATION Spec
CONSTANTS
  Callers     = {c1, c2}
  Ids         = {i1, i2, i3}
  Companies   = {k1, k2}
  Professions = {p1}
  Sites       = {s1}
  Terms      <- SomeTerms
  Hours       = {0, 8}
  Wages       = {0, 7}
  NoSite      = NoSite
  NoRate      = NoRate
  NoCall      = NoCall
  NoWage      = NoWage
  NoPay       = NoPay
SYMMETRY Symmetric
INVARIANTS
  TypeOK
  SlotsBounded
  PaidAlike
