\* One creation at a time: a rule of a site next to a company-wide one is enough.
SPECIFICATION Spec
CONSTANTS
  Callers     = {c1}
  Ids         = {i1, i2, i3}
  Companies   = {k1, k2}
  Professions = {p1}
  Sites       = {s1}
  Terms      <- SomeTerms
  Hours       = {0, 8}
  Wages       = {0, 7}
  NoSite      = NoSite
  NoRate      = NoRate
  NoCall      = NoCall
  NoWage      = NoWage
  NoPay       = NoPay
SYMMETRY Symmetric
INVARIANTS
  SameSalary
