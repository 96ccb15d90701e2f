\* A foreman's call, a manager's and a change of the foreman's sites, two at a time.
SPECIFICATION Spec
CONSTANTS
  Callers  = {c1, c2}
  Foremen  = {f1}
  Workers  = {w1}
  Sites    = {s1, s2}
  Manager  = Manager
  NoSite   = NoSite
  NoWorker = NoWorker
  NoCall   = NoCall
  NoOrder  = NoOrder
CONSTRAINTS OneOfAKind OneRow
SYMMETRY Symmetric
INVARIANTS TypeOK ReplacesAllItSaw
PROPERTY EditsStayInScope
