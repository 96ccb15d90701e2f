SPECIFICATION Spec
CONSTANTS
  Companies  = {a, b}
  Names      = {n1, n2}
  Others     = {k1}
  FormCall   = FormCall
  MaxChanges = 3
  NoCompany  = NoCompany
  NoName     = NoName
  NoCall     = NoCall
  NoForm     = NoForm
INVARIANTS
  TypeOK
  CopyMatchesLink
PROPERTY UntouchedSaveKeepsLink
SYMMETRY Symmetry
