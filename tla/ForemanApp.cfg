\* Three kinds of users, two sites, one write of each to the store under way at once.
SPECIFICATION FairSpec
CONSTANTS
  Foremen    = {f1}
  Overseers  = {m1}
  Strangers  = {x1}
  Sites      = {s1, s2}
  EventCalls = {e1}
  Retries    = 0
  MaxSaves   = 1
  NoUser     = NoUser
  NoSite     = NoSite
  NoUnion    = NoUnion
INVARIANTS
  TypeOK
  GateFollowsSession
  SiteOfUnion
  ChoiceIsStored
PROPERTY LoadingEnds
