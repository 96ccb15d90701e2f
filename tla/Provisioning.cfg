\* Two overlapping calls of any operation on two logins and one worker.
SPECIFICATION Spec
CONSTANTS
  Callers   = {c1, c2}
  Logins    = {l1, l2}
  Workers   = {w1}
  Emails    = {e1, e2}
  Ops       = {"createUser", "createWorker", "removeUser", "removeWorker", "lockUser", "updateUser", "updateWorker"}
  NoEmail   = NoEmail
  NoUser    = NoUser
  NoWorker  = NoWorker
  NoLogin   = NoLogin
  NoCall    = NoCall
  Keep      = Keep
SYMMETRY Symmetric
CONSTRAINT OneKindOfFault
INVARIANTS
  TypeOK
  UserHasIdentity
  AllOrNothing
  LockoutMirrored
