CONSTANTS
  Emails = {e1}
  Passwords = {p1, p2}
  Tokens = {t1}
  Calls = {c1, c2}
  NoCall = NoCall
  NoUser = NoUser
  MaxAge = 1
  TokenAge = 1
  LastSecond = 1
  MaxUses = 2
  Secrets = {s1, s2}
  Owners = {o1, o2}
  NoSecret = NoSecret
  People = {alice}
  States = {x1, x2}
  Callbacks = {b1, b2}
  NoFlow = NoFlow
  MaxRows = 2
  Clients = {a1}
  MaxRequests = 2
  WindowMs = 2
  LastTime = 6
SPECIFICATION Spec
SYMMETRY MCSymmetry
CHECK_DEADLOCK FALSE
INVARIANTS
  AuthTypesOK
  ResetRevokes
  TokenSpentOnce
  RequiredIsProved
  LinkedOnce
  AdmitsByWindow
