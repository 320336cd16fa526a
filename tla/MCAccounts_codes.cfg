CONSTANTS
  p = p
  q = q
  a = a
  b = b
  None = None
  Requests = {p, q}
  Passwords = {a}
  Invitations = {1, 2}
  Undos = {1}
  ACTIVATION_USER_ATTEMPTS = 1
  Occurring <- Timed
  Overlapping <- Codes
SPECIFICATION Spec
SYMMETRY RequestSymmetry
CHECK_DEADLOCK FALSE
INVARIANTS
  TypeOK
  UsedOnce
  UndoneNeverCompleted
  WithdrawnStaysDead
  AttemptsBounded
  NobodyStuck
