CONSTANTS
  p = p
  q = q
  x = x
  y = y
  a = a
  None = None
  Requests = {p, q}
  Exchanges = {x, y}
  RefreshTokens = {1, 2, 3}
  Logins = 1
  Passwords = {a}
  Invitations = {1, 2}
  Undos = {1}
  ACTIVATION_USER_ATTEMPTS = 1
  Occurring <- Lifetime
  Overlapping <- NoIssuer
SPECIFICATION SessionsSpec
SYMMETRY Symmetric
CHECK_DEADLOCK FALSE
INVARIANTS
  OneLiveInvitation
  SpentOnce
  EndedSessionsStayEnded
PROPERTIES
  UndoRestores
