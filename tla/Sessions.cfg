CONSTANTS
  c1 = c1
  c2 = c2
  c3 = c3
  u1 = u1
  u2 = u2
  p1 = p1
  p2 = p2
  Conn = {c1, c2, c3}
  User = {u1, u2}
  Password = {p1, p2}
  Credential <- MCCredential
  Nobody = Nobody
  Faults = {"sql", "broker"}
SPECIFICATION Spec
INVARIANTS
  TypeOK
  SessionBacked
  OneSessionPerUser
  HistoryMatches
PROPERTY
  ImplementsLock
\* a connection whose thread has ended never acts again
CHECK_DEADLOCK FALSE
