CONSTANTS
  Topic = {t1, t2}
  MaxLogins = 2
  MaxCommands = 3
SPECIFICATION Spec
INVARIANTS
  TypeOK
  CountsAgree
PROPERTY
  EndNoticed
\* a user who types nothing leaves the client at rest
CHECK_DEADLOCK FALSE
