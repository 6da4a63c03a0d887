CONSTANTS
  Topic = {t1, t2}
  MaxLogins = 1
  MaxCommands = 2
SPECIFICATION Spec
INVARIANT
  ReceiptNamesCommand
\* a user who types nothing leaves the client at rest
CHECK_DEADLOCK FALSE
