CONSTANTS
  Topic = {t1}
  MaxLogins = 2
  MaxCommands = 1
SPECIFICATION Spec
INVARIANT
  HandlerLive
\* a user who types nothing leaves the client at rest
CHECK_DEADLOCK FALSE
