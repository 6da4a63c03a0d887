CONSTANTS
  Conn = {c1, c2}
  Channel = {ch1}
  SubId = {0}
  SqlFaults = FALSE
  MaxSubs = 1
  MaxSends = 0
SYMMETRY Sym
SPECIFICATION Spec
INVARIANT
  SubscribedIffListed
\* a connection whose thread has ended never acts again
CHECK_DEADLOCK FALSE
