CONSTANTS
  Conn = {c1, c2}
  Channel = {ch1, ch2}
  SubId = {0}
  SqlFaults = TRUE
  MaxSubs = 2
  MaxSends = 2
SYMMETRY Sym
SPECIFICATION Spec
INVARIANTS
  TypeOK
  ListedIsOwned
  DoneIsGone
  PublisherOrder
  NothingNewAfterLeaving
\* a connection whose thread has ended never acts again
CHECK_DEADLOCK FALSE
