CONSTANTS
  Conn = {c1, c2}
  Nobody = Nobody
  Endings = {"answered", "silent", "hangUp", "reset", "logout"}
  MaxChunks = 2
SPECIFICATION Spec
INVARIANTS
  TypeOK
  FramesAreWatched
  TasksAreAnnounced
  NoFrameAbandoned
PROPERTIES
  FramesWritten
  ServerServes
\* a selector thread that left serve() stops, and a server whose clients are silent rests
CHECK_DEADLOCK FALSE
