CONSTANTS
  Conn = {c1}
  Nobody = Nobody
  Endings = {"answered"}
  MaxChunks = 1
SPECIFICATION Spec
PROPERTY
  EndedIsClosed
\* a selector thread that left serve() stops, and a server whose clients are silent rests
CHECK_DEADLOCK FALSE
