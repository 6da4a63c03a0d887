SPECIFICATION Spec
CONSTANTS
    byte1 = byte1
    byte2 = byte2
    Letter = {byte1, byte2}
    Frame <- MCFrame
    Capacity = 2
    MaxFrames = 3
    MaxChunk = 4
INVARIANTS TypeOK FramesIntact OnlyLongOverflow
PROPERTIES AllArrive EndNoticed
\* a client that sends nothing leaves both ends at rest
CHECK_DEADLOCK FALSE
