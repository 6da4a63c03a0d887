SPECIFICATION Spec
CONSTANTS
    final = final
    u1 = u1
    u2 = u2
    Commands1 = 2
    Commands2 = 3
    User = {u1, u2}
    Game = {final}
    Joined = {u1}
    File <- MCFile
    Types <- MCTypes
    MaxCommands <- MCMaxCommands
    MaxLogins = 1
INVARIANTS TypeOK NoGaps NothingLost Agreement SummaryFlags ScoreIsLatest
PROPERTY Delivered
\* users who type nothing leave the clients and the server at rest
CHECK_DEADLOCK FALSE
