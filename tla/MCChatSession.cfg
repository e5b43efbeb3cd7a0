SPECIFICATION MCSpec
CONSTANTS
    Turn <- MCTurn
    Null = Null
    MaxIter = 2
    MaxTools = 2
    MaxInterrupts = 1
    p1 = p1
    p2 = p2
    x1 = x1
    x2 = x2
    x3 = x3
    Page = {p1, p2}
    Stream = {x1, x2, x3}
    Home <- MCHome
    Scenes <- MCScenes
    v1 = v1
    v2 = v2
    Visit = {v1, v2}
    Socket = {1, 2, 3, 4, 5, 6}
    Nobody = Nobody
    MaxClicks = 2
    MaxBreaks = 1
    Part <- MCPart
INVARIANTS
    AppTypeOK
    HistoryIsComplete
    ShownOnce
    StuckOnlyIfCut
    OneShell
    DotTellsTruth
PROPERTIES
    InterruptStops
    TurnCompletes
CHECK_DEADLOCK FALSE
