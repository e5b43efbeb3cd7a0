SPECIFICATION FairSpec
CONSTANTS
    Sub <- MCSub
    Turn <- MCTurn
    Intr <- MCIntr
    Del <- MCDel
    Event <- HubEvent
    NoEvent = NoEvent
    Null = Null
    BufferLimit = 2
    MaxFrames = 1
    EagerWrite = FALSE
PROPERTY
    SubscribeAnswered
CHECK_DEADLOCK FALSE
