SPECIFICATION FairSpec
CONSTANTS
    Sub <- MCSub
    Turn <- MCTurn
    Intr <- MCIntr
    Del <- MCDel
    Event <- HubEvent
    NoEvent = NoEvent
    Null = Null
    BufferLimit = 2
    MaxFrames = 1
    EagerWrite = TRUE
INVARIANTS
    TypeOK
    FeedEndsTruthfully
    StoreAgreesWithFeed
PROPERTY
    StreamsEnd
CHECK_DEADLOCK FALSE
