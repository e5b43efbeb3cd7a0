SPECIFICATION Spec
CONSTANTS
    Sub <- MCSub
    Event <- MCEvent
    NoEvent = NoEvent
    BufferLimit = 2
    MaxEvents = 4
INVARIANTS
    TypeOK
PROPERTIES
    TerminalReachesAll
    ImplementsFeed
