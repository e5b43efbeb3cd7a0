SPECIFICATION FairSpec
CONSTANTS
    Flow <- MCFlow
    Email <- MCEmail
    Token <- MCToken
    Null = Null
INVARIANTS
    TypeOK
    HandedOnce
    SavedIsStored
PROPERTIES
    NoTokenForTheGone
    LoginEnds
CHECK_DEADLOCK FALSE
