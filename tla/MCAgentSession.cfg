SPECIFICATION Spec
CONSTANTS
    Session <- MCSession
    Apply <- MCApply
    Fork <- MCFork
    main = main
    copy = copy
    a1 = a1
    a2 = a2
    ListLimit = 1
    MaxAppends = 2
INVARIANTS
    TypeOK
    AppliedIsReported
    ForkCopiesPath
SYMMETRY MCSymmetry
CHECK_DEADLOCK FALSE
