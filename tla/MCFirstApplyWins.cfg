SPECIFICATION Spec
CONSTANTS
    Session <- MCSession
    Apply <- MCApply
    Fork <- MCFork
    main = main
    copy = copy
    a1 = a1
    a2 = a2
    ListLimit = 2
    MaxAppends = 3
INVARIANTS
    FirstApplyWins
SYMMETRY MCSymmetry
CHECK_DEADLOCK FALSE
