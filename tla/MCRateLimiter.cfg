SPECIFICATION Spec
CONSTANTS
    game = game  tool = tool
    Aliases <- TwoAliases
    MaxPerMinute = 2
    Minute = 3
    MaxTime = 7
INVARIANTS
    TypeOK
    BurstIsBounded
    CountsItsAdmissions
CHECK_DEADLOCK FALSE
