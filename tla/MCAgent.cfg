SPECIFICATION Spec
CONSTANTS
    server = server  direct = direct  op1 = op1  op2 = op2  game = game  tool = tool
    None = None
    Handlers <- TwoHandlers
    RequestIds <- OneId
    Aliases <- TwoAliases
    Granted <- TwoAliases
    Writable <- OneAlias
    MaxPerMinute = 1
    Minute = 2
    Lifetime = 1
    MaxTime = 3
    MaxApprovals = 2
INVARIANTS
    TypeOK
    ApprovalIsSpentOnce
    KillSwitchHolds
    ApprovedWritesAreCounted
SYMMETRY HandlerSymmetry
