SPECIFICATION Spec
CONSTANTS
    a1 = a1  i1 = i1  i2 = i2  c1 = c1  c2 = c2  game = game  cheat = cheat
    NoId = NoId
    Torn = Torn
    MaxCount = 1
    Addrs <- OneAddr
    TargetValues <- Game
    FreezeValues <- Cheat
    Clients <- OneClient
    Ids <- TwoIds
INVARIANTS
    TypeOK
    RestoreIsFinal
    InactiveIsQuiet
    DeathIsReported
PROPERTY KeepsContract
CHECK_DEADLOCK FALSE
