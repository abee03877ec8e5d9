SPECIFICATION FairSpec
CONSTANTS
    a1 = a1  i1 = i1  i2 = i2  c1 = c1  c2 = c2  game = game  cheat = cheat
    NoId = NoId
    Torn = Torn
    MaxCount = 1
    Addrs <- OneAddr
    TargetValues <- Game
    FreezeValues <- Cheat
    Clients <- TwoClients
    Ids <- OneId
INVARIANTS
    WorkerIsOwned
    NoWorkerOutlivesManager
PROPERTIES
    CallsReturn
    DeadTargetStopsWorkers
    StrandedByFailure
CHECK_DEADLOCK FALSE
