SPECIFICATION FairSpec
CONSTANTS
    agent = agent  tool = tool  stranger = stranger
    NoClient = NoClient
    Clients <- TwoAndAStranger
    Foreign <- TheStranger
    MaxRequests = 3
INVARIANTS
    TypeOK
    TakenWhole
    LastRequest
PROPERTIES
    AbortIsFinal
    ReceiveReturns
    StopEndsOrWaits
CHECK_DEADLOCK FALSE
