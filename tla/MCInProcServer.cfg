SPECIFICATION FairSpec
CONSTANTS
    p1 = p1  p2 = p2
    Server = Server
    Peers <- TwoPeers
    MaxRequests = 3
INVARIANTS
    TypeOK
    ExchangeInOrder
    NobodyTalksToNoServer
PROPERTIES
    RequestsAreTaken
    StopReturns
