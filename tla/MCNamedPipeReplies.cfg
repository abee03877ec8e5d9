SPECIFICATION Spec
CONSTANTS
    agent = agent  tool = tool  stranger = stranger
    NoClient = NoClient
    Clients <- OneClient
    Foreign <- NoStranger
    MaxRequests = 1
INVARIANT WaitingClientCanBeAnswered
CHECK_DEADLOCK FALSE
