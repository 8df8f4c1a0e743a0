SPECIFICATION FairSpec
CONSTANTS
    c1 = c1
    c2 = c2
    p1 = p1
    p2 = p2
    Commands <- MCCommands
    Polls <- NoPolls
    QueueDepth = 1
    NoRequest = NoRequest
PROPERTY EverySubmitReturns
PROPERTY CloseCompletes
CHECK_DEADLOCK FALSE
