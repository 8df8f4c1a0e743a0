SPECIFICATION Spec
CONSTANTS
    c1 = c1
    c2 = c2
    p1 = p1
    p2 = p2
    Commands <- OneCommand
    Polls <- MCPolls
    QueueDepth = 1
    NoRequest = NoRequest
SYMMETRY MCSymmetry
INVARIANT TypeOK
INVARIANT AnsweredOnce
INVARIANT AtMostOneOvertake
INVARIANT AtMostOneStartAfterStop
PROPERTY GivenUpNeverStarts
PROPERTY ImplementsSerialExecutor
CHECK_DEADLOCK FALSE
