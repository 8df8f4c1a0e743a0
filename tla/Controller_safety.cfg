SPECIFICATION Spec
CONSTANTS
    d1 = d1
    d2 = d2
    s1 = s1
    s2 = s2
    x1 = x1
    Poller = Poller
    Devices <- TwoDevices
    Channels <- TwoModules
    Subscribers <- OneBrowser
    Executes <- OneCommand
    Target <- CommandTarget
    EventBuffer = 2
    QueueDepth = 1
    IdleHealth = TRUE
    MayClose = TRUE
    MaxUpsets = 0
INVARIANT TypeOK
INVARIANT SubscribeNeverBlocks
INVARIANT NothingLeftAfterClose
INVARIANT FreshStatesKnown
INVARIANT UniqueRevisions
PROPERTY RevisionCountsChanges
CHECK_DEADLOCK FALSE
