SPECIFICATION PageSpec
CONSTANTS
    d1 = d1
    d2 = d2
    s1 = s1
    x1 = x1
    Poller = Poller
    Stream = s1
    Fetches <- OneFetch
    Devices <- OneDevice
    Channels <- OneModule
    Subscribers <- OneBrowser
    Executes <- OneCommand
    Target <- CommandTarget
    EventBuffer = 2
    QueueDepth = 1
    IdleHealth = FALSE
    MayClose = FALSE
    MaxUpsets = 1
INVARIANT CurrentViewIsRight
CHECK_DEADLOCK FALSE
