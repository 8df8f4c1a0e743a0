SPECIFICATION PageSpec
CONSTANTS
    d1 = d1
    d2 = d2
    s1 = s1
    x1 = x1
    Poller = Poller
    Stream = s1
    Fetches <- TwoFetches
    Devices <- TwoDevices
    Channels <- TwoChannels
    Subscribers <- OneBrowser
    Executes <- OneCommand
    Target <- CommandTarget
    EventBuffer = 2
    QueueDepth = 1
    IdleHealth = FALSE
    MayClose = FALSE
    MaxUpsets = 0
INVARIANT StepwiseViewIsRight
CHECK_DEADLOCK FALSE
