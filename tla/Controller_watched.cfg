SPECIFICATION FairSpec
CONSTANTS
    d1 = d1
    d2 = d2
    s1 = s1
    s2 = s2
    x1 = x1
    Poller = Poller
    Devices <- OneDevice
    Channels <- OneModule
    Subscribers <- TwoBrowsers
    Executes <- NoCommand
    Target <- NoTarget
    EventBuffer = 1
    QueueDepth = 1
    IdleHealth = FALSE
    MayClose = FALSE
    MaxUpsets = 0
PROPERTY WatchedSettles
PROPERTY UnwatchedGoesIdle
CHECK_DEADLOCK FALSE
