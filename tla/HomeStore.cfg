CHECK_DEADLOCK FALSE
SPECIFICATION FairSpec
CONSTANTS
    MaxStores = 1
    MaxLoads = 3
    MaxTouches = 2
    MaxFaults = 1
    MaxEvents = 1
INVARIANTS
    RegisteredIsShown
    LastIntentWins
PROPERTIES
    ViewSettles
    IndicatorClears
