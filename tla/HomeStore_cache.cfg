SPECIFICATION Spec
CONSTANTS
    MaxStores = 2
    MaxLoads = 2
    MaxTouches = 1
    MaxFaults = 0
    MaxEvents = 1
INVARIANT CacheHoldsLastLoaded
CHECK_DEADLOCK FALSE
