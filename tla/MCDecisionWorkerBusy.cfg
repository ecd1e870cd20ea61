SPECIFICATION FairSpec
CONSTANTS
    Tasks = {"a1", "b", "d"}
    PidOf <- MCPidOf
    cache_size = 2
    Capacity = 2
PROPERTIES PeriodicRecheck
