SPECIFICATION FairSpec
CONSTANTS
    Tasks = {"a1", "a2", "b", "d"}
    PidOf <- MCPidOf
    cache_size = 2
    Capacity = 2
INVARIANT ParkedBehindBuilding
PROPERTIES StartupProtected ReleasedWhenQuiet
