CONSTANTS
    a = a
    b = b
    w1 = w1
    w2 = w2
    Workers <- MCWorkers
    SLOTS = 2
    Records <- MCRecords
    Snapshots <- MCSnapshots
    MaxGeneration = 2
    MaxFaults = 1
    MaxCrashes = 1
SPECIFICATION FairSpec
INVARIANTS
    ReadersSeeComplete
    PublishedContent
    FreshAfterReload
PROPERTIES
    OneContent
    RetiredReclaimed
    UpdateCompletes
