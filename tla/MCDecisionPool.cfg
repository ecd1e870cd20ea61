SPECIFICATION FairSpec
CONSTANTS
    active_decision_workers = 2
    q_size = 1
    Capacity = 1
    Events = {1, 2}
    PidOf <- MCPidOf
    Helpers = {"reconfigure"}
INVARIANTS OwnedOnce AnsweredOnce DrainedAtExit
PROPERTIES EveryAccessEnds ShutdownEnds
