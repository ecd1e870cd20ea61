SPECIFICATION Spec
CONSTANTS
    active_decision_workers = 1
    q_size = 1
    Capacity = 1
    Events = {1}
    PidOf <- MCPidOf
    Helpers = {"update"}
INVARIANTS NoResponseThroughReusedFd
