SPECIFICATION Spec
CONSTANTS
    Procs = {p1}
    Bystanders = {}
    Refusals = TRUE
INVARIANT StartedByLinker
CHECK_DEADLOCK FALSE
