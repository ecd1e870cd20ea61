SPECIFICATION Spec
CONSTANTS
    Points = {"/", "/b"}
    SysPoints = {}
    Types = {"ext4"}
    watch_fs = {"ext4"}
    ignore_mounts = {}
    Stacked = TRUE
    Unmounts = FALSE
    MaxMounts = 3
INVARIANT ReportedIsMarked
CHECK_DEADLOCK FALSE
