SPECIFICATION Spec
CONSTANTS
    p1 = p1
    p2 = p2
    p3 = p3
    lv1 = lv1
    PVs <- SmallPVs
    LVs <- SmallLVs
    Size = 2
    Slack = 1
    MaxLength = 2
    MaxOperations = 2
INVARIANTS
    TotalRestored
CHECK_DEADLOCK FALSE
