CONSTANTS
    LastSector = 2
    PartIds  <- MCPartIds
    FsIds    <- MCFsIds
    TableIds <- MCTableIds
    FlagSets <- MCFlagSets
    Devices  <- SmallDevices
    Offered  <- MCOffered
    Careless = FALSE
    None     = None
    Labels   = {"a"}
    MaxOps   = 3
    MaxSuspends = 1
SPECIFICATION RunnerSpec
CHECK_DEADLOCK FALSE
INVARIANTS
    JobsFindTheirPlaces
    PlanFulfilled
PROPERTIES
    ClearKeepsShown
