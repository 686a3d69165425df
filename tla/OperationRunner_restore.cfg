CONSTANTS
    LastSector = 4
    PartIds  <- MCPartIds
    FsIds    <- MCFsIds
    TableIds <- MCTableIds
    FlagSets <- MCFlagSets
    Devices  <- MCDevices
    Offered  <- RestoreOffered
    Careless = FALSE
    None     = None
    Labels   = {"a"}
    MaxOps   = 2
    MaxSuspends = 1
SPECIFICATION RunnerSpec
CHECK_DEADLOCK FALSE
INVARIANTS
    ShowsNothingElse
