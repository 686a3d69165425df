CONSTANTS
    LastSector = 3
    PartIds  <- MCPartIds
    FsIds    <- MCFsIds
    TableIds <- MCTableIds
    FlagSets <- MCFlagSets
    Devices  <- DeepDevices
    Offered  <- CopiesOffered
    None     = None
    Labels   = {"a"}
    Careless = TRUE
    MaxOps   = 3
SPECIFICATION Spec
CHECK_DEADLOCK FALSE
INVARIANT OperandsLive
