CONSTANTS
    LastSector = 2
    PartIds  <- MCPartIds
    FsIds    <- MCFsIds
    TableIds <- MCTableIds
    FlagSets <- MCFlagSets
    Devices  <- DeepDevices
    Offered  <- DeepOffered
    None     = None
    Labels   = {"a"}
    Careless = FALSE
    MaxOps   = 4
SPECIFICATION Spec
CHECK_DEADLOCK FALSE
INVARIANTS
    RunsInOrder
    OperandsLive
