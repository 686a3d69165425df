CONSTANTS
    LastSector = 2
    PartIds  <- MCPartIds
    FsIds    <- MCFsIds
    TableIds <- MCTableIds
    FlagSets <- MCFlagSets
    Devices  <- DeepDevices
    Offered  <- OverOffered
    None     = None
    Labels   = {"a"}
    Careless = FALSE
    MaxOps   = 2
SPECIFICATION Spec
CHECK_DEADLOCK FALSE
INVARIANT EveryPrefixConsistent
