CONSTANTS
    LastSector = 5
    PartIds  <- MCPartIds
    FsIds    <- MCFsIds
    TableIds <- MCTableIds
    FlagSets <- MCFlagSets
    Devices  <- MCDevices
    Offered  <- MCOffered
    None     = None
    Labels   = {"a"}
    Careless = FALSE
    MaxOps   = 2
SPECIFICATION Spec
CHECK_DEADLOCK FALSE
CONSTRAINT LabelsBound
INVARIANTS
    EveryPrefixConsistent
    UndoRestoresLayout
    RunsInOrder
    OwnedOnce
    OperandsLive
