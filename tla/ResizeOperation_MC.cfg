SPECIFICATION ResizeSpec
CONSTANTS
    MaxSector = 4
    Requests <- MCRequests
CHECK_DEADLOCK FALSE
INVARIANTS
    NeverCut
    NoForeignSectors
    ObjectsTrackDisk
    MovedBack
