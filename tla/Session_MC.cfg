SPECIFICATION Spec
CONSTANTS
    sda = sda
    sdb = sdb
    md0 = md0
    vg0 = vg0
    home = home
    media = media
    tmpfs = tmpfs
    Disks = {sda}
    Arrays = {md0}
    Groups = {vg0}
    Configured = {md0}
    NoTable = NoTable
    Contents <- Ordered
    ArrayContent <- OnArray
    Rank <- Order
    NoAnswer = NoAnswer
    Long = 1048576
    TotalSectors = 20
    Alignment = 2
    GptTail = 1
    MaxScans = 2
    MaxChanges = 1
    Edited <- EditedPartition
    Points = {home, media}
    NoPoint = NoPoint
    Files <- TheFiles
    MaxSaves = 1
INVARIANTS
    OthersKept
    OperationsLive
    ListIsWorld
    TreeIsTable
    SmartTells
CHECK_DEADLOCK FALSE
