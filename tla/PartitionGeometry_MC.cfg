SPECIFICATION GeometrySpec
CONSTANTS
    sda1 = sda1
    sda2 = sda2
    sda5 = sda5
    sda6 = sda6
    None = None
    Primaries <- OnePrimary
    Logicals <- TwoLogicals
    Extended = sda2
    TotalSectors = 12
    Alignment = 2
    MinSectors = 2
    MaxSectors = 12
    AllowTight = FALSE
INVARIANTS
    LayoutSound
    UnallocatedIsFree
SYMMETRY Symmetric
