SPECIFICATION Spec
CONSTANTS
    Drives = {"hd0", "cd"}
    NoDrive = "-1"
    Values = {0, 1}
    Wrong = 2
    Final = 2
    Spt <- SectorsPerTrack
    Fits <- TwoFit
    Size = 2
    BigSector = {"cd"}
INVARIANT Coherent
INVARIANT ReadsDisk
INVARIANT WritesWithGeometry
