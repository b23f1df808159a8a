SPECIFICATION Spec
CONSTANTS
    Configs <- Tested
    Edits <- Edited
    MaxFallback = 4
    StuckSoft = 2
    StuckHard = 3
    StuckTimeout = 1
INVARIANT ConfigLoads
