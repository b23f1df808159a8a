SPECIFICATION Spec
CONSTANTS
    C = C
    D = D
    NoTarget = NoTarget
    Targets <- Drives
    MaxSessions = 3
SYMMETRY Symmetry
INVARIANT UninstallerKnowsTarget
INVARIANT EntriesBoot
INVARIANT BootEntryAdded
INVARIANT UninstallWorks
PROPERTY ForeignUntouched
CHECK_DEADLOCK FALSE
