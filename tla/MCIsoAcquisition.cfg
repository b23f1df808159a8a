SPECIFICATION Spec
CONSTANTS
    a64 = a64
    a32 = a32
    x64 = x64
    x32 = x32
    Garbage = Garbage
    Unasked = Unasked
    NoAnswer = NoAnswer
    None = None
    Mirrors = 2
    Distros <- BothSpellings
    Arch <- BothArch
INVARIANT RightMedium
INVARIANT NoSilentStop
PROPERTY CancelledWritesNothing
PROPERTY Ends
CHECK_DEADLOCK FALSE
