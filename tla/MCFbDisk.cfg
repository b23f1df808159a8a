SPECIFICATION Spec
CONSTANTS
    First = 1
    Pri = 5
    Total = 7
    PriBytes = 2
    ExtBytes = 3
    Word = 4
    Chunk = 2
    Capacity = 3
    Names = {"a", "b", "c"}
    Sizes = {1, 4, 5}
    Archives <- Saves
    Layouts <- Tried
    MaxRuns = 2
INVARIANT ListLaid
INVARIANT FilesKept
INVARIANT CheckPasses
CHECK_DEADLOCK FALSE
