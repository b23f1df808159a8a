SPECIFICATION Spec
CONSTANTS
    BoxH = 3
    Sizes <- MenuSizes
    DeadSets <- Titles
    MaxLines = 5
INVARIANT HighlightShown
PROPERTY ArrowsSkipDead
PROPERTY DownVisitsAll
