SPECIFICATION FairSpec
CONSTANT
    MaxReports <- MCMaxReports
INVARIANTS
    LeftWhenOver
    NoFinishAfterFailure
    FinishIsUsers
PROPERTIES
    ProgressEnds
    QuitEnds
