\* No assumption on the functions, but for the liveness property, which states
\* its own.
SPECIFICATION FairSpec
CONSTANTS
    root = root
    a = a
    b = b
    x = x
    y = y
    None = None
    Tasks <- MCTasks
    Root = root
    Plan <- MCPlan
    Required <- MCRequired
INVARIANTS
    IInv
    RunsAtMostOnce
    LateStartBound
    CompletionMeansDone
PROPERTIES
    NoStartAfterFailure
    CancelIsSticky
    KeepsContract
    StopEndsThread
