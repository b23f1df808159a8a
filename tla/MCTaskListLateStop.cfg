\* The stop that is lost: cancel() between the guard and status = ACTIVE.
SPECIFICATION Spec
CONSTANTS
    root = root
    a = a
    b = b
    x = x
    y = y
    None = None
    Root = root
    Tasks <- MCTasks
    Plan <- MCPlan
    Required <- MCRequired
INVARIANT
    StopMeansStop
