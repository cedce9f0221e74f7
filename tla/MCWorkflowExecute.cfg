CONSTANTS
    None = None
    Hole = Hole
    Workflows <- AllWorkflows
    MaxIterations = 3
    MaxExecutions = 2
    MaxFaults = 1
    MaxWaits = 1
SPECIFICATION Spec
INVARIANTS DeliveredOnce RunsOnce 
CHECK_DEADLOCK FALSE
