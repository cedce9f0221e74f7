\* A stop, a timeout and a failing update against two executions and two slots.
SPECIFICATION Spec
CONSTANTS
    e1 = e1 e2 = e2
    Executions = {e1, e2}
    MaxCalls <- MCTwoAndOne
    None = None
    Limit = 2
    WithWait = {e1}
    WithResponse = {e1, e2}
    WithTimeout = {e1}
    SaveProgress = FALSE
    Stops = {s1}
    MaxRestarts = 0
    MaxFailures = 1
INVARIANTS
    TypeOK
    
    
    
CHECK_DEADLOCK FALSE
