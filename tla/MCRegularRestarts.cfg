\* A crash or a shutdown, with two executions and one slot.
SPECIFICATION FairSpec
CONSTANTS
    e1 = e1 e2 = e2
    Executions = {e1, e2}
    MaxCalls <- MCTwoAndOne
    None = None
    Limit = 1
    WithWait = {e1}
    WithResponse = {}
    WithTimeout = {}
    SaveProgress = TRUE
    Stops = {}
    MaxRestarts = 1
    MaxFailures = 0
INVARIANTS
    NewRowIsPursued
PROPERTIES
    AcceptedIsRun
CHECK_DEADLOCK FALSE
