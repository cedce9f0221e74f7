\* One execution that waits.
SPECIFICATION Spec
CONSTANTS
    e1 = e1 e2 = e2
    Executions = {e1}
    MaxCalls <- MCThree
    None = None
    Limit = 1
    WithWait = {e1}
    WithResponse = {}
    WithTimeout = {}
    SaveProgress = FALSE
    Stops = {}
    MaxRestarts = 0
    MaxFailures = 0
PROPERTIES
    NotStartedAfterSuccess
CHECK_DEADLOCK FALSE
