\* Two executions, queue recovery and one fault; a job that stalls fails.
SPECIFICATION TimedSpec
CONSTANTS
    e1 = e1 e2 = e2 m1 = m1 m2 = m2 w1 = w1 w2 = w2
    Executions = {e1, e2}
    Mains = {m1}
    Workers = {w1}
    MainOf <- MCFirst
    FirstLeader = m1
    None = None
    MaxStalledCount = 0
    WithResponse = {e1}
    WithIssues = {e1}
    SaveProgress = FALSE
    Stops = {}
    MaxChains = 2
    MaxFaults = 1
INVARIANTS
    TypeOK
    ChainsAccounted
PROPERTIES
    QueuedIsNotMarked
    
CHECK_DEADLOCK FALSE
