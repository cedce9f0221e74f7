\* One execution, a stop, stalled jobs, two workers and one fault.
SPECIFICATION EndingSpec
CONSTANTS
    e1 = e1 e2 = e2 m1 = m1 m2 = m2 w1 = w1 w2 = w2
    Executions = {e1}
    Mains = {m1, m2}
    Workers = {w1, w2}
    MainOf <- MCFirst
    FirstLeader = m2
    None = None
    MaxStalledCount = 1
    WithResponse = {e1}
    WithIssues = {}
    SaveProgress = TRUE
    Stops = {s1}
    MaxChains = 2
    MaxFaults = 1
INVARIANTS
    
    RunIsCounted

    
CHECK_DEADLOCK FALSE
