SPECIFICATION Spec
CONSTANTS
    m1 = m1 m2 = m2 e1 = e1
    Mains = {m1, m2}
    Executions = {e1}
    None = None
    MaxCommands = 2
    MaxExpiries = 1
CHECK_DEADLOCK FALSE
INVARIANTS
    KeyHolderLeads
