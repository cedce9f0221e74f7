SPECIFICATION Spec
CONSTANTS
    Mains = {m1}
    e1 = e1
    e2 = e2
    e3 = e3
    w1 = w1
    w2 = w2
    Events <- MCEvents
    Workflows <- MCWorkflows
    WorkflowOf <- MCWorkflowOf
    Deletable <- MCDeletable
    Compactions = {c1}
    None = None
    FlushBatchSize = 2
    CompactionBatchSize = 2
    MaxFaults = 1
    MaxTerms = 1
INVARIANTS CollectedOnce SyncSavesAreAwaited CountedOnce
PROPERTIES CollectedIsSaved
\* Both mains may exit.
CHECK_DEADLOCK FALSE
