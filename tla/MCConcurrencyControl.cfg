\* Four production requests of three executions, an evaluation and a
\* manual one, limits 2 and 1.
SPECIFICATION FairSpec
CONSTANTS
    r1 = r1 r2 = r2 r3 = r3 r4 = r4 r5 = r5 r6 = r6
    e1 = e1 e2 = e2 e3 = e3 e4 = e4 e5 = e5
    Requests = {r1, r2, r3, r4, r5, r6}
    Executions = {e1, e2, e3, e4, e5}
    ExecutionOf <- MCExecutionOf
    Mode <- MCMode
    Limit <- MCLimitTwo
    MaxRemovals = 2
INVARIANTS
    TypeOK
    QueueHoldsThrottled
    CapacityAccounting
    NoIdleCapacity
    OverrunBoundedByRemovals
PROPERTIES
    FirstComeFirstServed
    ThrottledIsReleased
CHECK_DEADLOCK FALSE
