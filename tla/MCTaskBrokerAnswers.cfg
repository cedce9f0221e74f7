SPECIFICATION FairSpec
CONSTANTS
    r1 = r1 r2 = r2 l1 = l1 q1 = q1 q2 = q2
    Runners = {r1, l1}
    Launchers = {l1}
    Requests = {q1, q2}
    Offers = {1}
    Attempts = {1, 2}
    None = None
    MaxConcurrency = 1
    MaxDisconnects = 1
INVARIANTS
    TypeOK
    RequestIsTracked
PROPERTIES
    RequestIsAnswered
