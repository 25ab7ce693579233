SPECIFICATION FairSpec
CONSTANTS
    Job = {j1}
    Recurring = {j1}
    Worker = {w1, w2}
    Run = {r1, r2, r3}
    Concurrency = 1
    MaxAttempts = 1
    NULL = NULL
PROPERTIES
    WorkContinues
