SPECIFICATION QuietSpec
CONSTANTS
    Job = {j1}
    Recurring = {j1}
    Worker = {w1}
    Run = {r1, r2}
    Concurrency = 1
    MaxAttempts = 3
    NULL = NULL
PROPERTIES
    FirstFailureIsRetried
