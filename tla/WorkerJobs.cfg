SPECIFICATION Spec
CONSTANTS
    Job = {j1}
    Recurring = {j1}
    Worker = {w1, w2}
    Run = {r1, r2, r3}
    Concurrency = 2
    MaxAttempts = 2
    NULL = NULL
SYMMETRY TokensAndWorkers
INVARIANTS
    TypeOK
    TokenNamesOneClaim
PROPERTIES
    OutcomeByHolder
    OrphanOnlyTakenOver
    RunOutcomeFinal
    LeftBehindOnlyWhenLate
    DeadLetterIsFinal
    ImplementsLease
