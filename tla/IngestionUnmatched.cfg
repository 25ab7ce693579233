SPECIFICATION WorkerSpec
CONSTANTS
    Job = {j1}
    Run = {r1, r2}
    NULL = NULL
    l1 = l1
    l2 = l2
    Listing = {l1, l2}
    Pages = 2
    Content <- MCContent
INVARIANTS
    PersistedIsMatched
