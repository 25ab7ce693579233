SPECIFICATION FairSpec
CONSTANTS
    Call = {c1, c2, c3}
    MaxConcurrency = 2
    MaxRetries = 1
    FailureThreshold = 2
INVARIANTS TypeOK SlotsExact TestingHasTester
PROPERTIES FetchesApart ServedInOrder RequestsEnd CircuitCloses
