SPECIFICATION Spec
CONSTANTS
    Call = {c1, c2, c3}
    MaxConcurrency = 2
    MaxRetries = 0
    FailureThreshold = 1
INVARIANT OneProbe
