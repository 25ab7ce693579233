SPECIFICATION Spec
CONSTANTS
    Delivery = {d1}
    Worker = {w1}
    Message = {m1, m2}
    MaxAttempts = 3
    NULL = NULL
INVARIANTS
    SmsSentOnce
