SPECIFICATION FairSpec
CONSTANTS
    Delivery = {d1}
    Worker = {w1, w2}
    Message = {m1, m2, m3}
    MaxAttempts = 3
    NULL = NULL
INVARIANTS
    TypeOK
    DeliveredWasAccepted
    SendsAreAttempts
PROPERTIES
    OutOfQueueStays
    OptOutWins
    DeliverySettles
