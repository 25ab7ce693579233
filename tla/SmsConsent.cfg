SPECIFICATION FairSpec
CONSTANTS
    Event = {e1}
    Request = {r1, r2}
    NULL = NULL
INVARIANTS
    TypeOK
    StopIsObeyed
    OneLiveClaimant
PROPERTIES
    ImplementsClaim
    NeverStuck
