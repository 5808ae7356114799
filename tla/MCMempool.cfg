SPECIFICATION WorldsSpec
CONSTANTS
    a = a
    b = b
    x = x
    Senders <- MCSenders
    Nonces <- MCNonces
    Fees <- MCFees
    Bodies <- MCBodies
    MaxSize = 3
    FeeLimit = 2
    RateLimit = 2
    TimeFrame = 1
    Expiration = 2
    MaxTime = 3
SYMMETRY Symmetry
INVARIANTS
    QueuesAgree
    OnePerNonce
    InsertionInRange
    WithinLimits
PROPERTIES ReplacementPaysMore ImplementsMempool
