SPECIFICATION FairSpec
CONSTANTS
    DEPTH = 4
    CounterMod = 8
    MaxPackets = 17
    SendsInTime = TRUE
CHECK_DEADLOCK FALSE
INVARIANTS
    RingTypeOK
    OwnerBitTruthful
    CompletionReadInTime
    ReturnedIntact
PROPERTIES
    Reflects
