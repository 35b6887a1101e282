SPECIFICATION Spec
CONSTANTS
    DEPTH = 4
    CounterMod = 8
    MaxPackets = 10
    SendsInTime = FALSE
CHECK_DEADLOCK FALSE
INVARIANTS
    ReturnedIntact
