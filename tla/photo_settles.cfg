SPECIFICATION FairSpec
CONSTANTS
    Workers = {w1}
    Photos = {1, 2}
    QueueCap = 1
    Corrupt = {2}
    FaultKinds = {"db"}
    MaxFaults = 1
    MaxStops = 1
INVARIANTS ReadyHasDerivatives OnlyCorruptFails
PROPERTIES CloseReturns KeepsLifecyclePromise
CHECK_DEADLOCK FALSE
