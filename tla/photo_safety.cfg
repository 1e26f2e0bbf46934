SPECIFICATION Spec
CONSTANTS
    Workers = {w1, w2}
    Photos = {1, 2}
    QueueCap = 1
    Corrupt = {}
    FaultKinds = {"disk", "db", "commit"}
    MaxFaults = 2
    MaxStops = 1
INVARIANTS OneOwner NoStrandedPhoto AcknowledgedKept
PROPERTIES ReadyWhenComplete ImplementsLifecycle
SYMMETRY WorkerSymmetry
CHECK_DEADLOCK FALSE
