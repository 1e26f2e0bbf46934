SPECIFICATION FairSpec
CONSTANTS
    Processes = {p1, p2}
    Releases = {1, 2, 3}
    Current = 2
    Loaders = {l1}
    MaxFaults = 1
    MaxStops = 1
INVARIANT ServingMigrated
PROPERTIES RecordedWithTables StartsTogether LoadedAlone LockReleased
CHECK_DEADLOCK FALSE
