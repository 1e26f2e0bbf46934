\* Three requests; one more item than requests.
SPECIFICATION FairSpec
CONSTANTS
    Requests = {r1, r2, r3}
    Nobody = nobody
    MaxOld = 2
    MaxAsked = 4
    MaxFaults = 2
INVARIANTS ListedInCodeOrder DeadlockOnlyOnFirst
PROPERTIES ImplementsCodeBook RequestsEnd
CHECK_DEADLOCK FALSE
