\* A process with two requests, from start to exit.
SPECIFICATION FairLifeSpec
CONSTANTS
    Requests = {r1, r2}
    Workers = {w1, w2}
CHECK_DEADLOCK FALSE
INVARIANTS NothingCutByCleanReturn ServeFailureReported DatabaseClosedLast
PROPERTIES ProcessEnds
