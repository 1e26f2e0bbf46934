\* Two windows; a status that binds the progress and one that does not.
SPECIFICATION Spec
CONSTANTS
    Windows = {w1, w2}
    Types = {t1}
    Texts = {x1, x2}
    Statuses = {"Find", "Complete"}
    Progresses = {0, 100}
    MaxClock = 3
SYMMETRY EditSymmetry
INVARIANTS StampIdentifies FitsCheck
PROPERTY StaleFormRefused
CHECK_DEADLOCK FALSE
