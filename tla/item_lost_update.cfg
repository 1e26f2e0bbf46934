SPECIFICATION Spec
CONSTANTS
    Windows = {w1, w2}
    Types = {t1}
    Texts = {x1}
    Statuses = {"Find", "Complete"}
    Progresses = {0, 100}
    MaxClock = 3
PROPERTY NoLostUpdate
CHECK_DEADLOCK FALSE
