\* Two default names and one more.
SPECIFICATION Spec
CONSTANTS
    Requests = {r1, r2, r3}
    Names = {1, 2, 3}
    Defaults = {1, 2}
    MaxTypes = 4
    MaxEdits = 4
    MaxFaults = 1
SYMMETRY RequestSymmetry
INVARIANTS NamesUniqueWhenAlone SeededWhenAnswered
CHECK_DEADLOCK FALSE
