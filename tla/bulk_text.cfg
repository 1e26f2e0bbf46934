\* Texts of up to six lines over two names.
SPECIFICATION Spec
CONSTANTS
    Names = {cape, boots}
    Blank = blank
    Invalid = invalid
    MaxLines = 6
CHECK_DEADLOCK FALSE
SYMMETRY NameSymmetry
INVARIANTS FirstFaultReported BlocksAreRuns ItemsFollowText PreviewForetells
