SPECIFICATION Spec
CONSTANTS
    Previews = {p1}
    Requests = {r1, r2, r3}
    ActorNames = {ada, bea}
    TypeNames = {cloak}
    Productions = {macbeth}
    TTL = 4
    Life = 2
    Edits = {"renameActor"}
    LostAnswers = FALSE
    MaxClock = 8
    MaxEdits = 1
    MaxStops = 1
INVARIANT ImportedOnce
PROPERTY KeptForRetry
SYMMETRY RequestSymmetry
