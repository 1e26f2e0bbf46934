SPECIFICATION FairSpec
CONSTANTS
    Previews = {p1, p2}
    Requests = {r1, r2}
    ActorNames = {ada}
    TypeNames = {cloak}
    Productions = {macbeth, hamlet}
    TTL = 1
    Life = 0
    Edits = {"createActor", "archiveActor", "addType", "archiveType", "renameProduction", "archiveProduction"}
    LostAnswers = FALSE
    MaxClock = 0
    MaxEdits = 1
    MaxStops = 1
PROPERTIES IntoPreviewedProduction NoSecondActor ImportsLetGo
CHECK_DEADLOCK FALSE
