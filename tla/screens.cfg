\* Any production of up to two items; a third may be created, and two writes be made.
SPECIFICATION Spec
CONSTANTS
    a1 = a1
    a2 = a2
    dress = dress
    brooch = brooch
    Actors <- MCActors
    Types <- MCTypes
    Accessories <- MCAccessories
    Workflow <- MCWorkflow
    DefaultLimit = 1
    MaxLimit = 2
    Forms <- MCForms
    FirstItems = 2
    MaxItems = 3
    MaxWrites = 2
CHECK_DEADLOCK FALSE
SYMMETRY Symmetry
INVARIANT TypeOK
INVARIANT RollupsAgree
INVARIANT CountsMatchLists
INVARIANT WalkMissesOnlyShifted
