CONSTANTS
    Versions = {v1, v2}
    MaxEdits = 2
    MaxTampers = 1
SPECIFICATION FairSpec
INVARIANTS
    TypeOK
    SlicedFromIdentity
    SlicedWithRealizedConfigs
    WorkspaceOwned
    SlicerStopsFirst
PROPERTIES
    ImplementsContract
    RequestsEnd
CHECK_DEADLOCK FALSE
