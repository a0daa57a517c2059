CONSTANTS
    Versions = {v1}
    MaxEdits = 0
    MaxTampers = 1
SPECIFICATION Spec
INVARIANT FactsOfArtifact
CHECK_DEADLOCK FALSE
