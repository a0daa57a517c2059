CONSTANTS
    Versions = {v1}
    MaxEdits = 0
    MaxTampers = 0
SPECIFICATION FairSpec
PROPERTY HardTimeout
CHECK_DEADLOCK FALSE
