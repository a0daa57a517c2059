\* Does disconnect() close the MQTT connection that a failed connect() opened?
CONSTANTS
    Capacity = 1
    MaxReports = 1
    MaxConnects = 1
    MaxLosses = 1
SPECIFICATION Spec
INVARIANT ClosedByDisconnect
CHECK_DEADLOCK FALSE
