\* Does the subscription marker agree with the broker after paho reconnects?
CONSTANTS
    Capacity = 1
    MaxReports = 1
    MaxConnects = 1
    MaxLosses = 1
SPECIFICATION Spec
INVARIANT MarkerMatchesBroker
CHECK_DEADLOCK FALSE
