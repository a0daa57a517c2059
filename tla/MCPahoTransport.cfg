\* A queue of two, five reports, two connect() calls and one lost connection:
\* the queue overflows, drains and is reused after a reconnect.
CONSTANTS
    Capacity = 2
    MaxReports = 5
    MaxConnects = 2
    MaxLosses = 1
SPECIFICATION FairSpec
INVARIANTS
    TypeOK
    FetchesInOrder
    ReportsAccounted
    ConnectedByOwnConnack
    QuietWhenClosed
    MarkedIsSubscribed
PROPERTIES
    ImplementsChannel
    CallsReturn
CHECK_DEADLOCK FALSE
