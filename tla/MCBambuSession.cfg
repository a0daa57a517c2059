\* Nine deltas, three different reports on a connection, any number of calls,
\* connections and repeated reports.
CONSTANTS
    r1 = r1
    r2 = r2
    Readings <- MCReadings
    Unknown = Unknown
    Absent = Absent
    Invalid = Invalid
    Huge = Huge
    Deltas <- MCDeltas
    MaxReports = 3
SPECIFICATION FairSpec
INVARIANTS
    TypeOK
    SnapshotIsLastKnown
    StatusIsFresh
    NoClientLeaks
PROPERTY CallsEnd
