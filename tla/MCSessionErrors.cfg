\* Does every connection failure reach the caller as a PrinterError?
CONSTANTS
    r1 = r1
    r2 = r2
    Readings <- MCReadings
    Unknown = Unknown
    Absent = Absent
    Invalid = Invalid
    Huge = Huge
    Deltas <- MCDeltas
    MaxReports = 3
SPECIFICATION Spec
INVARIANT ConnectionErrorsMapped
