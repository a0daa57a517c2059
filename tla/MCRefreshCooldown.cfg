\* Two callers share a printer, a third has its own; a window of two ticks
\* fits twice into the clock's range.
CONSTANTS
    c1 = c1
    c2 = c2
    c3 = c3
    s1 = s1
    s2 = s2
    Callers <- MCCallers
    Serials <- MCSerials
    SerialOf <- MCSerialOf
    Cooldown = 2
    MaxTime = 5
    MaxClients = 1
SPECIFICATION Spec
INVARIANTS
    TypeOK
    GrantsSpaced
    WindowsSpentOnce
    DeniedOnlyInsideAWindow
    SpacingUpToDelay
SYMMETRY MCSymmetry
CHECK_DEADLOCK FALSE
