\* Two callers of one printer: are the publishes themselves a cooldown apart?
CONSTANTS
    c1 = c1
    c2 = c2
    c3 = c3
    s1 = s1
    s2 = s2
    Callers <- MCPairCallers
    Serials <- MCSerials
    SerialOf <- MCPairSerialOf
    Cooldown = 2
    MaxTime = 4
    MaxClients = 1
SPECIFICATION Spec
INVARIANT PublishesSpaced
CHECK_DEADLOCK FALSE
