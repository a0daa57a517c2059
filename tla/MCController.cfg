CONSTANTS
    None = None
    NoStatus = NoStatus
    PreferredModel = PreferredModel
    c1 = c1
    c2 = c2
    c3 = c3
    t1 = t1
    t2 = t2
    m1 = m1
    m2 = m2
    m3 = m3
    Calls <- MCCalls
    Tasks <- MCTasks
    Models <- MCModels
    Registry <- MCRegistry
    Situations <- MCSituations
    Catalogs <- MCCatalogs
    Accounts <- MCAccounts
    Rates <- MCRates
    PageLimit = 2
    MaxNoise = 1
    MaxEdits = 2
    MaxLive = 2
SPECIFICATION Spec
INVARIANTS
    TypeOK
    OneProducer
    LockIsOwned
    ReviewIsIndependent
    ResumeIsExact
    PrimaryIsProven
PROPERTIES
    EveryReadSettles
CHECK_DEADLOCK FALSE
