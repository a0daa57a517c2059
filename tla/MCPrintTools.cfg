CONSTANTS
    None = None
    c1 = c1
    c2 = c2
    Calls <- MCCalls
    Names <- MCNames
    MaxDepth = 2
    DefaultPrinter = "A1 0.4"
    DefaultNozzle = 6
    DefaultPlate = None
    Variants <- MCVariants
    Brand <- MCBrand
    NameMaterial <- MCNameMaterial
    OverhangThreshold = 50
    ThinWallRatio = 20
    Workloads <- MCWorkloads
    Stores <- MCStores
    Edits <- MCEdits
    MaxEdits = 1
    MaxClock = 1
    LLMSets <- MCLLMSets
    Statistics <- MCStatistics
    AllowFallback = TRUE
SPECIFICATION Spec
INVARIANTS
    TypeOK
    RealizedIsProven
    RulesByPrecedence
    RulesSurviveLLM
    StatsOfDigest
    JobsApart
PROPERTIES
    AuthorityIsDecisive
    NoEndlessInheritance
CHECK_DEADLOCK FALSE
