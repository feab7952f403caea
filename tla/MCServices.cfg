SPECIFICATION ServicesSpec
CONSTANTS
    w1 = w1
    w2 = w2
    s1 = s1
    s2 = s2
    u = u
    k = k
    v1 = v1
    v2 = v2
    Pools = {"thin", "deep"}
    Ticks <- MCTicks
    PriceOf <- MCPrices
    Scale = 10
    MinTwap = 2
    Tolerances = {1000}
    Windows = {1, 2, 3}
    Amounts = {0, 1, 2}
    MaxTime = 5
    Workers = {w1, w2}
    Threshold = 2
    SenderRetries = 3
    ReportScenarios <- MCReports
    Priorities = {1, 2, 3}
    Streams = {s1, s2}
    FailureThreshold = 2
    Cooldown = 2
    StreakCap = 5
    MaxTick = 2
    EndpointScenarios <- MCEndpoints
    Ids = {1, 2, 3, 4}
    LastTime = 2
    PageSize = 1
    CatalogueScenarios <- MCCatalogue
    Types <- MCTypes
    Unknown = u
    Values = {0, 1, 2}
    Accepts <- MCAccepts
    ValidationScenarios <- MCValidation
    Contracts = {1, 2}
    MaxCalls = 3
    ConsoleScenarios <- MCConsole
    Keys = {k}
    Volumes = {v1, v2}
    DevScenarios <- MCDev
CHECK_DEADLOCK FALSE
INVARIANTS
    PricesAreMeans
    RowIsTrue
    OutageIsShort
    WalkIsWhole
    VerdictIsRight
    CallsComeOutRight
    ExitIsTrue
PROPERTIES
    OwnerKept
    NothingStaysStuck
    OnlyTheAskedIsLost
