SPECIFICATION Spec
CONSTANTS
    CapabilityIds = {1, 2, 3}
    Revisions = {a}
    MaxEntries = 3
    MaxCatalogSteps = 2
    Endpoints <- MCEndpoints
    MaxFacts = 2
    PlannedProfiles <- MCPlannedProfiles
    TopoNodes = {1, 2, 3}
    MaxUpdates = 2
    MaxDepth = 2
    MaxNodes = 3
    TreeNodes = 4
    MaxTime = 4
    MaxSkew = 1
    MaxAge = 1
    RestoreIds = {a, b, c}
    MaxDrills = 2
    MaxPathParts = 3
    MaxWpSteps = 4
    FallbackClients = {f1, f2}
    FallbackObjects = {1, 2, 3, 4, 6}
    FallbackTotal = 3
    KeyProbers = {k1, k2}
    MaxProbes = 4
    MaxRewrites = 1
    MaxFrames = 2
    GitHeads = {h1, h2}
    MaxSoloSteps = 7
    MaxFileEdits = 2
    MaxObjects = 2
    PacketMax = 4
    MaxTraffic = 5
    MaxDigits = 4
    MaxExponent = 3
    Years = {0, 1900, 2000, 2023, 2024}
    MaxParts = 4
    MaxStoreEvents = 9
    Gib = 2
    MaxFormulaNodes = 8
    LeanCheckers = {l1, l2}
    MaxLakeSteps = 8
    SigDigits = 3
    ContextDigits = 2
    MaxCoefficient = 1100
    LawPoints = 4
    LawValues = {0, 1, 3}
    MatrixBound = 1
    PivotScale = 1
    MaxDelta = 2
    OdeTolerance = 1
    MaxDraws = 2
    EssFloor = 2
    MaxWall = 1
    MaxCloud = 2
    ClassTimes = {0, 4, 7, 96, 104, 118}
    PersistenceDigits = 2
    MaxVariables = 2
    MaxConstraints = 5
    AlphaUnit = 4
    ConformanceFloor = 4
    MaxBuilds = 2
    MaxFileChanges = 1
    Curators = {c1}
    Files = {f1, f2}
    MaxDrifts = 2
    MaxMembers = 2
    DepIds = {1, 2, 3}
INVARIANTS
    CatalogSpeaksTrue
    KnowledgeTraceable
    PlansSound
    MeaningKept
    HealthWitnessed
    AgentWithinGrant
    StorageProven
    ReleaseEvidenced
    AnswersCurrent
    CrossingsSafe
    EncodingFaithful
    StoreAnswersHonestly
    ProductsEarned
    
    SurfacesHonest
    PacksVetted
CHECK_DEADLOCK FALSE
