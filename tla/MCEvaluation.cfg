SPECIFICATION Spec
CONSTANTS
    None = None
    NoRecord = NoRecord
    NotRun = NotRun
    Suites <- MCSuites
    Families <- MCFamilies
    FamilyOf <- MCFamilyOf
    OutOfBounds = "bounds"
    Equivalent <- MCEquivalent
    Tolerance = 1
    KnownTools = {"clang"}
    Percent = 60
    MinPerBin = 1
    Floors = {500}
    Reports <- MCReports
    PairList <- MCPairList
    HeldOutSet = TRUE
    MaxRuns = 3
    MaxMishaps = 2
    GridCases <- MCGridCases
    GridOrder <- MCGridOrder
    Units <- MCUnits
    Reach <- MCReach
    BaseBudget = 6
    Requests <- MCRequests
    MaxHitches = 2
    CaseList <- MCCaseList
    CandidatesAt <- MCCandidatesAt
    OutOfScope = {"z"}
    Wishes <- MCWishes
    SchemaAttempts = 2
    MaxSlips = 2
    Groups = {{"k1", "k2"}, {"k3"}}
    FindsIn <- MCFindsIn
    Repetitions = 3
    MaxFaults = 3
    PathOrder <- MCPathOrder
    PublicFiles = {"n", "r"}
    RunFiles = {"r"}
    Selections <- MCSelections
    NoArchive = NoArchive
    Garbled = Garbled
    MaxBuilds = 2
    MaxDamage = 2
    AnalyzerProducers = {"clang_tidy", "csa", "clang"}
    Unmapped = Unmapped
    NoScore = NoScore
    FindingLists <- MCFindingLists
    LabelSets <- MCLabelSets
    LabelledCases = {"m1"}
    Judgements <- MCJudgements
    Cut = 2
    Discounts <- MCDiscounts
    Contents <- MCContents
    Asked <- MCAsked
    MaxFileBytes = 3
    MaxEdits = 2
    Nothing = Nothing
INVARIANTS
    ScoreIsEarned
    ComparedLikeForLike
    PairsAreMeasured
    VerdictIsMeasured
    RowsAreComparable
    PilotIsOfItsRuns
    BundleIsReproducible
    RankingIsEarned
PROPERTIES
    NotAskedTwice
    ReadsAreCurrent
CHECK_DEADLOCK FALSE
