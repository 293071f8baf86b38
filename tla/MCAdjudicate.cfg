SPECIFICATION AdjudicateSpec
CONSTANTS
    Questions = {"plain", "bare", "foreign", "big", "hidden", "empty"}
    Adjudicable = {"plain", "bare", "foreign", "big", "hidden"}
    HasPrimary = {"plain", "foreign", "big", "hidden"}
    OutOfScope = {"foreign"}
    Excluded = {"hidden"}
    None = None
    Torn = Torn
    Estimate <- MCEstimate
    Headroom <- MCHeadroom
    Price <- MCPrice
    TriageReplies <- MCTriageReplies
    Proposals <- MCProposals
    Usages = {0, 3}
    RequestQuotas = {5, 7}
    TokenQuotas = {14}
    CostCeilings = {}
    PerRun = 3
    PerCandidate = 5
    TriageEnabled = TRUE
    AllowEscalation = TRUE
    MaxAttempts = 2
    MaxTransport = 2
    MaxRequests = 2
    CacheEnabled = TRUE
INVARIANTS
    RequestQuotaKept
    LedgerBalances
    AnswersGrounded
    EscalationIsSafe
    CostIsKnown
PROPERTIES
    FinalMeansFinal
    StoppedRunStaysStopped
    EveryCandidateEnds
CHECK_DEADLOCK FALSE
