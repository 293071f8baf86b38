SPECIFICATION Spec
CONSTANTS
    Cases = 3
    Order <- MCSuite
    Unindexed = {1}
    Primary <- MCPrimary
    Optional <- MCOptional
    MaxUnits = 3
    Promotable = {"a", "c"}
    Volatile = {}
    VerificationEnabled = TRUE
    MaxCrashes = 2
    Questions <- MCQuestions
    Adjudicable <- MCAdjudicable
    HasPrimary <- MCAdjudicable
    OutOfScope = {}
    Excluded <- MCExcluded
    None = None
    Torn = Torn
    Estimate <- MCEstimate
    Headroom <- MCHeadroom
    Price <- MCPrice
    TriageReplies <- MCTriageReplies
    Proposals <- MCProposals
    Usages = {2}
    RequestQuotas = {3}
    TokenQuotas = {}
    CostCeilings = {}
    PerRun = 6
    PerCandidate = 4
    TriageEnabled = FALSE
    AllowEscalation = FALSE
    MaxAttempts = 1
    MaxTransport = 1
    MaxRequests = 0
    CacheEnabled = TRUE
INVARIANTS
    NothingRaises
