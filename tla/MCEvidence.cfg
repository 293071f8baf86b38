SPECIFICATION EvidenceSpec
CONSTANTS
    Units = 2
    da = da
    db = db
    h1 = h1
    h2 = h2
    v1 = v1
    v2 = v2
    Headers = {h1, h2}
    Dirs = {da, db}
    Search <- TwoSearches
    Versions = {v1, v2, bad}
    Broken = {bad}
    Oversized = {h2}
    EditsDuringScan = FALSE
    MaxEdits = 2
    MaxAborts = 1
    Absent = Absent
    Unread = Unread
    Damaged = Damaged
    NoEntry = NoEntry
    h = h
    a = a
    b = b
    c = c
    d = d
    x = x
    t1 = t1
    t2 = t2
    t3 = t3
    m1 = m1
    m2 = m2
    g1 = g1
    site = site
    around = around
    message = message
    main = main
    inc = inc
    src = src
    priv = priv
    Message = message
    Nested = {main, inc, src}
    FileOf <- TheFileOf
    Contents <- TheContents
    Exclusions <- TheExclusions
    None = None
    Unknown = Unknown
    Fns = {h, a, b, c, d, x}
    Outside = {x}
    BodyLess = {d}
    TypeNames = {t1, t2, t3}
    MacroNames = {m1, m2}
    GlobalNames = {g1}
    Unseen = {t3}
    Releasing = {b, x, Unknown}
    Labelled = {h}
    Situations <- TheSituations
    Losses = {h, b, m1, site}
    CallerDepth = 3
    CalleeDepth = 2
    TypeDepth = 2
    Tokens <- TheTokens
    Place <- ThePlace
    Budget = 4
    MaxUnits = 3
    NoAnswer = NoAnswer
    body = body
    caller = caller
    text = text
    step = step
    ghost = ghost
    Plan <- ThePlan
    Steps = {step}
    ReportedAt = text
    Invented = ghost
    Role <- TheRole
    Misplaced = {message}
    Barred = {}
    Telling = {body, step}
    KnownFunctions <- TheKnown
    Calls <- TheCalls
    UnitTools = {"csa"}
    Ran = {"csa"}
    InScope = TRUE
    Edited = {"other", "gone"}
    Refusals <- TheRefusals
    Proposals <- TheProposals
    MaxRewrites = 2
SYMMETRY SymVersions
INVARIANTS
    CacheIsSafe
    UnchangedReused
    ContextSaysWhatItLacks
    PageIsChosenWell
    PromptIsTruthful
    ConfirmedIsGrounded
    ConfirmedStillThere
    InventionNamedFirst
    ConfirmedOnTheEvidence
CHECK_DEADLOCK FALSE
