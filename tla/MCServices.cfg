SPECIFICATION ServicesSpec
CONSTANTS
    Uploads = {m1}
    Texts <- MaterialTexts
    Drafts <- EmailDrafts
    Messages <- DraftMessages
    Shortened = {0, 60, 120}
    RowScores = {0, 100}
    Runs = {r1, r2}
    ChunkSize = 20
    Overlap = 5
    MinChunk = 4
    Reprocesses = 2
    MaterialFaults = 1
    Iterators = {t1}
    MaxRows = 3
    PageLimit = 1
    People = {a1, b1}
    Tabs = {t1, t2}
    Roles = {"admin", "member"}
    MaxInvites = 1
    Sites = {"a", "b"}
    Pages = {p1, p2}
    Enrichers = {e1}
    MaxCents = 1
    Keys = {k1, k2}
    Requests = 2
    Window = 3
    MaxKeys = 1
    Instances = {i1, i2}
    Migrations = 2
    OldUsers = {u1, u2}
    OldCents = 100
    MaxDeaths = 2
    Deliveries = {d1}
    Attempts = 5
    BackoffBase = 5
    LongestSleep = 125
    Secrets = {"a", "b"}
    ReportFaults = 1
    Accounts = 2
    Thresholds <- RuleThresholds
    Retired = {2}
    Scores = {0, 60}
    BatchPermits = 1
    AccountChunk = 1
    BatchFaults = 1
    Members = {u1, u2}
    Orgs = {o1}
    Companies = {c1}
    Visits = {v1, v2}
    SlugAttempts = 2
    DocLimit = 2
    Halves = 4
    PageFaults = 1
    Collectors = {j1, j2}
    Domains = {c1, c2}
    Listed = {c1}
    Categories = {"x"}
    Probes = {1}
    SharedPermits = 1
    Slowness = 1
    Bundles <- Analyzed
    Sellers <- Sold
    Tierings = {TRUE, FALSE}
    Answers <- ModelAnswers
    Validation = TRUE
    TightWriting = TRUE
    Technologies <- Table
    Archetypes <- Combinations
    Subdomains = {"app", "api"}
    Paths = {"login"}
    Responses <- Headers
    SitePages <- SellerPages
    Home <- Landing
    Maps <- SiteMaps
    Sitemaps <- SitemapPages
    Payloads <- Lists
SYMMETRY CollectorSymmetry
CHECK_DEADLOCK FALSE
INVARIANTS
    ServicesTypeOK
    NothingGrantedTwice
    KeptIsCurrent
    RecordsMatchEffects
    LimitsHold
    DocumentsStandOnFacts
    OutreachFits
    MaterialsAreWhole
    SteadyYieldedOnce
