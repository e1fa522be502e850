SPECIFICATION Spec
CONSTANTS
    b1 = b1
    b2 = b2
    s1 = s1
    s2 = s2
    c1 = c1
    c2 = c2
    e1 = e1
    e2 = e2
    e3 = e3
    Browsers <- TwoBrowsers
    Savers <- TwoSavers
    MaxCommits = 3
    Ttl = 2
    InsightCalls <- TwoCalls
    Threshold = 2
    ResetTime = 2
    Emails <- ThreeEmails
    Attempts <- TwoCalls
    MaxFailures = 2
    LockTime = 1
    Capacity = 2
    Reports = 4
    Reviewers <- TwoCalls
    Techniques <- Register5
    Domain <- Domains
    ParentOf <- Parents
    Successor <- Successors
    Deprecated <- GoneOnes
    PlatformsOf <- RunsOn
    Platforms = {"windows", "linux"}
    RuleRows = {1, 2}
    Categories = {"endpoint", "identity"}
    HostGaps = {"host"}
    Wants <- GapWants
    MaxSources = 3
    Entries = 4
    Severities = {1, 2}
    MaxFindings = 2
    MaxSteps = 2
    SiemRules = {1, 2, 3, 4}
    PageSize = 2
    MaxPages = 2
    MaxRules = 4
    MaxAttempts = 2
    MaxEdits = 2
INVARIANTS
    StaleForAReason
    LockoutHolds
    GroupsAreConnected
    ChainsFollowFindings
    PullsMissForAReason
PROPERTIES
    StalenessDiesOut
    OpenBreakerLetsGo
    MoreIsNeverWorse
    BetterTelemetryNeverHurts
CHECK_DEADLOCK FALSE
