SPECIFICATION Spec
CONSTANTS
    f1 = f1
    f2 = f2
    good = good
    bad = bad
    Nobody = Nobody
    FileRows = {f1, f2}
    DocRows = {}
    Layouts = {good, bad}
    Parsed <- MCParsed
    KeywordHits = {f1}
    Pipelines = {p1, p2}
    Clients = {c1, c2}
    Patchers = {}
    Techniques = {t1}
    PipelineCap = 2
INVARIANTS
    ResultsMatchRules
    AttestedOnce
PROPERTIES
    RunFreezesRows
    CustomerTruthWins
    ReportKeepsThePromise
SYMMETRY Symmetry
CHECK_DEADLOCK FALSE
