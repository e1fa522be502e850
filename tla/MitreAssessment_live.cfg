SPECIFICATION FairSpec
CONSTANTS
    f1 = f1
    f2 = f2
    good = good
    bad = bad
    Nobody = Nobody
    FileRows = {f2}
    DocRows = {d1}
    Layouts = {good}
    Parsed <- MCParsedUntagged
    KeywordHits = {}
    Pipelines = {p1, p2}
    Clients = {c1}
    Patchers = {c1}
    Techniques = {t1}
    PipelineCap = 1
PROPERTIES
    RunSettles
    QueuedRunsDrain
CHECK_DEADLOCK FALSE
