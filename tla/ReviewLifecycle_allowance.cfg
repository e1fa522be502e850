SPECIFICATION FairSpec
CONSTANTS
    Nobody = Nobody
    Requests = {r1, r2, r3}
    Bulk = {}
    Issues = {i1}
    Patchers = {}
    MaxAllowance = 2
INVARIANTS
    AllowanceConserved
PROPERTIES
    GateAnswers
