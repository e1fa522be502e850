SPECIFICATION Spec
CONSTANTS
    Nobody = Nobody
    Requests = {r1, r2}
    Bulk = {b1}
    Issues = {i1, i2}
    Patchers = {c1}
    MaxAllowance = 0
INVARIANTS
    TypeOK
    VerdictMatchesReview
SYMMETRY Symmetry
