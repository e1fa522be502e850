SPECIFICATION Spec
CONSTANTS
    Nobody = Nobody
    Requests = {r1, r2}
    Bulk = {}
    Issues = {i1, i2}
    Patchers = {c1}
    MaxAllowance = 0
PROPERTY
    VerificationWins
