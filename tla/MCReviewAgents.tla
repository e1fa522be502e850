--------------------------- MODULE MCReviewAgents ---------------------------
EXTENDS ReviewAgents, TLC

CONSTANTS a1, a2
TwoAgents == {a1, a2}
============================================================================
