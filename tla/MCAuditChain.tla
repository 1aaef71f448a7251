--------------------------- MODULE MCAuditChain ---------------------------
\* Two captures at once against the daemon's own records.
EXTENDS AuditChain

CONSTANTS capture1, capture2

TheCaptures == {capture1, capture2}
TwoAlike    == Permutations(TheCaptures)
=============================================================================
