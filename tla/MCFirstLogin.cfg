CONSTANTS
    Requests = {l1, l2, l3}
    Pairs = {ann, bob}
    None = None
SPECIFICATION LoginSpec
INVARIANTS
    OneTenantPerPair
    TenantsAreSound
PROPERTY AuthoredIsNeverSeeded
SYMMETRY Symmetry
CHECK_DEADLOCK FALSE
