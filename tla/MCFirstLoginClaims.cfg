\* Each of these is violated: keep one at a time.
CONSTANTS
    Requests = {l1, l2, l3}
    Pairs = {ann, bob}
    None = None
SPECIFICATION LoginSpec
INVARIANTS
    SeededAtMostOnce
PROPERTIES
    NamedTenantHasProfile
CHECK_DEADLOCK FALSE
