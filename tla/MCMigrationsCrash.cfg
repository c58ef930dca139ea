\* Each of these is violated: keep one at a time.
CONSTANTS
    r1 = r1
    r2 = r2
    r3 = r3
    Backends = {"sqlite"}
    Runners <- MCRunners
    Active <- One
    MaxCrashes <- Once
    MayEdit = FALSE
SPECIFICATION Spec
INVARIANT NothingHalfApplied
PROPERTY StoreComesUp
