\* Each of these is violated: keep one at a time.
CONSTANTS
    r1 = r1
    r2 = r2
    r3 = r3
    Backends = {"sqlite"}
    Runners <- MCRunners
    Active <- Two
    MaxCrashes <- Never
    MayEdit = FALSE
SPECIFICATION Spec
INVARIANTS
    HistoryTellsSchema
    EachRunsOnce
