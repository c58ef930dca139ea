CONSTANTS
    r1 = r1
    r2 = r2
    r3 = r3
    Backends = {"sqlite", "postgres"}
    Runners <- MCRunners
    Active <- OneOnSqlite
    MaxCrashes <- StopsOnPostgres
    MayEdit = TRUE
SPECIFICATION Spec
INVARIANTS
    HistoryTellsSchema
    ScriptsRunOnceAndWhole
    ReadyMeansCurrent
PROPERTY SummariesSurvive
SYMMETRY Symmetry
