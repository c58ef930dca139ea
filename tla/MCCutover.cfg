CONSTANTS
    Tools = {t1, t2}
    ann = ann
    bob = bob
    code = code
    People <- MCPeople
    Codes <- MCCodes
    Starts <- MCStarts
    Written = {"agent", "memory_record"}
    MaxId = 3
    MaxWrites = 2
    MaxStops = 1
    MaxResets = 1
SPECIFICATION Spec
INVARIANTS
    NothingLeftBehind
    VerdictIsRight
    TargetIsSound
PROPERTY OneCopyLands
SYMMETRY Symmetry
CHECK_DEADLOCK FALSE
