CONSTANTS
    Calls = {c1, c2, c3}
    Ops <- AllOps
    Base = base
    Null = Null
SPECIFICATION Spec
INVARIANT RecordIsSound
PROPERTIES
    EveryBodyIsWhole
    BodyEditsKeepTheRest
SYMMETRY Symmetry
CHECK_DEADLOCK FALSE
