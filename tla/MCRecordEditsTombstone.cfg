CONSTANTS
    Calls = {c1, c2}
    Ops <- Mixed
    Base = base
    Null = Null
SPECIFICATION Spec
INVARIANT TombstoneNotSurfaced
CHECK_DEADLOCK FALSE
