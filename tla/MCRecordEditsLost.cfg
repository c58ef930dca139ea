CONSTANTS
    Calls = {c1, c2}
    Ops <- Additions
    Base = base
    Null = Null
SPECIFICATION Spec
INVARIANT AddedTextIsThere
CHECK_DEADLOCK FALSE
