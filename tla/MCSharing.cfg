CONSTANTS
    ann = ann
    bob = bob
    cy = cy
    People = {ann, bob}
    Codes = {k1}
    Calls = {c1, c2}
    Labels = {"Ann"}
    LabelOf <- OneLabel
    DaySpans = {1}
    MaxTime = 1
    Nobody = Nobody
SPECIFICATION Spec
INVARIANT TypeOK
PROPERTIES
    CodesAdmitOnce
    WayOutStaysOpen
    EveryCallAnswered
