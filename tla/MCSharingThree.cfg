CONSTANTS
    ann = ann
    bob = bob
    cy = cy
    People = {ann, bob, cy}
    Codes = {k1, k2}
    Calls = {c1, c2}
    Labels = {"Ann"}
    LabelOf <- SameLabel
    DaySpans = {0, 1}
    MaxTime = 0
    Nobody = Nobody
SPECIFICATION Spec
INVARIANTS
    AccessEndsOnNextCall
    NoQuietFallback
    StandingWasGranted
    OneStandingPlace
    GrantsTraceToInvites
PROPERTIES
    OnlyOwnerEndsAccess
    ImplementsTenantAccess
SYMMETRY FullSymmetry
