\* Each of these is violated: keep one at a time.
CONSTANTS
    ann = ann
    bob = bob
    cy = cy
    People = {ann, bob, cy}
    Codes = {k1}
    Calls = {c1, c2}
    Labels = {"Ann"}
    LabelOf <- SameLabel
    DaySpans = {1}
    MaxTime = 0
    Nobody = Nobody
SPECIFICATION Spec
INVARIANTS
    CallerBlockIsTrue
    RosterEndsWithAccess
PROPERTIES
    OnlyOwnerRetiresInvites
    StaleSelectionActsAsHome
