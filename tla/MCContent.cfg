CONSTANTS
    c1 = c1
    c2 = c2
    Callers <- MCCallers
    Casts <- MCCasts
    Checkouts = {"none", "full"}
    MaxEdits = 2
    MaxStops = 1
SPECIFICATION Spec
INVARIANTS
    GateFollowsServedTemplate
    ServingIsSound
PROPERTIES
    WriterGetsIn
    ClientsHoldCurrentLayer
CHECK_DEADLOCK FALSE
