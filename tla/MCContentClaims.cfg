\* Each of these is violated: keep one at a time.
CONSTANTS
    c1 = c1
    c2 = c2
    Callers <- MCCallers
    Casts <- MCCasts
    Checkouts = {"none", "empty", "full"}
    MaxEdits = 1
    MaxStops = 1
SPECIFICATION Spec
INVARIANTS
    StillBoots
    TitlesAreLive
    ComposedByOneLibrary
    ListingAnswers
PROPERTIES
    EveryWriterGetsIn
CHECK_DEADLOCK FALSE
