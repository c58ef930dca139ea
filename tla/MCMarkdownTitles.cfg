\* Each of these is violated: keep one at a time.
CONSTANTS
    meta = meta
    ops = ops
    episode = episode
    dated = dated
    manual = manual
    moment = moment
    profile = profile
    Agents = {meta}
    Docs = {episode, dated}
    Minted = {n1, n2}
    OwnerOf <- MCOwnerOf
    TypeOf <- MCTypeOf
    Rank <- MCRank
    HomeOf <- MCHomeOf
    Named = {n1, n2}
    Fleet = Fleet
    Texts = {b1, b2}
    Bodies = {b1}
    Trees <- MCTrees
    Line = Line
    None = None
    MaxEdits = 2
SPECIFICATION Spec
INVARIANTS
    ExportKeepsEveryRecord
    ExportSkipsDeleted
    ExportKeepsArchived
PROPERTIES
    ExportReplacesNothing
