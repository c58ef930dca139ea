\* Each of these is violated: keep one at a time.
CONSTANTS
    meta = meta
    ops = ops
    episode = episode
    dated = dated
    manual = manual
    moment = moment
    profile = profile
    Agents = {meta, ops}
    Docs = {episode, dated, manual, moment, profile}
    Minted = {n1}
    OwnerOf <- MCOwnerOf
    TypeOf <- MCTypeOf
    Rank <- MCRank
    HomeOf <- MCHomeOf
    Named = {n1, episode}
    Fleet = Fleet
    Texts = {b1, b2}
    Bodies = {b1}
    Trees <- MCTrees
    Line = Line
    None = None
    MaxEdits = 1
SPECIFICATION Spec
INVARIANTS
    AbortLeavesStore
    ExportLeavesTreeImportable
