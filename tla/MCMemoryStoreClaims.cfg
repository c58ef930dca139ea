\* Each of these is violated: keep one at a time.
CONSTANTS
    Tenants = {ann, bob}
    Agents = {meta, ops}
    Uuids = {u1, u2}
    Projects = {hermod}
    Types = {"episode", "knowledge", "user_profile"}
    Reuse = "any"
    MaxTime = 0
    Nil = Nil
SPECIFICATION Spec
INVARIANTS
    NoProfileMeansNobodyAsked
    AgentMemoryTypes
PROPERTY DeleteIsFinal
