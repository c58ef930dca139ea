CONSTANTS
    Tenants = {ann, bob}
    Agents = {meta}
    Uuids = {u1, u2}
    Projects = {hermod}
    Types = {"episode", "knowledge", "user_profile"}
    Reuse = "own"
    MaxTime = 1
    Nil = Nil
SPECIFICATION Spec
INVARIANTS
    OneProfile
    RowsAreReachable
PROPERTIES
    TenantsApart
    ImplementsVaults
SYMMETRY Symmetry
