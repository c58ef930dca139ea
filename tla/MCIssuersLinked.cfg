CONSTANTS
    ann = ann
    bob = bob
    People <- MCPeople
    Sub <- MCSub
    Settings <- MCSwaps
    MaxDeploys = 1
    LinksFirst = TRUE
SPECIFICATION Spec
INVARIANT PeopleKeepTheirTenant
CHECK_DEADLOCK FALSE
