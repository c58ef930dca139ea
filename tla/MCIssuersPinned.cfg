CONSTANTS
    ann = ann
    bob = bob
    People <- MCPeople
    Sub <- MCSub
    Settings <- MCPinned
    MaxDeploys = 0
    LinksFirst = FALSE
SPECIFICATION Spec
PROPERTY EveryoneGetsIn
CHECK_DEADLOCK FALSE
