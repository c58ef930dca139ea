CONSTANTS
    ann = ann
    bob = bob
    People <- MCPeople
    Sub <- MCSub
    Settings <- MCSettings
    MaxDeploys = 2
    LinksFirst = FALSE
SPECIFICATION Spec
INVARIANTS
    VerifierIsSound
    NobodyElsesTenant
PROPERTIES
    SwapKeepsTokens
    EveryoneGetsIn
CHECK_DEADLOCK FALSE
