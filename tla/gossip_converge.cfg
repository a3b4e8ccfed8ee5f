SPECIFICATION Spec
CONSTANTS
    Nodes = {1, 2}
    Agents = {11, 21}
    Home <- HomeOf
    Items = {"i"}
    Intents = {"r"}
    Lineage <- OneIntent
    NoAgent = NoAgent
    NoItem = NoItem
    SharedClock = TRUE
    Lease = 0
    MaxWall = 3
    Faults <- ClocksStep
CHECK_DEADLOCK FALSE
INVARIANTS ClaimsAreSound
PROPERTIES StampsAdvance
