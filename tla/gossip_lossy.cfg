SPECIFICATION Spec
CONSTANTS
    Nodes = {1, 2}
    Agents = {11, 21}
    Home <- HomeOf
    Items = {"i"}
    Intents = {"r"}
    Lineage <- OneIntent
    NoAgent = NoAgent
    NoItem = NoItem
    SharedClock = TRUE
    Lease = 1
    MaxWall = 1
    Faults <- Lossy
CHECK_DEADLOCK FALSE
PROPERTIES ArrivedItemHasRow
