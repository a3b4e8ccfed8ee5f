SPECIFICATION AllSpec
CONSTANTS
    Nodes = {1, 2}
    Agents = {11, 12, 21}
    Home <- HomeOf
    Items = {"i"}
    Intents = {"r"}
    Lineage <- OneIntent
    NoAgent = NoAgent
    NoItem = NoItem
    SharedClock = TRUE
    Lease = 1
    MaxWall = 2
    Faults <- Duplicated
    LanNodes = {"m", "n"}
    Manual = {"m"}
    ConnIds = {1, 2}
    LanFaults <- OneMishap
    Members = {"m", "n"}
    FormationTimeout = 3
    CollectTime = 2
    MaxClock = 9
    JoinFaults <- OneWoe
CHECK_DEADLOCK FALSE
PROPERTIES CompletesEverywhere ConnectionsSettle FormationAgrees
