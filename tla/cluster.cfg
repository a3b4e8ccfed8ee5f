SPECIFICATION Spec
CONSTANTS
    Nodes = {"m", "n"}
    Agents = {"a", "b"}
    At <- Place
    RaftItems = {"i"}
    Poster <- Posts
    Tier <- Open
    AgentTier <- Qualified
    Nobody = Nobody
    MaxLog = 5
    RaftFaults <- One
    Children = {"c"}
    MaxRestarts = 2
    Window = 1
    Stall = 3
    MaxStarts = 1
    Slots = {"s"}
    RosterRestarts = 1
    StallSteps = 2
    RosterStops = 2
    Projects = {"p", "q"}
    FailThreshold = 2
    NetdFaults <- Mishaps
    Signers = {"p", "q"}
    Reviewers = {"r", "s"}
    Cadence = 1
    MaxSigned = 3
    MaxRows = 3
    MaxDeaths = 1
CHECK_DEADLOCK FALSE
INVARIANTS ReplicasAgree
PROPERTIES ItemsComplete SupervisionHolds RosterHolds DaemonServes ReviewsHappen
