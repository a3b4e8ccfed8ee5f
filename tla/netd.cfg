SPECIFICATION Spec
CONSTANTS
    Daemons = {"m", "n"}
    Calls = {"x", "y"}
    CallAt <- Publishers
    Streams = {"t"}
    StreamAt <- Readers
    Stuck = {"t"}
    BufferSize = 1
    Retention = 1
    SweepEvery = 1
    MaxTime = 4
    BusFaults <- Mishaps
    Callers = {1, 2, 3}
    Keys = {"j", "k"}
    KeyOf <- Asked
    Holders = {"k"}
    PosTTL = 2
    NegTTL = 1
    FetchTimeout = 1
    ExpirySlack = 2
    MaxInflight = 1
    Life = 5
    MaxClock = 5
    Validators = {"v", "w"}
    Candidates <- Discovered
    KeyOfPeer <- PeerKeys
    ClockErrors <- Skews
    ChallengeTTL = 4
    StreamTimeout = 2
    MaxSkew = 6
    Lifetime = 9
    QuorumK = 2
    MinCoSignatures = 2
    MaxTicks = 3
    AttFaults = {0, 1}
    DirNodes = {"m", "n"}
    DirAgents = {"a", "b"}
    Home <- Homes
    Leaving = {"a"}
    DirFaults <- Troubles
CHECK_DEADLOCK FALSE
PROPERTIES BusDelivers TierAnswers QuorumCertified DirectoryHeals
