SPECIFICATION Spec
CONSTANTS
    Stores = {a, b}
    Classes = {"h1", "h2"}
    Levels = {0, 1, 2}
    Authorities = {"k0", "k1"}
    Genesis = "k0"
    Configs <- Circulating
    NoConfig = NoConfig
    MaxHistory = 3
    GuardFaults <- Unlucky
    Amounts = {1, 2}
    Bound = 3
    MaxEvents = 6
    MaxGated = 1
    MaxRacing = 1
    Writers = {1, 2}
    Fetchers = {2}
    Getters = {"r"}
    Hashes = {"x", "z", "big"}
    SizeOf <- Sizes
    Capacity = 2
    Peers = {"p", "l"}
    Honest = {"p"}
    MaxOps = 2
    ArtFaults <- OneOf
    Tasks = {"t1", "t2"}
    Submitting = {"m", "n"}
    Setups <- ThreeSetups
    CostOf <- Costs
    Dearest = 3
    MaxDay = 2
SYMMETRY Interchangeable
CHECK_DEADLOCK FALSE
INVARIANTS GuardOnlyTightens InteriorContained ArtifactsAccounted CapacityKept SubmitServed
