SPECIFICATION FairSpec
CONSTANTS
    Nodes = {"a", "b"}
    Works = {"w", "y"}
    Envelopes = {1, 3}
    WorkOf <- WorkNamed
    EarnerOf <- EarnerNamed
    PayerOf <- PayerNamed
    CostOf <- Costs
    Asked <- Fair
    Tampered = {}
    Shipments <- Everything
    Audit = TRUE
    Callers = {"a"}
    MaxEntries = 2
    MaxTime = 2
    MaxRequests = 2
    MaxPages = 3
    PageSize = 1
    NoEnvelope = NoEnvelope
    NoNode = NoNode
    Faults <- Impatient
CHECK_DEADLOCK FALSE
INVARIANTS ReconcileSeesAll
PROPERTIES SubmittedSettles
