SPECIFICATION Spec
CONSTANTS
    Nodes = {"a", "b", "c"}
    Works = {"w", "x", "y", "z"}
    Envelopes = {1, 2, 3, 4}
    WorkOf <- WorkNamed
    EarnerOf <- EarnerNamed
    PayerOf <- PayerNamed
    CostOf <- Costs
    Asked <- Padded
    Tampered = {3}
    Shipments <- Anything
    Audit = TRUE
    Callers = {"a"}
    MaxEntries = 2
    MaxTime = 1
    MaxRequests = 0
    MaxPages = 3
    PageSize = 1
    NoEnvelope = NoEnvelope
    NoNode = NoNode
    Faults <- Unreliable
CHECK_DEADLOCK FALSE
INVARIANTS BooksAgree EarnerNeverAhead SuccessCountedOnce HonestNotDisputed PaidWorkIsAudited
