SPECIFICATION FairSpec
CONSTANTS
  a1 = a1
  a2 = a2
  a3 = a3
  NoItem = NoItem
  NoAgent = NoAgent
  NoEnvelope = NoEnvelope
  Items = {1, 2, 3}
  Roots = {1}
  Agents = {a1, a2, a3}
  Lease = 1
  RootTier <- FlatTiers
  Tier <- EqualAgents
  MaxChildren <- PlannerA1
  Plans <- LeafCombine
  SubtaskTiers = {0}
  MaxTaskDepth = 1
  Verify = "off"
  MayRefuse = FALSE
  Picky = {}
  Faults <- OneCrash
INVARIANTS MutualExclusion NoPartialCombine
PROPERTIES LeaseHonoured AllComplete
