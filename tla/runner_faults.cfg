SPECIFICATION FairSpec
CONSTANTS
  a1 = a1
  a2 = a2
  a3 = a3
  NoItem = NoItem
  NoAgent = NoAgent
  NoEnvelope = NoEnvelope
  Items = {1}
  Roots = {1}
  Agents = {a1, a2}
  Lease = 1
  RootTier <- FlatTiers
  Tier <- EqualAgents
  MaxChildren <- NoSpawn
  Plans <- NoPlan
  SubtaskTiers = {0}
  MaxTaskDepth = 1
  Verify = "off"
  MayRefuse = TRUE
  Picky = {a1}
  Faults <- Unreliable
INVARIANTS TypeOK CompletionByHolder
PROPERTIES ImplementsWorkBoard ClaimReturns
