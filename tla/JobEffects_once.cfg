SPECIFICATION FairSpec
CONSTANTS
  Provider = provider
  Taloses = {provider, stranger}
  NoTalos = NoTalos
  Results = {float, whole, other}
  float = float
  whole = whole
  other = other
  Stored <- AsJson
  NoResult = NoResult
  tick = tick
  tool = tool
  process = process
  Tasks = {tick, tool}
  WorkerOf <- OneProcess
  Gone = Gone
  NoOwner = NoOwner
  MaxAttempts = 2
  MaxToken = 3
  MaxPaid = 2
  MaxFaults = 1
  Computed = {float, whole}
CONSTRAINT OneStory
INVARIANTS InboxFollowsEffect TokensOrdered
PROPERTIES ImplementsOnce EffectSettles
CHECK_DEADLOCK FALSE
