SPECIFICATION FairSpec
CONSTANTS
  Provider = provider
  Taloses = {provider, stranger}
  NoTalos = NoTalos
  Results = {float, whole, other}
  float = float
  whole = whole
  other = other
  Stored <- AsJson
  NoResult = NoResult
  tick = tick
  tool = tool
  process = process
  Tasks = {tick, tool}
  WorkerOf <- OneProcess
  Gone = Gone
  NoOwner = NoOwner
  MaxAttempts = 2
  MaxToken = 2
  MaxPaid = 1
  MaxFaults = 1
  Computed = {float, whole}
PROPERTY PendingIsOffered
CHECK_DEADLOCK FALSE
