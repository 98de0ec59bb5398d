SPECIFICATION FairSpec
CONSTANTS
  Txs = {x1}
  Purchase = x2
  Servers = {s1}
  Ticks = {k1}
  Source <- MixedSource
  Threshold = 2
  Depth = 1
  BatchSize = 1
  Limit = 1
  MaxLedger = 2
  MaxFaults = 1
PROPERTIES TerminalIsRepaired
