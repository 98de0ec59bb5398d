SPECIFICATION Spec
CONSTANTS
  Txs = {x1, x2}
  Purchase = x2
  Servers = {s1}
  Ticks = {k1, k2}
  Source <- MixedSource
  Threshold = 2
  Depth = 1
  BatchSize = 1
  Limit = 1
  MaxLedger = 2
  MaxFaults = 1
INVARIANTS OneCallPerRecord FinalityIsTrue
PROPERTIES SettledOnce
CONSTRAINT OverlapOrTwoRecords
SYMMETRY Symmetry
