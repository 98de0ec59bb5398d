SPECIFICATION FairSpec
CONSTANTS
  Jobs = {j1, j2}
  Workers = {w1}
  LeaseIds = {l1, l2}
  NoLease = NoLease
  MaxAttempts = 2
  RetryClass <- OneFatal
  Priority <- FatalFirst
  BatchSize = 2
  MaxStops = 0
  MaxCrashes = 1
  MaxRequeues = 0
PROPERTY EveryJobSettles
