SPECIFICATION Spec
CONSTANTS
  Jobs = {j1}
  Workers = {w1, w2}
  LeaseIds = {l1, l2, l3}
  NoLease = NoLease
  MaxAttempts = 2
  RetryClass <- AllTransient
  Priority <- SamePriority
  BatchSize = 1
  MaxStops = 1
  MaxCrashes = 1
  MaxRequeues = 1
INVARIANTS LeaseExclusive DecisionCurrent FailureBudget
PROPERTIES LiveLeaseRespected CompletedIsFinal ImplementsLifecycle
SYMMETRY Symmetry
