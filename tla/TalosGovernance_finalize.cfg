SPECIFICATION Spec
CONSTANTS
  t1 = t1
  Accounts = {a1, a2}
  NoAccount = NoAccount
  Taloses = {t1}
  Balances = {1}
  Cached = {}
  CachedLedgers = {}
  Governable = {}
  Delegators = {}
  InitConfigs <- OneInit
  Configs <- HalfOfSupply
  Actions <- Signal
  Pausable = {}
  PauseDurations = {}
  DefaultOffset = 1
  MaxOffset = 2
  MaxProposals = 1
  MaxLedger = 5
  MaxTransfers = 0
INVARIANT ExpiredCanBeFinalized
CHECK_DEADLOCK FALSE
