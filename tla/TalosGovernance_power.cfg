SPECIFICATION Spec
CONSTANTS
  t1 = t1
  Accounts = {a1, a2}
  NoAccount = NoAccount
  Taloses = {t1}
  Balances <- NegativeOrTwo
  Cached = {1}
  CachedLedgers = {1}
  Governable = {}
  Delegators = {a1}
  InitConfigs <- OneInit
  Configs <- NoConfigs
  Actions <- Signal
  Pausable = {}
  PauseDurations = {}
  DefaultOffset = 1
  MaxOffset = 2
  MaxProposals = 1
  MaxLedger = 3
  MaxTransfers = 0
INVARIANTS SearchIsLookup SupplyIsSum TallyMatchesVotes
PROPERTIES PastIsImmutable
CHECK_DEADLOCK FALSE
