SPECIFICATION FairSpec
CONSTANTS
  t1 = t1
  Accounts = {a1, a2}
  NoAccount = NoAccount
  Taloses = {t1}
  Balances = {2}
  Cached = {}
  CachedLedgers = {}
  Governable = {t1}
  Delegators = {}
  InitConfigs <- OneInit
  Configs <- OtherQuorum
  Actions <- AllActions
  Pausable = {"voting"}
  PauseDurations = {1}
  DefaultOffset = 2
  MaxOffset = 2
  MaxProposals = 1
  MaxLedger = 3
  MaxTransfers = 1
CONSTRAINT ShareAlone
PROPERTIES ImplementsBallot EveryProposalSettles DecisionIsFinal EarlyDecisionHadQuorum
CHECK_DEADLOCK FALSE
