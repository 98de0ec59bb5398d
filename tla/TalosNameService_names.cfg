SPECIFICATION Spec
CONSTANTS
  DefaultGrace = 1
  MaxMinDelay = 2
  a1 = a1  a2 = a2  n1 = n1  n2 = n2
  Accounts <- TwoAccounts
  NoAccount = none
  Names <- TwoNames
  NoName = unnamed
  Here = here
  Elsewhere = elsewhere
  Fees <- SmallFees
  DefaultFee = 1
  MaxFee = 2
  MinDelays = {0, 2}
  Graces = {1}
  Delays = {0, 2}
  PauseDurations = {1}
  MaxTalos = 2
  MaxProposals = 2
  MaxNameProposals = 1
  MaxTime = 3
CONSTRAINT Focused
SYMMETRY Alike
INVARIANTS FeeWithinLimit NamesSound
PROPERTIES NoticeGiven CreatorIsPermanent RegistryIsAnnounced
CHECK_DEADLOCK FALSE
