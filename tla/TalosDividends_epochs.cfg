SPECIFICATION Spec
CONSTANTS
  a1 = a1  a2 = a2  a3 = a3  r1 = r1  r2 = r2  r3 = r3
  talos = talos  other = other
  Taloses = {t1}
  NoAddress = NoAddress
  Addresses <- TheAddresses
  Registries <- TheRegistries
  RegistryVersion <- TheVersions
  RegistryInterface <- TheInterfaces
  ExpectedInterface = talos
  Patrons <- ThePatrons
  Splits <- TheSplits
  Totals = {0, 7}
  Expiries = {0, 1}
  MinExpiry = 1
  MaxExpiry = 1
  MaxI128 = 450
  RenewalThreshold = 1
  AgeWindows <- Windows
  MaxEpochs = 2
  MaxNow = 2
  MaxTransfers = 1
INVARIANTS Accounts FullClaimLeavesDust WindowsDisjoint OnePayoutPerPatron NominationCurrent
PROPERTY EpochHistory
CHECK_DEADLOCK FALSE
