CONSTANTS
  c1 = c1
  k1 = k1
  k2 = k2
  Servers = {s1}
  Clients = {c1, c2}
  Accounts = {a1}
  Slots = {i1, i2}
  CDKeys = {k1, k2}
  KeyOf <- TwoKeys
  OperatorKey = k0
  Unlockable = {a1}
  NoServer = NoServer
  NoSlot = NoSlot
  NoClient = NoClient
  NoPlayer = NoPlayer
  NoPC = NoPC
SPECIFICATION FairSpec
PROPERTIES RestartReleases
