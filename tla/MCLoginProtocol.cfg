CONSTANTS
  c1 = c1
  k1 = k1
  k2 = k2
  Servers = {s1, s2}
  Clients = {c1, c2}
  Accounts = {a1}
  Slots = {i1, i2}
  CDKeys = {k1, k2}
  KeyOf <- OneKey
  OperatorKey = k2
  Unlockable = {}
  NoServer = NoServer
  NoSlot = NoSlot
  NoClient = NoClient
  NoPlayer = NoPlayer
  NoPC = NoPC
SPECIFICATION Spec
SYMMETRY Symmetry
INVARIANTS TypeOK NoDoubleLogin NoStuckLock OpenRowsAccounted
PROPERTIES ImplementsAccountLock KeysAddedUnderLock 
