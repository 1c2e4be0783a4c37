CONSTANTS
  p = p
  m = m
  a = a
  b = b
  NoProtocol = NoProtocol
  Plugins = {p, m}
  Protocols = {m}
  Broken = {}
  Accounts = {a, b}
  Owner <- MCOwner
  MaxQueue = 1
SPECIFICATION FairSpec
INVARIANTS ProtocolOutlivesAccounts EnabledIsLoaded
PROPERTY UnloadingEnds
CHECK_DEADLOCK FALSE
