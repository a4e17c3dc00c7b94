CONSTANTS
  a1 = a1
  a2 = a2
  a3 = a3
  h1 = h1
  h2 = h2
  MAX_CLIENTS = 2
  Addrs <- MCAddrs
  Hosts <- MCHosts
  HostOf <- MCHostOf
  m_MaxClientsPerIP = 1
  Codes = {NoCode, code}
  NoCode = NoCode
  None = None
SPECIFICATION Spec
INVARIANTS PersistentDataIsOwn
