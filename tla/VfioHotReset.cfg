SPECIFICATION Spec
CONSTANTS
  u1 = u1
  u2 = u2
  used = used
  bridge = bridge
  behind = behind
  other = other
  g1 = g1
  g2 = g2
  port = port
  port2 = port2
  host = host
  far = far
  Users <- TwoUsers
  Nobody = Nobody
  Devs <- FourDevs
  Used <- TheUsed
  NoDev = NoDev
  BusOf <- BusMap
  SlotOf <- SlotMap
  Bridge <- BridgeMap
  Groups <- TwoGroups
  GroupOf <- GroupMap
  NoGroup = NoGroup
  MaxFds = 2
  QuietBus = TRUE
  HostDevs <- TheHost
  VgaDevs <- VgaKinds
  TreeBusOf <- WholeBusMap
  TreeBridge <- WholeBridgeMap
  DomainOf <- DomainMap
  BusNr <- BusNrMap
  MaxNr <- MaxNrMap
SYMMETRY AnyUser
INVARIANTS TypeOK ReferencesBalance VgaDecodeRight
PROPERTIES ResetSparesOthers ResetWithinGroups
