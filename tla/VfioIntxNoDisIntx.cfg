SPECIFICATION Spec
CONSTANTS
  EventFds = {fd1}
  NoFd = NoFd
  MaxDepth = 3
  PciKinds <- NoDisIntx
  SerialUser = TRUE
INVARIANT PhysicalFollowsVirtual
