SPECIFICATION FairSpec
CONSTANTS
  EventFds = {fd1}
  NoFd = NoFd
  MaxDepth = 3
  PciKinds <- DisIntx
  SerialUser = TRUE
INVARIANT PhysicalFollowsVirtual
PROPERTY NoLostInterrupt
