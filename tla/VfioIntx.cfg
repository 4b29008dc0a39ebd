SPECIFICATION Spec
CONSTANTS
  EventFds = {fd1}
  NoFd = NoFd
  MaxDepth = 3
  PciKinds <- BothKinds
  SerialUser = FALSE
INVARIANTS TypeOK CallbacksSeeLiveContext ContextInv
PROPERTY LifeSpec
