SPECIFICATION Spec
CONSTANTS
  EventFds = {fd1}
  NoFd = NoFd
  MaxVectors = 2
  NoIntxKinds <- IntxHidden
  PartialKinds <- IntxHidden
INVARIANT NoIntxStaysDisabled
