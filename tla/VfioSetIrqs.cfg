SPECIFICATION Spec
CONSTANTS
  u1 = u1
  u2 = u2
  fd1 = fd1
  fd2 = fd2
  fd3 = fd3
  Users <- TwoUsers
  Nobody = Nobody
  EventFds <- AllFds
  FdOwner <- Owners
  NoFd = NoFd
  OtherFd = OtherFd
  Vectors = 2
  NoIntxKinds <- AnyKind
  PcieKinds <- AnyKind
  MaxOpens = 3
INVARIANTS TypeOK DataIsPassed TriggersBalance EnabledIsAdvertised
PROPERTY ModesAreExclusive
