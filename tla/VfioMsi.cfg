SPECIFICATION FairSpec
CONSTANTS
  EventFds = {fd1}
  NoFd = NoFd
  MaxVectors = 3
  NoIntxKinds <- AnyKind
  PartialKinds <- IntxShown
INVARIANTS TypeOK ReferencesBalance SignalsLiveEventfd
INVARIANTS BlockAllOrNothing NoIntxStaysDisabled
PROPERTIES LifeSpec CallsReturn
