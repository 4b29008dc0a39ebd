SPECIFICATION Spec
CONSTANTS
  u1 = u1
  u2 = u2
  NoTable = NoTable
  Users <- TwoUsers
  PageSize = 4
  Space = 18
  Layouts <- AllLayouts
  Igd = TRUE
  VgaKinds <- AnyKind
  Roms = {"none", "dead", "good"}
INVARIANTS TypeOK MappedPagesArePrivate AdvertisedIsServed NothingLeftBehind
