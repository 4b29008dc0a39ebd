\* An open racing an unbind stops the system for good (finding OpenRace).
SPECIFICATION FairSpec
CONSTANTS
  Devs = {d1, d2}
  Nobody = Nobody
  MaxOpens = 1
  FlrKinds <- WithFlr
  BusResets = TRUE
  IdleD3 = TRUE
  EnableFails = {}
  Polite = TRUE
  CarefulAdmin = FALSE
PROPERTY RemovalCompletes
CHECK_DEADLOCK FALSE
