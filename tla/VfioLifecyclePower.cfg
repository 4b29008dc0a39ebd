SPECIFICATION FairSpec
CONSTANTS
  Devs = {d1, d2}
  Nobody = Nobody
  MaxOpens = 2
  FlrKinds <- AnyFlr
  BusResets = TRUE
  IdleD3 = TRUE
  EnableFails = {"igd"}
  Polite = TRUE
  CarefulAdmin = TRUE
INVARIANTS UsedDeviceHasPower IdleDeviceSleeps
PROPERTY RemovalCompletes
