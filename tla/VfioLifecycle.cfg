\* An open racing an unbind stops the system for good (finding OpenRace).
SPECIFICATION Spec
CONSTANTS
  Devs = {d1, d2}
  Nobody = Nobody
  MaxOpens = 2
  FlrKinds <- AnyFlr
  BusResets = TRUE
  IdleD3 = TRUE
  EnableFails = {"device", "config", "igd"}
  Polite = FALSE
  CarefulAdmin = FALSE
SYMMETRY DevSymmetry
INVARIANTS TypeOK DirtyIsRemembered ModulePinned VdevOutlivesUse
PROPERTY ContractSpec
CHECK_DEADLOCK FALSE
