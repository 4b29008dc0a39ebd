------------------------- MODULE VfioLifecycleProofs -------------------------
(***************************************************************************)
(* VfioLifecycle for every number of devices on the bus and of files of a  *)
(* device, with and without resets and power management.                   *)
(***************************************************************************)
EXTENDS VfioLifecycle, FiniteSetTheorems, TLAPS

(* The holder of driver_lock is in the middle of its work on a device that *)
(* has no open file; only vfio_pci_try_bus_reset holds other devices.      *)
LockHolder ==
  /\ pc = "idle" <=> driver_lock = Nobody
  /\ driver_lock \in Devs => refcnt[driver_lock] = 0
  /\ devs # {} => pc \in {"bus_get", "bus_put"}
  /\ ret => pc = "bus_put"

(* Who holds the references on a device: the driver between probe and      *)
(* remove, every file, every open on its way, and the bus reset.           *)
Registered(d) == IF admin[d] \in {"added", "woken", "bound"} THEN 1 ELSE 0
Held(d) == IF d \in devs THEN 1 ELSE 0

Account(d) ==
  /\ refs[d] = Registered(d) + Files(d) + entering[d] + Held(d)
  /\ Files(d) + entering[d] <= MaxOpens
  /\ releasing[d] <= refcnt[d]
  /\ admin[d] \in {"unbound", "probe"} => refs[d] = 0
  /\ driver = "absent" => admin[d] = "unbound"

Accounting == \A d \in Devs : Account(d)

CountInv == TypeOK /\ LockHolder /\ Accounting /\ ModulePinned

-----------------------------------------------------------------------------
(* The set of files, one pair for each, is finite, and it gains or loses   *)
(* one pair with one file of one device.                                   *)
LEMMA PinsFinite == IsFiniteSet(Pins) /\ Cardinality(Pins) \in Nat
<1>1. IsFiniteSet(Devs \X (1..MaxOpens))
  <2>1. IsFiniteSet(1..MaxOpens) /\ IsFiniteSet(Devs)
    BY FS_Interval, LifecycleAssumption
  <2>. QED BY <2>1, FS_Product
<1>2. IsFiniteSet(Pins)
  BY <1>1, FS_Subset DEF Pins
<1>. QED BY <1>2, FS_CardinalityType

(* One more file is one more pin. *)
LEMMA PinAdded ==
  ASSUME NEW d \in Devs, ModulePinned,
         \A x \in Devs : Files(x) \in Nat,
         Files(d)' = Files(d) + 1, Files(d)' <= MaxOpens,
         \A x \in Devs \ {d} : Files(x)' = Files(x),
         modrefs' = modrefs + 1
  PROVE  ModulePinned'
<1>. DEFINE new == <<d, Files(d) + 1>>
<1>1. Pins' = Pins \union {new} /\ new \notin Pins
  BY LifecycleAssumption DEF Pins
<1>2. Cardinality(Pins') = Cardinality(Pins) + 1
  BY <1>1, PinsFinite, FS_AddElement
<1>. QED BY <1>2 DEF ModulePinned

(* One file less is one pin less. *)
LEMMA PinDropped ==
  ASSUME NEW d \in Devs, ModulePinned,
         \A x \in Devs : Files(x) \in 0..MaxOpens,
         Files(d) > 0, Files(d)' = Files(d) - 1,
         \A x \in Devs \ {d} : Files(x)' = Files(x),
         modrefs' = modrefs - 1
  PROVE  modrefs' \in Nat /\ ModulePinned'
<1>. DEFINE old == <<d, Files(d)>>
<1>1. Pins' = Pins \ {old} /\ old \in Pins
  BY LifecycleAssumption DEF Pins
<1>2. Cardinality(Pins') = Cardinality(Pins) - 1
  BY <1>1, PinsFinite, FS_RemoveElement
<1>3. Cardinality(Pins') \in Nat
  BY <1>1, PinsFinite, FS_RemoveElement, FS_CardinalityType
<1>. QED BY <1>2, <1>3 DEF ModulePinned

(* The pins are those of the files. *)
LEMMA PinsKept ==
  ASSUME ModulePinned, \A x \in Devs : Files(x)' = Files(x),
         modrefs' = modrefs
  PROVE  ModulePinned'
<1>1. Pins' = Pins
  BY DEF Pins
<1>. QED BY <1>1 DEF ModulePinned

(* The files of a device, and the opens on their way to be one, are within *)
(* the bound; a device without references has neither, and a driver, a     *)
(* file, an open or a bus reset has one to give back.                      *)
LEMMA FilesBound ==
  ASSUME CountInv, NEW d \in Devs
  PROVE  /\ Files(d) \in 0..MaxOpens /\ entering[d] \in 0..MaxOpens
         /\ Files(d) + entering[d] <= MaxOpens
         /\ refcnt[d] + opening[d] <= Files(d)
         /\ driver_lock = d => Files(d) > 0
         /\ refs[d] = 0 => /\ Files(d) = 0 /\ entering[d] = 0 /\ d \notin devs
                           /\ refcnt[d] = 0 /\ opening[d] = 0
                           /\ admin[d] \notin {"added", "woken", "bound"}
         /\ refs[d] # 0 => refs[d] - 1 \in Nat
         /\ admin[d] \in {"unbound", "probe"} => refs[d] = 0
<1>1. /\ refcnt[d] \in Nat /\ opening[d] \in Nat /\ refs[d] \in Nat
      /\ entering[d] \in Nat /\ MaxOpens \in Nat
  BY LifecycleAssumption DEF CountInv, TypeOK
<1>2. /\ Files(d) \in Nat /\ refcnt[d] + opening[d] <= Files(d)
      /\ driver_lock = d => Files(d) > 0
  BY <1>1 DEF Files
<1>3. /\ refs[d] = Registered(d) + Files(d) + entering[d] + Held(d)
      /\ Files(d) + entering[d] <= MaxOpens
      /\ admin[d] \in {"unbound", "probe"} => refs[d] = 0
  BY DEF CountInv, Accounting, Account
<1>4. /\ Registered(d) \in Nat /\ Held(d) \in Nat
      /\ d \in devs => Held(d) = 1
      /\ admin[d] \in {"added", "woken", "bound"} => Registered(d) = 1
  BY DEF Registered, Held
<1>5. Files(d) \in 0..MaxOpens /\ entering[d] \in 0..MaxOpens
  BY <1>1, <1>2, <1>3
<1>6. refs[d] = 0 => Files(d) = 0 /\ entering[d] = 0
                     /\ Held(d) = 0 /\ Registered(d) = 0
  BY <1>1, <1>2, <1>3, <1>4
<1>7. Files(d) = 0 => refcnt[d] = 0 /\ opening[d] = 0
  BY <1>1, <1>2
<1>8. refs[d] = 0 => /\ d \notin devs
                     /\ admin[d] \notin {"added", "woken", "bound"}
  BY <1>4, <1>6
<1>9. refs[d] # 0 => refs[d] - 1 \in Nat
  BY <1>1
<1>. QED BY <1>2, <1>3, <1>5, <1>6, <1>7, <1>8, <1>9

(* Every step that adds a file takes a reference on the module with it,    *)
(* and every step that drops a file, or fails to open it, gives it back.   *)
LEMMA PinStep ==
  CountInv /\ [Next]_vars => ModulePinned' /\ (modrefs' \in Nat)
<1>. SUFFICES ASSUME CountInv, [Next]_vars
              PROVE  ModulePinned' /\ (modrefs' \in Nat)
  OBVIOUS
<1>1. /\ refcnt \in [Devs -> 0..MaxOpens] /\ opening \in [Devs -> 0..MaxOpens]
      /\ entering \in [Devs -> 0..MaxOpens] /\ modrefs \in Nat
      /\ MaxOpens \in Nat /\ Nobody \notin Devs
      /\ driver_lock \in Devs => refcnt[driver_lock] = 0
      /\ pc = "idle" => driver_lock = Nobody
      /\ ModulePinned
  BY LifecycleAssumption DEF CountInv, TypeOK, LockHolder
<1>2. \A x \in Devs : /\ Files(x) \in 0..MaxOpens
                      /\ Files(x) + entering[x] <= MaxOpens
                      /\ admin[x] = "probe" => Files(x) = 0
  BY FilesBound
<1>3. ASSUME UNCHANGED <<refcnt, opening, driver_lock, modrefs>>
      PROVE  ModulePinned' /\ (modrefs' \in Nat)
  <2>1. \A x \in Devs : Files(x)' = Files(x)
    BY <1>3 DEF Files
  <2>. QED BY <1>1, <1>3, <2>1, PinsKept
<1>4. ASSUME NEW d \in Devs, ProbeAdd(d)
      PROVE  ModulePinned' /\ (modrefs' \in Nat)
  <2>1. refcnt[d] = 0
    BY <1>1, <1>2, <1>4 DEF ProbeAdd, GoAdmin, Files
  <2>2. UNCHANGED <<refcnt, opening, driver_lock, modrefs>>
    BY <1>1, <1>4, <2>1 DEF ProbeAdd, Set, waitVars, modVars
  <2>. QED BY <1>3, <2>2
<1>5. ASSUME NEW d \in Devs, PinModule(d)
      PROVE  ModulePinned' /\ (modrefs' \in Nat)
  <2>1. \A x \in Devs \ {d} : Files(x)' = Files(x)
    BY <1>1, <1>5 DEF PinModule, Set, Files, vdevVars
  <2>2. Files(d)' = Files(d) + 1
    BY <1>1, <1>5 DEF PinModule, Set, Files, vdevVars
  <2>3. Files(d)' <= MaxOpens
    BY <1>1, <1>2, <1>5, <2>2 DEF PinModule
  <2>. QED BY <1>1, <1>2, <1>5, <2>1, <2>2, <2>3, PinAdded DEF PinModule
<1>6. ASSUME NEW d \in Devs, OpenAgain(d)
      PROVE  ModulePinned' /\ (modrefs' \in Nat)
  <2>1. \A x \in Devs : Files(x)' = Files(x)
    BY <1>1, <1>6 DEF OpenAgain, Set, Files
  <2>. QED BY <1>1, <1>6, <2>1, PinsKept DEF OpenAgain, modVars
<1>7. ASSUME NEW d \in Devs, OpenFirst(d)
      PROVE  ModulePinned' /\ (modrefs' \in Nat)
  <2>1. \A x \in Devs : Files(x)' = Files(x)
    BY <1>1, <1>7 DEF OpenFirst, Set, Files, vdevVars
  <2>. QED BY <1>1, <1>7, <2>1, PinsKept DEF OpenFirst, modVars
<1>8. ASSUME NEW d \in Devs, OpenDone(d)
      PROVE  ModulePinned' /\ (modrefs' \in Nat)
  <2>1. \A x \in Devs : Files(x)' = Files(x)
    BY <1>1, <1>8 DEF OpenDone, Go, Set, Files, waitVars
  <2>. QED BY <1>1, <1>8, <2>1, PinsKept DEF OpenDone, modVars
<1>9. ASSUME NEW d \in Devs, OpenError(d) \/ Released(d)
      PROVE  ModulePinned' /\ (modrefs' \in Nat)
  <2>1. \A x \in Devs \ {d} : Files(x)' = Files(x)
    BY <1>1, <1>9 DEF OpenError, Released, Go, Files, vdevVars, waitVars
  <2>2. Files(d) > 0 /\ Files(d)' = Files(d) - 1
    BY <1>1, <1>9 DEF OpenError, Released, Go, Files, vdevVars, waitVars
  <2>3. modrefs' = modrefs - 1
    BY <1>9 DEF OpenError, Released, ReleaseModule
  <2>. QED BY <1>1, <1>2, <2>1, <2>2, <2>3, PinDropped
<1>10. ASSUME NEW d \in Devs, ReleaseOne(d)
       PROVE  ModulePinned' /\ (modrefs' \in Nat)
  <2>1. \A x \in Devs \ {d} : Files(x)' = Files(x)
    BY <1>1, <1>10 DEF ReleaseOne, Set, Files
  <2>2. Files(d) > 0 /\ Files(d)' = Files(d) - 1
    BY <1>1, <1>10 DEF ReleaseOne, Set, Files
  <2>. QED BY <1>1, <1>2, <1>10, <2>1, <2>2, PinDropped DEF ReleaseOne
<1>11. ASSUME NEW d \in Devs, ReleaseLast(d)
       PROVE  ModulePinned' /\ (modrefs' \in Nat)
  <2>1. \A x \in Devs : Files(x)' = Files(x)
    BY <1>1, <1>11 DEF ReleaseLast, Set, Files
  <2>. QED BY <1>1, <1>11, <2>1, PinsKept DEF ReleaseLast, modVars
<1>12. CASE Module \/ UNCHANGED vars
  BY <1>3, <1>12 DEF Module, ModuleInit, StartCleanup, CleanupDone, vars,
                     vdevVars, modVars, threadVars, waitVars
<1>. USE DEF vdevVars, modVars, threadVars, waitVars
<1>13. ASSUME NEW d \in Devs,
              \/ Admin(d) \/ ProbeFails(d) \/ ProbeWake(d) \/ ProbeSleep(d)
              \/ RemoveDone(d)
       PROVE  ModulePinned' /\ (modrefs' \in Nat)
  BY <1>3, <1>13 DEF Admin, StartProbe, StartRemove, ProbeFails, ProbeWake,
                     ProbeSleep, RemoveDone
<1>14. ASSUME NEW d \in Devs, User(d) \/ OpenRefused(d)
       PROVE  ModulePinned' /\ (modrefs' \in Nat)
  BY <1>3, <1>14 DEF User, StartOpen, StartRelease, UserWorks, UserReset,
                     OpenRefused
<1>15. ASSUME NEW d \in Devs,
              \/ EnableDevice(d) \/ EnableDeviceFails(d) \/ EnableReset(d)
              \/ EnableConfigFails(d) \/ EnableIgdFails(d)
       PROVE  ModulePinned' /\ (modrefs' \in Nat)
  BY <1>3, <1>15 DEF EnableDevice, EnableDeviceFails, EnableReset,
                     EnableConfigFails, EnableIgdFails
<1>16. ASSUME NEW d \in Devs,
              DisableMark(d) \/ DisableReset(d) \/ DisableSleep(d)
       PROVE  ModulePinned' /\ (modrefs' \in Nat)
  BY <1>3, <1>16 DEF DisableMark, DisableReset, DisableSleep
<1>17. ASSUME NEW d \in Devs, BusStep(d)
       PROVE  ModulePinned' /\ (modrefs' \in Nat)
  BY <1>3, <1>17 DEF BusStep, BusSkip, BusStart, BusReset, BusNoReset,
                     BusDone, BusGet, BusGetFails, BusPut
<1>. QED
  BY <1>4, <1>5, <1>6, <1>7, <1>8, <1>9, <1>10, <1>11, <1>12, <1>13, <1>14,
     <1>15, <1>16, <1>17
     DEF Next, AdminStep, EnterStep, LockStep, EnableStep, DisableStep,
         DriverStep

(* The references on a device are accounted for whatever step is taken.    *)
LEMMA AccountStep ==
  ASSUME CountInv, [Next]_vars, NEW x \in Devs
  PROVE  Account(x)'
<1>0. /\ refs \in [Devs -> Nat] /\ refcnt \in [Devs -> Nat]
      /\ opening \in [Devs -> Nat] /\ entering \in [Devs -> Nat]
      /\ releasing \in [Devs -> Nat] /\ MaxOpens \in Nat
      /\ Nobody \notin Devs
      /\ admin \in [Devs -> {"unbound", "probe", "added", "woken", "bound",
                            "removing"}]
      /\ driver_lock \in Devs => refcnt[driver_lock] = 0
      /\ pc = "idle" <=> driver_lock = Nobody
      /\ devs # {} => pc \in {"bus_get", "bus_put"}
  BY LifecycleAssumption DEF CountInv, TypeOK, LockHolder
<1>. Account(x)
  BY DEF CountInv, Accounting
<1>. USE <1>0 DEF Account, Registered, Held, Files, Go, GoAdmin, Set, Get, Put,
         pciVars, vdevVars, modVars, waitVars, threadVars
<1>1. CASE ModuleInit
  BY <1>1 DEF ModuleInit
<1>2. CASE StartCleanup
  BY <1>2 DEF StartCleanup
<1>3. CASE CleanupDone
  BY <1>3 DEF CleanupDone
<1>4. ASSUME NEW d \in Devs, StartProbe(d) PROVE Account(x)'
  BY <1>4 DEF StartProbe
<1>5. ASSUME NEW d \in Devs, ProbeAdd(d) PROVE Account(x)'
  <2>1. CASE x = d
    BY <1>5, <2>1, FilesBound DEF ProbeAdd
  <2>2. CASE x # d
    BY <1>5, <2>2 DEF ProbeAdd
  <2>. QED BY <2>1, <2>2
<1>6. ASSUME NEW d \in Devs, ProbeFails(d) PROVE Account(x)'
  BY <1>6 DEF ProbeFails
<1>7. ASSUME NEW d \in Devs, ProbeWake(d) PROVE Account(x)'
  BY <1>7 DEF ProbeWake
<1>8. ASSUME NEW d \in Devs, ProbeSleep(d) PROVE Account(x)'
  BY <1>8 DEF ProbeSleep
<1>9. ASSUME NEW d \in Devs, StartRemove(d) PROVE Account(x)'
  BY <1>9 DEF StartRemove
<1>10. ASSUME NEW d \in Devs, RemoveDone(d) PROVE Account(x)'
  <2>1. CASE x = d
    BY <1>10, <2>1, FilesBound DEF RemoveDone, LastPut
  <2>2. CASE x # d
    BY <1>10, <2>2 DEF RemoveDone, LastPut
  <2>. QED BY <2>1, <2>2
<1>11. ASSUME NEW d \in Devs, StartOpen(d) PROVE Account(x)'
  BY <1>11 DEF StartOpen
<1>12. ASSUME NEW d \in Devs, PinModule(d) PROVE Account(x)'
  BY <1>12 DEF PinModule
<1>13. ASSUME NEW d \in Devs, OpenRefused(d) PROVE Account(x)'
  BY <1>13 DEF OpenRefused
<1>14. ASSUME NEW d \in Devs, OpenAgain(d) PROVE Account(x)'
  BY <1>14 DEF OpenAgain
<1>15. ASSUME NEW d \in Devs, OpenFirst(d) PROVE Account(x)'
  BY <1>15 DEF OpenFirst
<1>16. ASSUME NEW d \in Devs, EnableDevice(d) PROVE Account(x)'
  BY <1>16 DEF EnableDevice
<1>17. ASSUME NEW d \in Devs, EnableDeviceFails(d) PROVE Account(x)'
  BY <1>17 DEF EnableDeviceFails
<1>18. ASSUME NEW d \in Devs, EnableReset(d) PROVE Account(x)'
  BY <1>18 DEF EnableReset
<1>19. ASSUME NEW d \in Devs, OpenDone(d) PROVE Account(x)'
  BY <1>19 DEF OpenDone
<1>20. ASSUME NEW d \in Devs, EnableConfigFails(d) PROVE Account(x)'
  BY <1>20 DEF EnableConfigFails
<1>21. ASSUME NEW d \in Devs, EnableIgdFails(d) PROVE Account(x)'
  BY <1>21 DEF EnableIgdFails
<1>22. ASSUME NEW d \in Devs, OpenError(d) PROVE Account(x)'
  BY <1>22 DEF OpenError
<1>23. ASSUME NEW d \in Devs, StartRelease(d) PROVE Account(x)'
  BY <1>23 DEF StartRelease
<1>24. ASSUME NEW d \in Devs, ReleaseOne(d) PROVE Account(x)'
  BY <1>24 DEF ReleaseOne
<1>25. ASSUME NEW d \in Devs, ReleaseLast(d) PROVE Account(x)'
  BY <1>25 DEF ReleaseLast
<1>26. ASSUME NEW d \in Devs, DisableMark(d) PROVE Account(x)'
  BY <1>26 DEF DisableMark
<1>27. ASSUME NEW d \in Devs, DisableReset(d) PROVE Account(x)'
  BY <1>27 DEF DisableReset
<1>28. ASSUME NEW d \in Devs, DisableSleep(d) PROVE Account(x)'
  BY <1>28 DEF DisableSleep
<1>29. ASSUME NEW d \in Devs, Released(d) PROVE Account(x)'
  BY <1>29 DEF Released
<1>30. ASSUME NEW d \in Devs, BusSkip(d) PROVE Account(x)'
  BY <1>30 DEF BusSkip
<1>31. ASSUME NEW d \in Devs, BusStart(d) PROVE Account(x)'
  BY <1>31 DEF BusStart
<1>32. ASSUME NEW d \in Devs, NEW e \in Devs, BusGet(d, e) PROVE Account(x)'
  <2>1. CASE x = e
    BY <1>32, <2>1, FilesBound DEF BusGet, TakeReference
  <2>2. CASE x # e
    BY <1>32, <2>2 DEF BusGet, TakeReference
  <2>. QED BY <2>1, <2>2
<1>33. ASSUME NEW d \in Devs, NEW e \in Devs, BusGetFails(d, e)
      PROVE Account(x)'
  BY <1>33 DEF BusGetFails
<1>34. ASSUME NEW d \in Devs, BusReset(d) PROVE Account(x)'
  BY <1>34 DEF BusReset
<1>35. ASSUME NEW d \in Devs, BusNoReset(d) PROVE Account(x)'
  BY <1>35 DEF BusNoReset
<1>36. ASSUME NEW d \in Devs, NEW e \in Devs, BusPut(d, e) PROVE Account(x)'
  BY <1>36 DEF BusPut
<1>37. ASSUME NEW d \in Devs, BusDone(d) PROVE Account(x)'
  BY <1>37 DEF BusDone
<1>38. ASSUME NEW d \in Devs, UserWorks(d) PROVE Account(x)'
  BY <1>38 DEF UserWorks
<1>39. ASSUME NEW d \in Devs, UserReset(d) PROVE Account(x)'
  BY <1>39 DEF UserReset
<1>40. CASE UNCHANGED vars
  BY <1>40 DEF vars
<1>. QED
  BY <1>1, <1>2, <1>3, <1>4, <1>5, <1>6, <1>7, <1>8, <1>9, <1>10, <1>11,
     <1>12, <1>13, <1>14, <1>15, <1>16, <1>17, <1>18, <1>19, <1>20, <1>21,
     <1>22, <1>23, <1>24, <1>25, <1>26, <1>27, <1>28, <1>29, <1>30, <1>31,
     <1>32, <1>33, <1>34, <1>35, <1>36, <1>37, <1>38, <1>39, <1>40
     DEF Next, Module, Admin, AdminStep, User, EnterStep, LockStep,
         EnableStep, DisableStep, BusStep, DriverStep

(* So is who holds driver_lock. *)
LEMMA HolderStep == CountInv /\ [Next]_vars => LockHolder'
<1>. SUFFICES ASSUME CountInv, [Next]_vars PROVE LockHolder'
  OBVIOUS
<1>0. /\ refcnt \in [Devs -> Nat] /\ releasing \in [Devs -> Nat]
      /\ Nobody \notin Devs /\ LockHolder
      /\ driver_lock \in Devs \union {Nobody}
  BY LifecycleAssumption DEF CountInv, TypeOK
<1>. USE <1>0 DEF LockHolder, Go, GoAdmin, Set, vdevVars, threadVars
<1>1. CASE ModuleInit
  BY <1>1 DEF ModuleInit
<1>2. CASE StartCleanup
  BY <1>2 DEF StartCleanup
<1>3. CASE CleanupDone
  BY <1>3 DEF CleanupDone
<1>4. ASSUME NEW d \in Devs, StartProbe(d) PROVE LockHolder'
  BY <1>4 DEF StartProbe
<1>5. ASSUME NEW d \in Devs, ProbeAdd(d) PROVE LockHolder'
  BY <1>5 DEF ProbeAdd
<1>6. ASSUME NEW d \in Devs, ProbeFails(d) PROVE LockHolder'
  BY <1>6 DEF ProbeFails
<1>7. ASSUME NEW d \in Devs, ProbeWake(d) PROVE LockHolder'
  BY <1>7 DEF ProbeWake
<1>8. ASSUME NEW d \in Devs, ProbeSleep(d) PROVE LockHolder'
  BY <1>8 DEF ProbeSleep
<1>9. ASSUME NEW d \in Devs, StartRemove(d) PROVE LockHolder'
  BY <1>9 DEF StartRemove
<1>10. ASSUME NEW d \in Devs, RemoveDone(d) PROVE LockHolder'
  BY <1>10 DEF RemoveDone
<1>11. ASSUME NEW d \in Devs, StartOpen(d) PROVE LockHolder'
  BY <1>11 DEF StartOpen
<1>12. ASSUME NEW d \in Devs, PinModule(d) PROVE LockHolder'
  BY <1>12 DEF PinModule
<1>13. ASSUME NEW d \in Devs, OpenRefused(d) PROVE LockHolder'
  BY <1>13 DEF OpenRefused
<1>14. ASSUME NEW d \in Devs, OpenAgain(d) PROVE LockHolder'
  BY <1>14 DEF OpenAgain
<1>15. ASSUME NEW d \in Devs, OpenFirst(d) PROVE LockHolder'
  BY <1>15 DEF OpenFirst
<1>16. ASSUME NEW d \in Devs, EnableDevice(d) PROVE LockHolder'
  BY <1>16 DEF EnableDevice
<1>17. ASSUME NEW d \in Devs, EnableDeviceFails(d) PROVE LockHolder'
  BY <1>17 DEF EnableDeviceFails
<1>18. ASSUME NEW d \in Devs, EnableReset(d) PROVE LockHolder'
  BY <1>18 DEF EnableReset
<1>19. ASSUME NEW d \in Devs, OpenDone(d) PROVE LockHolder'
  BY <1>19 DEF OpenDone
<1>20. ASSUME NEW d \in Devs, EnableConfigFails(d) PROVE LockHolder'
  BY <1>20 DEF EnableConfigFails
<1>21. ASSUME NEW d \in Devs, EnableIgdFails(d) PROVE LockHolder'
  BY <1>21 DEF EnableIgdFails
<1>22. ASSUME NEW d \in Devs, OpenError(d) PROVE LockHolder'
  BY <1>22 DEF OpenError
<1>23. ASSUME NEW d \in Devs, StartRelease(d) PROVE LockHolder'
  BY <1>23 DEF StartRelease
<1>24. ASSUME NEW d \in Devs, ReleaseOne(d) PROVE LockHolder'
  BY <1>24 DEF ReleaseOne
<1>25. ASSUME NEW d \in Devs, ReleaseLast(d) PROVE LockHolder'
  BY <1>25 DEF ReleaseLast
<1>26. ASSUME NEW d \in Devs, DisableMark(d) PROVE LockHolder'
  BY <1>26 DEF DisableMark
<1>27. ASSUME NEW d \in Devs, DisableReset(d) PROVE LockHolder'
  BY <1>27 DEF DisableReset
<1>28. ASSUME NEW d \in Devs, DisableSleep(d) PROVE LockHolder'
  BY <1>28 DEF DisableSleep
<1>29. ASSUME NEW d \in Devs, Released(d) PROVE LockHolder'
  BY <1>29 DEF Released
<1>30. ASSUME NEW d \in Devs, BusSkip(d) PROVE LockHolder'
  BY <1>30 DEF BusSkip
<1>31. ASSUME NEW d \in Devs, BusStart(d) PROVE LockHolder'
  BY <1>31 DEF BusStart
<1>32. ASSUME NEW d \in Devs, NEW e \in Devs, BusGet(d, e) PROVE LockHolder'
  BY <1>32 DEF BusGet
<1>33. ASSUME NEW d \in Devs, NEW e \in Devs, BusGetFails(d, e)
      PROVE LockHolder'
  BY <1>33 DEF BusGetFails
<1>34. ASSUME NEW d \in Devs, BusReset(d) PROVE LockHolder'
  BY <1>34 DEF BusReset
<1>35. ASSUME NEW d \in Devs, BusNoReset(d) PROVE LockHolder'
  BY <1>35 DEF BusNoReset
<1>36. ASSUME NEW d \in Devs, NEW e \in Devs, BusPut(d, e) PROVE LockHolder'
  BY <1>36 DEF BusPut
<1>37. ASSUME NEW d \in Devs, BusDone(d) PROVE LockHolder'
  BY <1>37 DEF BusDone
<1>38. ASSUME NEW d \in Devs, UserWorks(d) PROVE LockHolder'
  BY <1>38 DEF UserWorks
<1>39. ASSUME NEW d \in Devs, UserReset(d) PROVE LockHolder'
  BY <1>39 DEF UserReset
<1>40. CASE UNCHANGED vars
  BY <1>40 DEF vars
<1>. QED
  BY <1>1, <1>2, <1>3, <1>4, <1>5, <1>6, <1>7, <1>8, <1>9, <1>10, <1>11,
     <1>12, <1>13, <1>14, <1>15, <1>16, <1>17, <1>18, <1>19, <1>20, <1>21,
     <1>22, <1>23, <1>24, <1>25, <1>26, <1>27, <1>28, <1>29, <1>30, <1>31,
     <1>32, <1>33, <1>34, <1>35, <1>36, <1>37, <1>38, <1>39, <1>40
     DEF Next, Module, Admin, AdminStep, User, EnterStep, LockStep,
         EnableStep, DisableStep, BusStep, DriverStep

(* No step takes a variable out of its values. *)
LEMMA TypeStep == CountInv /\ Accounting' /\ [Next]_vars => TypeOK'
<1>. SUFFICES ASSUME CountInv, Accounting', [Next]_vars PROVE TypeOK'
  OBVIOUS
<1>0. modrefs' \in Nat
  BY PinStep
<1>. USE LifecycleAssumption, <1>0
     DEF CountInv, TypeOK, Go, GoAdmin, Set, Get, Put, pciVars, vdevVars,
         modVars, waitVars, threadVars
<1>1. CASE ModuleInit
  BY <1>1 DEF ModuleInit
<1>2. CASE StartCleanup
  BY <1>2 DEF StartCleanup
<1>3. CASE CleanupDone
  BY <1>3 DEF CleanupDone
<1>4. ASSUME NEW d \in Devs, StartProbe(d) PROVE TypeOK'
  BY <1>4 DEF StartProbe
<1>5. ASSUME NEW d \in Devs, ProbeAdd(d) PROVE TypeOK'
  BY <1>5 DEF ProbeAdd
<1>6. ASSUME NEW d \in Devs, ProbeFails(d) PROVE TypeOK'
  BY <1>6 DEF ProbeFails
<1>7. ASSUME NEW d \in Devs, ProbeWake(d) PROVE TypeOK'
  BY <1>7 DEF ProbeWake
<1>8. ASSUME NEW d \in Devs, ProbeSleep(d) PROVE TypeOK'
  BY <1>8 DEF ProbeSleep
<1>9. ASSUME NEW d \in Devs, StartRemove(d) PROVE TypeOK'
  <2>1. refs[d] - 1 \in Nat
    BY <1>9, FilesBound DEF StartRemove
  <2>. QED BY <1>9, <2>1 DEF StartRemove
<1>10. ASSUME NEW d \in Devs, RemoveDone(d) PROVE TypeOK'
  BY <1>10 DEF RemoveDone
<1>11. ASSUME NEW d \in Devs, StartOpen(d) PROVE TypeOK'
  <2>1. entering[d] + 1 \in 0..MaxOpens
    BY <1>11, FilesBound DEF StartOpen
  <2>. QED BY <1>11, <2>1 DEF StartOpen
<1>12. ASSUME NEW d \in Devs, PinModule(d) PROVE TypeOK'
  <2>1. opening[d] + 1 \in 0..MaxOpens
    BY <1>12, FilesBound DEF PinModule
  <2>. QED BY <1>12, <2>1 DEF PinModule
<1>13. ASSUME NEW d \in Devs, OpenRefused(d) PROVE TypeOK'
  <2>1. refs[d] - 1 \in Nat
    BY <1>13, FilesBound DEF OpenRefused
  <2>. QED BY <1>13, <2>1 DEF OpenRefused
<1>14. ASSUME NEW d \in Devs, OpenAgain(d) PROVE TypeOK'
  <2>1. refcnt[d] + 1 \in 0..MaxOpens
    BY <1>14, FilesBound DEF OpenAgain
  <2>. QED BY <1>14, <2>1 DEF OpenAgain
<1>15. ASSUME NEW d \in Devs, OpenFirst(d) PROVE TypeOK'
  BY <1>15 DEF OpenFirst
<1>16. ASSUME NEW d \in Devs, EnableDevice(d) PROVE TypeOK'
  BY <1>16 DEF EnableDevice
<1>17. ASSUME NEW d \in Devs, EnableDeviceFails(d) PROVE TypeOK'
  BY <1>17 DEF EnableDeviceFails
<1>18. ASSUME NEW d \in Devs, EnableReset(d) PROVE TypeOK'
  BY <1>18 DEF EnableReset
<1>19. ASSUME NEW d \in Devs, OpenDone(d) PROVE TypeOK'
  BY <1>19 DEF OpenDone
<1>20. ASSUME NEW d \in Devs, EnableConfigFails(d) PROVE TypeOK'
  BY <1>20 DEF EnableConfigFails
<1>21. ASSUME NEW d \in Devs, EnableIgdFails(d) PROVE TypeOK'
  BY <1>21 DEF EnableIgdFails
<1>22. ASSUME NEW d \in Devs, OpenError(d) PROVE TypeOK'
  <2>1. refs[d] - 1 \in Nat
    BY <1>22, FilesBound DEF OpenError
  <2>. QED BY <1>22, <2>1 DEF OpenError
<1>23. ASSUME NEW d \in Devs, StartRelease(d) PROVE TypeOK'
  BY <1>23 DEF StartRelease
<1>24. ASSUME NEW d \in Devs, ReleaseOne(d) PROVE TypeOK'
  <2>1. refs[d] - 1 \in Nat
    BY <1>24, FilesBound DEF ReleaseOne
  <2>. QED BY <1>24, <2>1 DEF ReleaseOne
<1>25. ASSUME NEW d \in Devs, ReleaseLast(d) PROVE TypeOK'
  BY <1>25 DEF ReleaseLast
<1>26. ASSUME NEW d \in Devs, DisableMark(d) PROVE TypeOK'
  BY <1>26 DEF DisableMark
<1>27. ASSUME NEW d \in Devs, DisableReset(d) PROVE TypeOK'
  BY <1>27 DEF DisableReset
<1>28. ASSUME NEW d \in Devs, DisableSleep(d) PROVE TypeOK'
  BY <1>28 DEF DisableSleep, Asleep
<1>29. ASSUME NEW d \in Devs, Released(d) PROVE TypeOK'
  <2>1. refs[d] - 1 \in Nat
    BY <1>29, FilesBound DEF Released
  <2>. QED BY <1>29, <2>1 DEF Released
<1>30. ASSUME NEW d \in Devs, BusSkip(d) PROVE TypeOK'
  BY <1>30 DEF BusSkip
<1>31. ASSUME NEW d \in Devs, BusStart(d) PROVE TypeOK'
  BY <1>31 DEF BusStart
<1>32. ASSUME NEW d \in Devs, NEW e \in Devs, BusGet(d, e) PROVE TypeOK'
  BY <1>32 DEF BusGet, TakeReference
<1>33. ASSUME NEW d \in Devs, NEW e \in Devs, BusGetFails(d, e)
      PROVE TypeOK'
  BY <1>33 DEF BusGetFails
<1>34. ASSUME NEW d \in Devs, BusReset(d) PROVE TypeOK'
  BY <1>34 DEF BusReset
<1>35. ASSUME NEW d \in Devs, BusNoReset(d) PROVE TypeOK'
  BY <1>35 DEF BusNoReset
<1>36. ASSUME NEW d \in Devs, NEW e \in Devs, BusPut(d, e) PROVE TypeOK'
  <2>1. refs[e] - 1 \in Nat
    BY <1>36, FilesBound DEF BusPut
  <2>. QED BY <1>36, <2>1 DEF BusPut, SleepUnused
<1>37. ASSUME NEW d \in Devs, BusDone(d) PROVE TypeOK'
  BY <1>37 DEF BusDone
<1>38. ASSUME NEW d \in Devs, UserWorks(d) PROVE TypeOK'
  BY <1>38 DEF UserWorks
<1>39. ASSUME NEW d \in Devs, UserReset(d) PROVE TypeOK'
  BY <1>39 DEF UserReset
<1>40. CASE UNCHANGED vars
  BY <1>40 DEF vars
<1>. QED
  BY <1>1, <1>2, <1>3, <1>4, <1>5, <1>6, <1>7, <1>8, <1>9, <1>10, <1>11,
     <1>12, <1>13, <1>14, <1>15, <1>16, <1>17, <1>18, <1>19, <1>20, <1>21,
     <1>22, <1>23, <1>24, <1>25, <1>26, <1>27, <1>28, <1>29, <1>30, <1>31,
     <1>32, <1>33, <1>34, <1>35, <1>36, <1>37, <1>38, <1>39, <1>40
     DEF Next, Module, Admin, AdminStep, User, EnterStep, LockStep,
         EnableStep, DisableStep, BusStep, DriverStep

(* The inductive invariant: the types, who holds driver_lock, the accounts *)
(* of references and files, and the pins on the module.                    *)
THEOREM CountCorrect == Spec => []CountInv
<1>1. Init => CountInv
  <2>. SUFFICES ASSUME Init PROVE CountInv
    OBVIOUS
  <2>. USE LifecycleAssumption DEF Init
  <2>1. TypeOK
    <3>1. 0 \in 0..MaxOpens /\ 0 \in Nat
      OBVIOUS
    <3>. QED BY <3>1 DEF TypeOK
  <2>2. LockHolder
    BY DEF LockHolder
  <2>3. Accounting
    BY DEF Accounting, Account, Registered, Held, Files
  <2>4. ModulePinned
    <3>1. Pins = {}
      BY DEF Pins, Files
    <3>. QED BY <3>1, FS_EmptySet DEF ModulePinned
  <2>. QED BY <2>1, <2>2, <2>3, <2>4 DEF CountInv
<1>2. CountInv /\ [Next]_vars => CountInv'
  <2>1. CountInv /\ [Next]_vars => Accounting'
    BY AccountStep DEF Accounting
  <2>. QED BY <2>1, PinStep, HolderStep, TypeStep DEF CountInv
<1>. QED BY <1>1, <1>2, PTL DEF Spec

(* Every variable keeps to its values; no count of references or opens     *)
(* goes below zero.                                                        *)
THEOREM TypeCorrect == Spec => []TypeOK
<1>1. CountInv => TypeOK
  BY DEF CountInv
<1>. QED BY <1>1, CountCorrect, PTL

(* The module is pinned once per open file, and by nothing else.           *)
THEOREM ModuleIsPinned == Spec => []ModulePinned
<1>1. CountInv => ModulePinned
  BY DEF CountInv
<1>. QED BY <1>1, CountCorrect, PTL

(* vdev is not freed under an open, a release or a bus reset, and the      *)
(* module is not unloaded while it has devices.                            *)
THEOREM VdevIsSafe == Spec => []VdevOutlivesUse
<1>1. CountInv => VdevOutlivesUse
  <2>. SUFFICES ASSUME CountInv, NEW d \in Devs
                PROVE  /\ Files(d) + entering[d] > 0 \/ d \in devs
                            => /\ refs[d] > 0
                               /\ admin[d] \notin {"unbound", "probe"}
                       /\ driver = "absent" => admin[d] = "unbound"
    BY DEF VdevOutlivesUse
  <2>1. refs[d] \in Nat
    BY DEF CountInv, TypeOK
  <2>2. driver = "absent" => admin[d] = "unbound"
    BY DEF CountInv, Accounting, Account
  <2>3. Files(d) + entering[d] > 0 \/ d \in devs => refs[d] # 0
    BY FilesBound
  <2>. QED BY <2>1, <2>2, <2>3, FilesBound
<1>. QED BY <1>1, CountCorrect, PTL

-----------------------------------------------------------------------------
(* What a user left in a device is remembered from the moment that         *)
(* vfio_pci_disable is past its first lines, whoever holds driver_lock; a  *)
(* bus reset that worked has left nothing in any device.                   *)
DirtyInv ==
  /\ \A d \in Devs : dirty[d] /\ refcnt[d] = 0
                     /\ ~(driver_lock = d /\ pc = "disable") => needs_reset[d]
  /\ ret => \A d \in Devs : refcnt[d] = 0 /\ ~dirty[d]

(* Only vfio_pci_disable, a reset that cleans the device and the probe     *)
(* that starts afresh touch what is remembered.                            *)
LEMMA DirtyStep == CountInv /\ DirtyInv /\ [Next]_vars => DirtyInv'
<1>. SUFFICES ASSUME CountInv, DirtyInv, [Next]_vars PROVE DirtyInv'
  OBVIOUS
<1>0. /\ dirty \in [Devs -> BOOLEAN] /\ needs_reset \in [Devs -> BOOLEAN]
      /\ refcnt \in [Devs -> Nat] /\ releasing \in [Devs -> Nat]
      /\ Nobody \notin Devs /\ LockHolder /\ ret \in BOOLEAN
      /\ driver_lock \in Devs \union {Nobody}
  BY LifecycleAssumption DEF CountInv, TypeOK
<1>. USE <1>0 DEF DirtyInv, LockHolder, Go, GoAdmin, Set, pciVars, vdevVars,
                  threadVars
<1>1. CASE ModuleInit
  BY <1>1 DEF ModuleInit
<1>2. CASE StartCleanup
  BY <1>2 DEF StartCleanup
<1>3. CASE CleanupDone
  BY <1>3 DEF CleanupDone
<1>4. ASSUME NEW d \in Devs, StartProbe(d) PROVE DirtyInv'
  BY <1>4 DEF StartProbe
<1>5. ASSUME NEW d \in Devs, ProbeAdd(d) PROVE DirtyInv'
  BY <1>5 DEF ProbeAdd
<1>6. ASSUME NEW d \in Devs, ProbeFails(d) PROVE DirtyInv'
  BY <1>6 DEF ProbeFails
<1>7. ASSUME NEW d \in Devs, ProbeWake(d) PROVE DirtyInv'
  BY <1>7 DEF ProbeWake
<1>8. ASSUME NEW d \in Devs, ProbeSleep(d) PROVE DirtyInv'
  BY <1>8 DEF ProbeSleep
<1>9. ASSUME NEW d \in Devs, StartRemove(d) PROVE DirtyInv'
  BY <1>9 DEF StartRemove
<1>10. ASSUME NEW d \in Devs, RemoveDone(d) PROVE DirtyInv'
  BY <1>10 DEF RemoveDone
<1>11. ASSUME NEW d \in Devs, StartOpen(d) PROVE DirtyInv'
  BY <1>11 DEF StartOpen
<1>12. ASSUME NEW d \in Devs, PinModule(d) PROVE DirtyInv'
  BY <1>12 DEF PinModule
<1>13. ASSUME NEW d \in Devs, OpenRefused(d) PROVE DirtyInv'
  BY <1>13 DEF OpenRefused
<1>14. ASSUME NEW d \in Devs, OpenAgain(d) PROVE DirtyInv'
  BY <1>14 DEF OpenAgain
<1>15. ASSUME NEW d \in Devs, OpenFirst(d) PROVE DirtyInv'
  BY <1>15 DEF OpenFirst
<1>16. ASSUME NEW d \in Devs, EnableDevice(d) PROVE DirtyInv'
  BY <1>16 DEF EnableDevice
<1>17. ASSUME NEW d \in Devs, EnableDeviceFails(d) PROVE DirtyInv'
  BY <1>17 DEF EnableDeviceFails
<1>18. ASSUME NEW d \in Devs, EnableReset(d) PROVE DirtyInv'
  BY <1>18 DEF EnableReset
<1>19. ASSUME NEW d \in Devs, OpenDone(d) PROVE DirtyInv'
  BY <1>19 DEF OpenDone
<1>20. ASSUME NEW d \in Devs, EnableConfigFails(d) PROVE DirtyInv'
  BY <1>20 DEF EnableConfigFails
<1>21. ASSUME NEW d \in Devs, EnableIgdFails(d) PROVE DirtyInv'
  BY <1>21 DEF EnableIgdFails
<1>22. ASSUME NEW d \in Devs, OpenError(d) PROVE DirtyInv'
  BY <1>22 DEF OpenError
<1>23. ASSUME NEW d \in Devs, StartRelease(d) PROVE DirtyInv'
  BY <1>23 DEF StartRelease
<1>24. ASSUME NEW d \in Devs, ReleaseOne(d) PROVE DirtyInv'
  BY <1>24 DEF ReleaseOne
<1>25. ASSUME NEW d \in Devs, ReleaseLast(d) PROVE DirtyInv'
  BY <1>25 DEF ReleaseLast
<1>26. ASSUME NEW d \in Devs, DisableMark(d) PROVE DirtyInv'
  BY <1>26 DEF DisableMark
<1>27. ASSUME NEW d \in Devs, DisableReset(d) PROVE DirtyInv'
  BY <1>27 DEF DisableReset, FunctionReset
<1>28. ASSUME NEW d \in Devs, DisableSleep(d) PROVE DirtyInv'
  BY <1>28 DEF DisableSleep
<1>29. ASSUME NEW d \in Devs, Released(d) PROVE DirtyInv'
  BY <1>29 DEF Released
<1>30. ASSUME NEW d \in Devs, BusSkip(d) PROVE DirtyInv'
  BY <1>30 DEF BusSkip
<1>31. ASSUME NEW d \in Devs, BusStart(d) PROVE DirtyInv'
  BY <1>31 DEF BusStart
<1>32. ASSUME NEW d \in Devs, NEW e \in Devs, BusGet(d, e) PROVE DirtyInv'
  BY <1>32 DEF BusGet
<1>33. ASSUME NEW d \in Devs, NEW e \in Devs, BusGetFails(d, e)
      PROVE DirtyInv'
  BY <1>33 DEF BusGetFails
<1>34. ASSUME NEW d \in Devs, BusReset(d) PROVE DirtyInv'
  BY <1>34 DEF BusReset, AllUnused
<1>35. ASSUME NEW d \in Devs, BusNoReset(d) PROVE DirtyInv'
  BY <1>35 DEF BusNoReset
<1>36. ASSUME NEW d \in Devs, NEW e \in Devs, BusPut(d, e) PROVE DirtyInv'
  BY <1>36 DEF BusPut
<1>37. ASSUME NEW d \in Devs, BusDone(d) PROVE DirtyInv'
  BY <1>37 DEF BusDone
<1>38. ASSUME NEW d \in Devs, UserWorks(d) PROVE DirtyInv'
  BY <1>38 DEF UserWorks
<1>39. ASSUME NEW d \in Devs, UserReset(d) PROVE DirtyInv'
  BY <1>39 DEF UserReset
<1>40. CASE UNCHANGED vars
  BY <1>40 DEF vars
<1>. QED
  BY <1>1, <1>2, <1>3, <1>4, <1>5, <1>6, <1>7, <1>8, <1>9, <1>10, <1>11,
     <1>12, <1>13, <1>14, <1>15, <1>16, <1>17, <1>18, <1>19, <1>20, <1>21,
     <1>22, <1>23, <1>24, <1>25, <1>26, <1>27, <1>28, <1>29, <1>30, <1>31,
     <1>32, <1>33, <1>34, <1>35, <1>36, <1>37, <1>38, <1>39, <1>40
     DEF Next, Module, Admin, AdminStep, User, EnterStep, LockStep,
         EnableStep, DisableStep, BusStep, DriverStep

(* A device a user has left dirty stays marked until a reset has cleaned it. *)
THEOREM DirtIsRemembered == Spec => []DirtyIsRemembered
<1>1. Init => DirtyInv
  BY DEF Init, DirtyInv
<1>2. CountInv /\ DirtyInv => DirtyIsRemembered
  BY LifecycleAssumption DEF DirtyInv, DirtyIsRemembered
<1>. QED BY <1>1, <1>2, DirtyStep, CountCorrect, PTL DEF Spec

-----------------------------------------------------------------------------
(* The device is enabled from pci_enable_device of the first open to       *)
(* pci_disable_device of the last release, or of the open that fails.      *)
EnabledInv ==
  \A d \in Devs :
    enabled[d] <=> \/ refcnt[d] > 0
                   \/ driver_lock = d /\ pc \in {"enable_reset",
                        "enable_config", "disable", "disable_reset"}

(* Every way into and out of an open, or a release, keeps them together.   *)
LEMMA EnabledStep == CountInv /\ EnabledInv /\ [Next]_vars => EnabledInv'
<1>. SUFFICES ASSUME CountInv, EnabledInv, [Next]_vars PROVE EnabledInv'
  OBVIOUS
<1>0. /\ enabled \in [Devs -> BOOLEAN]
      /\ refcnt \in [Devs -> Nat] /\ releasing \in [Devs -> Nat]
      /\ Nobody \notin Devs /\ LockHolder
      /\ driver_lock \in Devs \union {Nobody}
  BY LifecycleAssumption DEF CountInv, TypeOK
<1>. USE <1>0 DEF EnabledInv, LockHolder, Go, GoAdmin, Set, pciVars, vdevVars,
                  threadVars
<1>1. CASE ModuleInit
  BY <1>1 DEF ModuleInit
<1>2. CASE StartCleanup
  BY <1>2 DEF StartCleanup
<1>3. CASE CleanupDone
  BY <1>3 DEF CleanupDone
<1>4. ASSUME NEW d \in Devs, StartProbe(d) PROVE EnabledInv'
  BY <1>4 DEF StartProbe
<1>5. ASSUME NEW d \in Devs, ProbeAdd(d) PROVE EnabledInv'
  <2>1. refcnt[d] = 0
    BY <1>5, FilesBound DEF ProbeAdd
  <2>. QED BY <1>5, <2>1 DEF ProbeAdd
<1>6. ASSUME NEW d \in Devs, ProbeFails(d) PROVE EnabledInv'
  BY <1>6 DEF ProbeFails
<1>7. ASSUME NEW d \in Devs, ProbeWake(d) PROVE EnabledInv'
  BY <1>7 DEF ProbeWake
<1>8. ASSUME NEW d \in Devs, ProbeSleep(d) PROVE EnabledInv'
  BY <1>8 DEF ProbeSleep
<1>9. ASSUME NEW d \in Devs, StartRemove(d) PROVE EnabledInv'
  BY <1>9 DEF StartRemove
<1>10. ASSUME NEW d \in Devs, RemoveDone(d) PROVE EnabledInv'
  BY <1>10 DEF RemoveDone
<1>11. ASSUME NEW d \in Devs, StartOpen(d) PROVE EnabledInv'
  BY <1>11 DEF StartOpen
<1>12. ASSUME NEW d \in Devs, PinModule(d) PROVE EnabledInv'
  BY <1>12 DEF PinModule
<1>13. ASSUME NEW d \in Devs, OpenRefused(d) PROVE EnabledInv'
  BY <1>13 DEF OpenRefused
<1>14. ASSUME NEW d \in Devs, OpenAgain(d) PROVE EnabledInv'
  BY <1>14 DEF OpenAgain
<1>15. ASSUME NEW d \in Devs, OpenFirst(d) PROVE EnabledInv'
  BY <1>15 DEF OpenFirst
<1>16. ASSUME NEW d \in Devs, EnableDevice(d) PROVE EnabledInv'
  BY <1>16 DEF EnableDevice
<1>17. ASSUME NEW d \in Devs, EnableDeviceFails(d) PROVE EnabledInv'
  BY <1>17 DEF EnableDeviceFails
<1>18. ASSUME NEW d \in Devs, EnableReset(d) PROVE EnabledInv'
  BY <1>18 DEF EnableReset
<1>19. ASSUME NEW d \in Devs, OpenDone(d) PROVE EnabledInv'
  BY <1>19 DEF OpenDone
<1>20. ASSUME NEW d \in Devs, EnableConfigFails(d) PROVE EnabledInv'
  BY <1>20 DEF EnableConfigFails
<1>21. ASSUME NEW d \in Devs, EnableIgdFails(d) PROVE EnabledInv'
  BY <1>21 DEF EnableIgdFails
<1>22. ASSUME NEW d \in Devs, OpenError(d) PROVE EnabledInv'
  BY <1>22 DEF OpenError
<1>23. ASSUME NEW d \in Devs, StartRelease(d) PROVE EnabledInv'
  BY <1>23 DEF StartRelease
<1>24. ASSUME NEW d \in Devs, ReleaseOne(d) PROVE EnabledInv'
  BY <1>24 DEF ReleaseOne
<1>25. ASSUME NEW d \in Devs, ReleaseLast(d) PROVE EnabledInv'
  BY <1>25 DEF ReleaseLast
<1>26. ASSUME NEW d \in Devs, DisableMark(d) PROVE EnabledInv'
  BY <1>26 DEF DisableMark
<1>27. ASSUME NEW d \in Devs, DisableReset(d) PROVE EnabledInv'
  BY <1>27 DEF DisableReset
<1>28. ASSUME NEW d \in Devs, DisableSleep(d) PROVE EnabledInv'
  BY <1>28 DEF DisableSleep
<1>29. ASSUME NEW d \in Devs, Released(d) PROVE EnabledInv'
  BY <1>29 DEF Released
<1>30. ASSUME NEW d \in Devs, BusSkip(d) PROVE EnabledInv'
  BY <1>30 DEF BusSkip
<1>31. ASSUME NEW d \in Devs, BusStart(d) PROVE EnabledInv'
  BY <1>31 DEF BusStart
<1>32. ASSUME NEW d \in Devs, NEW e \in Devs, BusGet(d, e) PROVE EnabledInv'
  BY <1>32 DEF BusGet
<1>33. ASSUME NEW d \in Devs, NEW e \in Devs, BusGetFails(d, e)
      PROVE EnabledInv'
  BY <1>33 DEF BusGetFails
<1>34. ASSUME NEW d \in Devs, BusReset(d) PROVE EnabledInv'
  BY <1>34 DEF BusReset
<1>35. ASSUME NEW d \in Devs, BusNoReset(d) PROVE EnabledInv'
  BY <1>35 DEF BusNoReset
<1>36. ASSUME NEW d \in Devs, NEW e \in Devs, BusPut(d, e) PROVE EnabledInv'
  BY <1>36 DEF BusPut
<1>37. ASSUME NEW d \in Devs, BusDone(d) PROVE EnabledInv'
  BY <1>37 DEF BusDone
<1>38. ASSUME NEW d \in Devs, UserWorks(d) PROVE EnabledInv'
  BY <1>38 DEF UserWorks
<1>39. ASSUME NEW d \in Devs, UserReset(d) PROVE EnabledInv'
  BY <1>39 DEF UserReset
<1>40. CASE UNCHANGED vars
  BY <1>40 DEF vars
<1>. QED
  BY <1>1, <1>2, <1>3, <1>4, <1>5, <1>6, <1>7, <1>8, <1>9, <1>10, <1>11,
     <1>12, <1>13, <1>14, <1>15, <1>16, <1>17, <1>18, <1>19, <1>20, <1>21,
     <1>22, <1>23, <1>24, <1>25, <1>26, <1>27, <1>28, <1>29, <1>30, <1>31,
     <1>32, <1>33, <1>34, <1>35, <1>36, <1>37, <1>38, <1>39, <1>40
     DEF Next, Module, Admin, AdminStep, User, EnterStep, LockStep,
         EnableStep, DisableStep, BusStep, DriverStep

(* An unbound device is not enabled. *)
LEMMA UnboundIsClosed ==
  ASSUME CountInv, EnabledInv, NEW d \in Devs, refs[d] = 0
  PROVE  ~enabled[d]
BY FilesBound, LifecycleAssumption DEF EnabledInv, CountInv, TypeOK

(* The devices of the driver keep the contract of DeviceUse: every step is *)
(* a step of the contract, or changes nothing that its users see.          *)
THEOREM KeepsContract == Spec => ContractSpec
<1>. USE DEF Contract!vars
<1>1. Init => Contract!Init /\ EnabledInv
  BY DEF Init, Contract!Init, EnabledInv
<1>2. CountInv /\ EnabledInv /\ [Next]_vars
        => [Contract!Next]_(Contract!vars)
  <2>. SUFFICES ASSUME CountInv, EnabledInv, [Next]_vars
                PROVE  Contract!Next \/ UNCHANGED Contract!vars
    OBVIOUS
  <2>0. /\ enabled \in [Devs -> BOOLEAN] /\ dirty \in [Devs -> BOOLEAN]
        /\ admin \in [Devs -> {"unbound", "probe", "added", "woken", "bound",
                               "removing"}]
        /\ refcnt \in [Devs -> Nat] /\ releasing \in [Devs -> Nat]
        /\ \A d \in Devs : releasing[d] <= refcnt[d]
        /\ LockHolder
    BY LifecycleAssumption
       DEF CountInv, TypeOK, Accounting, Account
  <2>. DEFINE bound == {d \in Devs : admin[d] \notin {"unbound", "probe"}}
              open  == {d \in Devs : enabled[d]}
              left  == {d \in Devs : dirty[d]}
  <2>1. ASSUME UNCHANGED <<bound, open, left>>
        PROVE  UNCHANGED Contract!vars
    BY <2>1
  <2>. USE <2>0 DEF Go, GoAdmin, Set, pciVars, vdevVars, threadVars
  <2>2. ASSUME NEW d \in Devs, ProbeAdd(d) PROVE Contract!Bind(d)
    BY <2>2 DEF ProbeAdd, Contract!Bind
  <2>3. ASSUME NEW d \in Devs, RemoveDone(d) PROVE Contract!Unbind(d)
    BY <2>3, UnboundIsClosed DEF RemoveDone, LastPut, Contract!Unbind
  <2>4. ASSUME NEW d \in Devs, EnableDevice(d) PROVE Contract!Open(d)
    <3>1. admin[d] \notin {"unbound", "probe"}
      BY <2>4, FilesBound DEF EnableDevice
    <3>2. ~enabled[d]
      BY <2>4 DEF EnableDevice, EnabledInv, LockHolder
    <3>. QED BY <2>4, <3>1, <3>2 DEF EnableDevice, Contract!Open
  <2>5. ASSUME NEW d \in Devs, EnableReset(d)
        PROVE  Contract!ResetOwn(d) \/ UNCHANGED Contract!vars
    BY <2>5 DEF EnableReset, Contract!ResetOwn, EnabledInv
  <2>6. ASSUME NEW d \in Devs, EnableConfigFails(d) PROVE Contract!Close(d)
    BY <2>6 DEF EnableConfigFails, Contract!Close, EnabledInv
  <2>7. ASSUME NEW d \in Devs, DisableReset(d) PROVE Contract!Close(d)
    BY <2>7 DEF DisableReset, Contract!Close, EnabledInv
  <2>8. ASSUME NEW d \in Devs, BusReset(d) PROVE Contract!ResetBus
    BY <2>8 DEF BusReset, AllUnused, Contract!ResetBus, EnabledInv, LockHolder
  <2>9. ASSUME NEW d \in Devs, UserWorks(d) PROVE Contract!Use(d)
    BY <2>9 DEF UserWorks, Contract!Use, EnabledInv
  <2>10. ASSUME NEW d \in Devs, UserReset(d) PROVE Contract!ResetOwn(d)
    BY <2>10 DEF UserReset, Contract!ResetOwn, EnabledInv
  <2>11. CASE Module \/ UNCHANGED vars
    BY <2>11 DEF Module, ModuleInit, StartCleanup, CleanupDone, vars
  <2>12. ASSUME NEW d \in Devs,
                Admin(d) \/ ProbeFails(d) \/ ProbeWake(d) \/ ProbeSleep(d)
         PROVE  UNCHANGED Contract!vars
    BY <2>12 DEF Admin, StartProbe, StartRemove, ProbeFails, ProbeWake,
                 ProbeSleep
  <2>13. ASSUME NEW d \in Devs,
                \/ StartOpen(d) \/ StartRelease(d) \/ EnterStep(d)
                \/ LockStep(d)
         PROVE  UNCHANGED Contract!vars
    BY <2>13 DEF StartOpen, StartRelease, EnterStep, PinModule, OpenRefused,
                 LockStep, OpenAgain, OpenFirst, ReleaseOne, ReleaseLast
  <2>14. ASSUME NEW d \in Devs,
                \/ EnableDeviceFails(d) \/ OpenDone(d) \/ EnableIgdFails(d)
                \/ OpenError(d) \/ DisableMark(d) \/ DisableSleep(d)
                \/ Released(d)
         PROVE  UNCHANGED Contract!vars
    BY <2>14 DEF EnableDeviceFails, OpenDone, EnableIgdFails, OpenError,
                 DisableMark, DisableSleep, Released
  <2>15. ASSUME NEW d \in Devs,
                \/ BusSkip(d) \/ BusStart(d) \/ BusNoReset(d) \/ BusDone(d)
                \/ \E e \in Devs : BusGet(d, e) \/ BusGetFails(d, e)
                                   \/ BusPut(d, e)
         PROVE  UNCHANGED Contract!vars
    BY <2>15 DEF BusSkip, BusStart, BusNoReset, BusDone, BusGet, BusGetFails,
                 BusPut
  <2>. QED
    BY <2>2, <2>3, <2>4, <2>5, <2>6, <2>7, <2>8, <2>9, <2>10, <2>11, <2>12,
       <2>13, <2>14, <2>15
       DEF Next, AdminStep, User, EnableStep, DisableStep, BusStep,
           DriverStep, Contract!Next
<1>. QED
  BY <1>1, <1>2, EnabledStep, CountCorrect, PTL
     DEF Spec, ContractSpec, Contract!Spec

-----------------------------------------------------------------------------
(* While nobody opens a device during its own bind or unbind, no file is   *)
(* there when probe puts the device to sleep, and an open keeps it awake.  *)
PowerInv ==
  \A d \in Devs :
    /\ admin[d] \in {"added", "woken"} => Files(d) + entering[d] = 0
    /\ refcnt[d] > 0 => power[d] = "D0"
    /\ driver_lock = d /\ pc \in {"enable", "enable_reset", "enable_config"}
         => power[d] = "D0"

(* One device at a time: what a step makes of its power and its files.     *)
LEMMA PowerStep ==
  ASSUME CarefulAdmin
  PROVE  CountInv /\ PowerInv /\ [Next]_vars => PowerInv'
<1>. SUFFICES ASSUME CountInv, PowerInv, [Next]_vars PROVE PowerInv'
  OBVIOUS
<1>0. /\ refs \in [Devs -> Nat] /\ refcnt \in [Devs -> Nat]
      /\ opening \in [Devs -> Nat] /\ entering \in [Devs -> Nat]
      /\ releasing \in [Devs -> Nat] /\ power \in [Devs -> {"D0", "D3"}]
      /\ admin \in [Devs -> {"unbound", "probe", "added", "woken", "bound",
                             "removing"}]
      /\ Nobody \notin Devs /\ LockHolder /\ CarefulAdmin
      /\ driver_lock \in Devs \union {Nobody}
  BY LifecycleAssumption DEF CountInv, TypeOK
<1>. USE <1>0 DEF PowerInv, LockHolder, Files, Go, GoAdmin, Set, pciVars,
                  vdevVars, waitVars, threadVars
<1>1. CASE ModuleInit
  BY <1>1 DEF ModuleInit
<1>2. CASE StartCleanup
  BY <1>2 DEF StartCleanup
<1>3. CASE CleanupDone
  BY <1>3 DEF CleanupDone
<1>4. ASSUME NEW d \in Devs, StartProbe(d) PROVE PowerInv'
  BY <1>4 DEF StartProbe
<1>5. ASSUME NEW d \in Devs, ProbeAdd(d) PROVE PowerInv'
  <2>1. refcnt[d] = 0 /\ opening[d] = 0 /\ entering[d] = 0 /\ driver_lock # d
    BY <1>5, FilesBound DEF ProbeAdd
  <2>. QED BY <1>5, <2>1 DEF ProbeAdd
<1>6. ASSUME NEW d \in Devs, ProbeFails(d) PROVE PowerInv'
  BY <1>6 DEF ProbeFails
<1>7. ASSUME NEW d \in Devs, ProbeWake(d) PROVE PowerInv'
  BY <1>7 DEF ProbeWake
<1>8. ASSUME NEW d \in Devs, ProbeSleep(d) PROVE PowerInv'
  BY <1>8 DEF ProbeSleep
<1>9. ASSUME NEW d \in Devs, StartRemove(d) PROVE PowerInv'
  BY <1>9 DEF StartRemove
<1>10. ASSUME NEW d \in Devs, RemoveDone(d) PROVE PowerInv'
  BY <1>10 DEF RemoveDone
<1>11. ASSUME NEW d \in Devs, StartOpen(d) PROVE PowerInv'
  BY <1>11 DEF StartOpen
<1>12. ASSUME NEW d \in Devs, PinModule(d) PROVE PowerInv'
  BY <1>12 DEF PinModule
<1>13. ASSUME NEW d \in Devs, OpenRefused(d) PROVE PowerInv'
  BY <1>13 DEF OpenRefused
<1>14. ASSUME NEW d \in Devs, OpenAgain(d) PROVE PowerInv'
  BY <1>14 DEF OpenAgain
<1>15. ASSUME NEW d \in Devs, OpenFirst(d) PROVE PowerInv'
  BY <1>15 DEF OpenFirst
<1>16. ASSUME NEW d \in Devs, EnableDevice(d) PROVE PowerInv'
  BY <1>16 DEF EnableDevice
<1>17. ASSUME NEW d \in Devs, EnableDeviceFails(d) PROVE PowerInv'
  BY <1>17 DEF EnableDeviceFails
<1>18. ASSUME NEW d \in Devs, EnableReset(d) PROVE PowerInv'
  BY <1>18 DEF EnableReset
<1>19. ASSUME NEW d \in Devs, OpenDone(d) PROVE PowerInv'
  BY <1>19 DEF OpenDone
<1>20. ASSUME NEW d \in Devs, EnableConfigFails(d) PROVE PowerInv'
  BY <1>20 DEF EnableConfigFails
<1>21. ASSUME NEW d \in Devs, EnableIgdFails(d) PROVE PowerInv'
  BY <1>21 DEF EnableIgdFails
<1>22. ASSUME NEW d \in Devs, OpenError(d) PROVE PowerInv'
  BY <1>22 DEF OpenError
<1>23. ASSUME NEW d \in Devs, StartRelease(d) PROVE PowerInv'
  BY <1>23 DEF StartRelease
<1>24. ASSUME NEW d \in Devs, ReleaseOne(d) PROVE PowerInv'
  BY <1>24 DEF ReleaseOne
<1>25. ASSUME NEW d \in Devs, ReleaseLast(d) PROVE PowerInv'
  BY <1>25 DEF ReleaseLast
<1>26. ASSUME NEW d \in Devs, DisableMark(d) PROVE PowerInv'
  BY <1>26 DEF DisableMark
<1>27. ASSUME NEW d \in Devs, DisableReset(d) PROVE PowerInv'
  BY <1>27 DEF DisableReset
<1>28. ASSUME NEW d \in Devs, DisableSleep(d) PROVE PowerInv'
  BY <1>28 DEF DisableSleep, Asleep
<1>29. ASSUME NEW d \in Devs, Released(d) PROVE PowerInv'
  BY <1>29 DEF Released
<1>30. ASSUME NEW d \in Devs, BusSkip(d) PROVE PowerInv'
  BY <1>30 DEF BusSkip
<1>31. ASSUME NEW d \in Devs, BusStart(d) PROVE PowerInv'
  BY <1>31 DEF BusStart
<1>32. ASSUME NEW d \in Devs, NEW e \in Devs, BusGet(d, e) PROVE PowerInv'
  BY <1>32 DEF BusGet
<1>33. ASSUME NEW d \in Devs, NEW e \in Devs, BusGetFails(d, e)
      PROVE PowerInv'
  BY <1>33 DEF BusGetFails
<1>34. ASSUME NEW d \in Devs, BusReset(d) PROVE PowerInv'
  BY <1>34 DEF BusReset
<1>35. ASSUME NEW d \in Devs, BusNoReset(d) PROVE PowerInv'
  BY <1>35 DEF BusNoReset
<1>36. ASSUME NEW d \in Devs, NEW e \in Devs, BusPut(d, e) PROVE PowerInv'
  BY <1>36 DEF BusPut, SleepUnused
<1>37. ASSUME NEW d \in Devs, BusDone(d) PROVE PowerInv'
  BY <1>37 DEF BusDone
<1>38. ASSUME NEW d \in Devs, UserWorks(d) PROVE PowerInv'
  BY <1>38 DEF UserWorks
<1>39. ASSUME NEW d \in Devs, UserReset(d) PROVE PowerInv'
  BY <1>39 DEF UserReset
<1>40. CASE UNCHANGED vars
  BY <1>40 DEF vars
<1>. QED
  BY <1>1, <1>2, <1>3, <1>4, <1>5, <1>6, <1>7, <1>8, <1>9, <1>10, <1>11,
     <1>12, <1>13, <1>14, <1>15, <1>16, <1>17, <1>18, <1>19, <1>20, <1>21,
     <1>22, <1>23, <1>24, <1>25, <1>26, <1>27, <1>28, <1>29, <1>30, <1>31,
     <1>32, <1>33, <1>34, <1>35, <1>36, <1>37, <1>38, <1>39, <1>40
     DEF Next, Module, Admin, AdminStep, User, EnterStep, LockStep,
         EnableStep, DisableStep, BusStep, DriverStep

(* A device in use has power. *)
THEOREM UsedDevicesHavePower ==
  ASSUME CarefulAdmin
  PROVE  Spec => []UsedDeviceHasPower
<1>1. Init => PowerInv
  BY LifecycleAssumption DEF Init, PowerInv, Files
<1>2. PowerInv => UsedDeviceHasPower
  BY DEF PowerInv, UsedDeviceHasPower
<1>. QED BY <1>1, <1>2, PowerStep, CountCorrect, PTL DEF Spec

(* A bound device that is awake has a file, is in the hands of the thread  *)
(* that holds driver_lock, or was woken by a bus reset that has not put it *)
(* back yet.                                                               *)
IdleInv ==
  \A d \in Devs :
    /\ admin[d] = "bound" /\ refcnt[d] = 0 /\ driver_lock # d
         /\ ~(ret /\ d \in devs) => power[d] = "D3"
    /\ admin[d] = "bound" /\ driver_lock = d
         /\ pc \in {"open_error", "released"} => power[d] = "D3"

(* Every way out of the work under driver_lock puts the device to sleep,   *)
(* but for an open whose pci_enable_device or config space fails.          *)
LEMMA IdleStep ==
  ASSUME IdleD3, EnableFails \subseteq {"igd"}
  PROVE  CountInv /\ IdleInv /\ [Next]_vars => IdleInv'
<1>. SUFFICES ASSUME CountInv, IdleInv, [Next]_vars PROVE IdleInv'
  OBVIOUS
<1>0. /\ refcnt \in [Devs -> Nat] /\ releasing \in [Devs -> Nat]
      /\ power \in [Devs -> {"D0", "D3"}]
      /\ admin \in [Devs -> {"unbound", "probe", "added", "woken", "bound",
                             "removing"}]
      /\ Nobody \notin Devs /\ LockHolder /\ IdleD3
      /\ EnableFails \subseteq {"igd"}
      /\ driver_lock \in Devs \union {Nobody} /\ ret \in BOOLEAN
  BY LifecycleAssumption DEF CountInv, TypeOK
<1>. USE <1>0 DEF IdleInv, LockHolder, Go, GoAdmin, Set, pciVars, vdevVars,
                  waitVars, threadVars
<1>1. CASE ModuleInit
  BY <1>1 DEF ModuleInit
<1>2. CASE StartCleanup
  BY <1>2 DEF StartCleanup
<1>3. CASE CleanupDone
  BY <1>3 DEF CleanupDone
<1>4. ASSUME NEW d \in Devs, StartProbe(d) PROVE IdleInv'
  BY <1>4 DEF StartProbe
<1>5. ASSUME NEW d \in Devs, ProbeAdd(d) PROVE IdleInv'
  <2>1. refcnt[d] = 0
    BY <1>5, FilesBound DEF ProbeAdd
  <2>. QED BY <1>5, <2>1 DEF ProbeAdd
<1>6. ASSUME NEW d \in Devs, ProbeFails(d) PROVE IdleInv'
  BY <1>6 DEF ProbeFails
<1>7. ASSUME NEW d \in Devs, ProbeWake(d) PROVE IdleInv'
  BY <1>7 DEF ProbeWake
<1>8. ASSUME NEW d \in Devs, ProbeSleep(d) PROVE IdleInv'
  BY <1>8 DEF ProbeSleep
<1>9. ASSUME NEW d \in Devs, StartRemove(d) PROVE IdleInv'
  BY <1>9 DEF StartRemove
<1>10. ASSUME NEW d \in Devs, RemoveDone(d) PROVE IdleInv'
  <2>1. driver_lock # d
    BY <1>10, FilesBound DEF RemoveDone, LastPut
  <2>. QED BY <1>10, <2>1 DEF RemoveDone
<1>11. ASSUME NEW d \in Devs, StartOpen(d) PROVE IdleInv'
  BY <1>11 DEF StartOpen
<1>12. ASSUME NEW d \in Devs, PinModule(d) PROVE IdleInv'
  BY <1>12 DEF PinModule
<1>13. ASSUME NEW d \in Devs, OpenRefused(d) PROVE IdleInv'
  BY <1>13 DEF OpenRefused
<1>14. ASSUME NEW d \in Devs, OpenAgain(d) PROVE IdleInv'
  BY <1>14 DEF OpenAgain
<1>15. ASSUME NEW d \in Devs, OpenFirst(d) PROVE IdleInv'
  BY <1>15 DEF OpenFirst
<1>16. ASSUME NEW d \in Devs, EnableDevice(d) PROVE IdleInv'
  BY <1>16 DEF EnableDevice
<1>17. ASSUME NEW d \in Devs, EnableDeviceFails(d) PROVE IdleInv'
  BY <1>17 DEF EnableDeviceFails
<1>18. ASSUME NEW d \in Devs, EnableReset(d) PROVE IdleInv'
  BY <1>18 DEF EnableReset
<1>19. ASSUME NEW d \in Devs, OpenDone(d) PROVE IdleInv'
  BY <1>19 DEF OpenDone
<1>20. ASSUME NEW d \in Devs, EnableConfigFails(d) PROVE IdleInv'
  BY <1>20 DEF EnableConfigFails
<1>21. ASSUME NEW d \in Devs, EnableIgdFails(d) PROVE IdleInv'
  BY <1>21 DEF EnableIgdFails
<1>22. ASSUME NEW d \in Devs, OpenError(d) PROVE IdleInv'
  BY <1>22 DEF OpenError
<1>23. ASSUME NEW d \in Devs, StartRelease(d) PROVE IdleInv'
  BY <1>23 DEF StartRelease
<1>24. ASSUME NEW d \in Devs, ReleaseOne(d) PROVE IdleInv'
  BY <1>24 DEF ReleaseOne
<1>25. ASSUME NEW d \in Devs, ReleaseLast(d) PROVE IdleInv'
  BY <1>25 DEF ReleaseLast
<1>26. ASSUME NEW d \in Devs, DisableMark(d) PROVE IdleInv'
  BY <1>26 DEF DisableMark
<1>27. ASSUME NEW d \in Devs, DisableReset(d) PROVE IdleInv'
  BY <1>27 DEF DisableReset
<1>28. ASSUME NEW d \in Devs, DisableSleep(d) PROVE IdleInv'
  BY <1>28 DEF DisableSleep, Asleep
<1>29. ASSUME NEW d \in Devs, Released(d) PROVE IdleInv'
  BY <1>29 DEF Released
<1>30. ASSUME NEW d \in Devs, BusSkip(d) PROVE IdleInv'
  BY <1>30 DEF BusSkip
<1>31. ASSUME NEW d \in Devs, BusStart(d) PROVE IdleInv'
  BY <1>31 DEF BusStart
<1>32. ASSUME NEW d \in Devs, NEW e \in Devs, BusGet(d, e) PROVE IdleInv'
  BY <1>32 DEF BusGet
<1>33. ASSUME NEW d \in Devs, NEW e \in Devs, BusGetFails(d, e)
      PROVE IdleInv'
  BY <1>33 DEF BusGetFails
<1>34. ASSUME NEW d \in Devs, BusReset(d) PROVE IdleInv'
  BY <1>34 DEF BusReset, AllUnused
<1>35. ASSUME NEW d \in Devs, BusNoReset(d) PROVE IdleInv'
  BY <1>35 DEF BusNoReset
<1>36. ASSUME NEW d \in Devs, NEW e \in Devs, BusPut(d, e) PROVE IdleInv'
  BY <1>36 DEF BusPut, SleepUnused
<1>37. ASSUME NEW d \in Devs, BusDone(d) PROVE IdleInv'
  BY <1>37 DEF BusDone
<1>38. ASSUME NEW d \in Devs, UserWorks(d) PROVE IdleInv'
  BY <1>38 DEF UserWorks
<1>39. ASSUME NEW d \in Devs, UserReset(d) PROVE IdleInv'
  BY <1>39 DEF UserReset
<1>40. CASE UNCHANGED vars
  BY <1>40 DEF vars
<1>. QED
  BY <1>1, <1>2, <1>3, <1>4, <1>5, <1>6, <1>7, <1>8, <1>9, <1>10, <1>11,
     <1>12, <1>13, <1>14, <1>15, <1>16, <1>17, <1>18, <1>19, <1>20, <1>21,
     <1>22, <1>23, <1>24, <1>25, <1>26, <1>27, <1>28, <1>29, <1>30, <1>31,
     <1>32, <1>33, <1>34, <1>35, <1>36, <1>37, <1>38, <1>39, <1>40
     DEF Next, Module, Admin, AdminStep, User, EnterStep, LockStep,
         EnableStep, DisableStep, BusStep, DriverStep

(* With disable_idle_d3 unset, a bound device nobody uses sleeps. *)
THEOREM IdleDevicesSleep ==
  ASSUME EnableFails \subseteq {"igd"}
  PROVE  Spec => []IdleDeviceSleeps
<1>1. CASE IdleD3
  <2>1. Init => IdleInv
    BY LifecycleAssumption DEF Init, IdleInv
  <2>2. CountInv /\ IdleInv => IdleDeviceSleeps
    BY LifecycleAssumption
       DEF IdleInv, IdleDeviceSleeps, CountInv, LockHolder
  <2>3. CountInv /\ IdleInv /\ [Next]_vars => IdleInv'
    BY <1>1, IdleStep
  <2>. QED BY <2>1, <2>2, <2>3, CountCorrect, PTL DEF Spec
<1>2. CASE ~IdleD3
  <2>1. TypeOK => IdleDeviceSleeps
    BY <1>2 DEF IdleDeviceSleeps
  <2>. QED BY <2>1, TypeCorrect, PTL
<1>. QED BY <1>1, <1>2
=============================================================================
