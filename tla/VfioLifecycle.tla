--------------------------- MODULE VfioLifecycle ---------------------------
(***************************************************************************)
(* The life of the vfio-pci devices of one bus (kernel_app/lock/           *)
(* vfio_pci.c, lines 213-413, 856, 1190-1402 and 1446-1466): the module is *)
(* loaded and unloaded; probe, open, release, remove, and the reset and    *)
(* power management they share.                                            *)
(*                                                                         *)
(* Each device has users, whose opens and releases may overlap, and an     *)
(* administrator (bind and unbind, which the driver core runs under the    *)
(* device's own lock).  An open or release waits for driver_lock and does  *)
(* its work under it, so that one thread at a time, of one device, is in   *)
(* the middle of that work.                                                *)
(***************************************************************************)
EXTENDS Integers, FiniteSets

CONSTANTS
  Devs,          \* the devices on the bus
  Nobody,        \* no holder
  MaxOpens,      \* bound: files of one device at a time
  FlrKinds,      \* can the device be reset by itself?  values considered
  BusResets,     \* TRUE: the bus or slot can be reset
  IdleD3,        \* ~disable_idle_d3
  EnableFails,   \* what in vfio_pci_enable may fail
  Polite,        \* TRUE: the user opens no device it was asked to release
  CarefulAdmin   \* TRUE: no open of a device overlaps its bind or unbind

ASSUME LifecycleAssumption ==
  /\ IsFiniteSet(Devs) /\ Nobody \notin Devs
  /\ MaxOpens \in Nat \ {0}
  /\ FlrKinds \subseteq BOOLEAN
  /\ EnableFails \subseteq {"device", "config", "igd"}
  /\ \A b \in {BusResets, IdleD3, Polite, CarefulAdmin} : b \in BOOLEAN

VARIABLES
  (* PCI core *)
  flr,          \* pci_reset_function works on the device
  enabled,      \* pci_enable_device is in force
  power,        \* "D0" or "D3"
  devlock,      \* the device lock is held by the driver core
  dirty,        \* a user of this binding has left state in the device
  (* vfio core *)
  refs,         \* references on the vfio_device; 0: not registered
  (* driver *)
  driver,       \* the module: "absent", "live" or "going"
  modrefs,      \* references on it
  driver_lock,
  refcnt, needs_reset, reset_works,
  (* threads *)
  admin,        \* where bind or unbind of the device is
  entering,     \* opens of the device that have not pinned the module yet
  opening,      \* opens of the device that wait for driver_lock
  releasing,    \* releases of the device that wait for driver_lock
  pc,           \* where the holder of driver_lock is
  disabler,     \* what called vfio_pci_disable: "open" or "release"
  devs,         \* devices vfio_pci_try_bus_reset holds
  ret           \* TRUE: its reset succeeded

pciVars    == <<flr, enabled, power, devlock, dirty>>
vdevVars   == <<refcnt, needs_reset, reset_works>>
modVars    == <<driver, modrefs>>
waitVars   == <<entering, opening, releasing>>
threadVars == <<admin, waitVars, pc, disabler, devs, ret>>
vars       == <<pciVars, refs, driver_lock, vdevVars, modVars, threadVars>>

Go(d, from, to) == driver_lock = d /\ pc = from /\ pc' = to
GoAdmin(d, from, to) == admin[d] = from /\ admin' = [admin EXCEPT ![d] = to]
Set(f, d, value) == [f EXCEPT ![d] = value]

Get(d) == refs' = [refs EXCEPT ![d] = @ + 1]
Put(d) == refs' = [refs EXCEPT ![d] = @ - 1]

Init ==
  /\ flr \in [Devs -> FlrKinds]
  /\ enabled = [d \in Devs |-> FALSE] /\ power = [d \in Devs |-> "D0"]
  /\ devlock = [d \in Devs |-> FALSE] /\ dirty = [d \in Devs |-> FALSE]
  /\ refs = [d \in Devs |-> 0]
  /\ driver_lock = Nobody
  /\ refcnt = [d \in Devs |-> 0] /\ needs_reset = [d \in Devs |-> FALSE]
  /\ reset_works = [d \in Devs |-> FALSE]
  /\ driver = "absent" /\ modrefs = 0
  /\ admin = [d \in Devs |-> "unbound"] /\ pc = "idle"
  /\ entering = [d \in Devs |-> 0]
  /\ opening = [d \in Devs |-> 0] /\ releasing = [d \in Devs |-> 0]
  /\ disabler = "release" /\ devs = {} /\ ret = FALSE

-----------------------------------------------------------------------------
(* vfio_pci_init registers the driver, or fails and undoes what it did;    *)
(* rmmod is refused while the module is pinned, and vfio_pci_cleanup then  *)
(* unbinds every device, one StartRemove after the other.                  *)

ModuleInit ==
  /\ driver = "absent" /\ driver' = "live"
  /\ UNCHANGED <<pciVars, refs, driver_lock, vdevVars, modrefs, threadVars>>

StartCleanup ==
  /\ driver = "live" /\ modrefs = 0
  /\ driver' = "going"
  /\ UNCHANGED <<pciVars, refs, driver_lock, vdevVars, modrefs, threadVars>>

CleanupDone ==
  /\ driver = "going" /\ \A d \in Devs : admin[d] = "unbound"
  /\ driver' = "absent"
  /\ UNCHANGED <<pciVars, refs, driver_lock, vdevVars, modrefs, threadVars>>

-----------------------------------------------------------------------------
(* vfio_pci_probe.  The device is registered, hence can be opened, before  *)
(* its power state is set.                                                 *)

StartProbe(d) ==
  /\ driver = "live"
  /\ GoAdmin(d, "unbound", "probe")
  /\ ~devlock[d]
  /\ devlock' = Set(devlock, d, TRUE)
  /\ UNCHANGED <<flr, enabled, power, dirty, refs, driver_lock, vdevVars,
                 modVars, pc, disabler, devs, ret, waitVars>>

(* vfio_add_group_dev, with a zeroed vfio_pci_device *)
ProbeAdd(d) ==
  /\ GoAdmin(d, "probe", "added")
  /\ refs' = Set(refs, d, 1)
  /\ refcnt' = Set(refcnt, d, 0)
  /\ needs_reset' = Set(needs_reset, d, FALSE)
  /\ reset_works' = Set(reset_works, d, FALSE)
  /\ dirty' = Set(dirty, d, FALSE)
  /\ UNCHANGED <<flr, enabled, power, devlock, driver_lock, modVars, pc,
                 disabler, devs, ret, waitVars>>

ProbeFails(d) ==
  /\ GoAdmin(d, "probe", "unbound")
  /\ devlock' = Set(devlock, d, FALSE)
  /\ UNCHANGED <<flr, enabled, power, dirty, refs, driver_lock, vdevVars,
                 modVars, pc, disabler, devs, ret, waitVars>>

ProbeWake(d) ==
  /\ GoAdmin(d, "added", "woken")
  /\ power' = IF IdleD3 THEN Set(power, d, "D0") ELSE power
  /\ UNCHANGED <<flr, enabled, devlock, dirty, refs, driver_lock, vdevVars,
                 modVars, pc, disabler, devs, ret, waitVars>>

ProbeSleep(d) ==
  /\ GoAdmin(d, "woken", "bound")
  /\ power' = IF IdleD3 THEN Set(power, d, "D3") ELSE power
  /\ devlock' = Set(devlock, d, FALSE)
  /\ UNCHANGED <<flr, enabled, dirty, refs, driver_lock, vdevVars, modVars,
                 pc, disabler, devs, ret, waitVars>>

(* vfio_pci_remove: vfio_del_group_dev drops the driver's reference and    *)
(* waits, under the device lock, for the last one; then vdev is freed.     *)
StartRemove(d) ==
  /\ GoAdmin(d, "bound", "removing")
  /\ ~devlock[d]
  /\ CarefulAdmin => opening[d] = 0 /\ (driver = "live" => entering[d] = 0)
  /\ CarefulAdmin => ~(driver_lock = d /\ pc \in {"enable", "enable_reset"})
  /\ devlock' = Set(devlock, d, TRUE)
  /\ Put(d)
  /\ UNCHANGED <<flr, enabled, power, dirty, driver_lock, vdevVars, modVars,
                 pc, disabler, devs, ret, waitVars>>

LastPut(d) == refs[d] = 0

RemoveDone(d) ==
  /\ GoAdmin(d, "removing", "unbound")
  /\ LastPut(d)
  /\ power' = IF IdleD3 THEN Set(power, d, "D0") ELSE power
  /\ devlock' = Set(devlock, d, FALSE)
  /\ UNCHANGED <<flr, enabled, dirty, refs, driver_lock, vdevVars, modVars,
                 pc, disabler, devs, ret, waitVars>>

-----------------------------------------------------------------------------
(* vfio_pci_open and vfio_pci_enable *)

(* Files of the device: open, being opened, being closed *)
Files(d) == refcnt[d] + opening[d] + (IF driver_lock = d THEN 1 ELSE 0)

StartOpen(d) ==
  /\ refs[d] > 0 /\ Files(d) + entering[d] < MaxOpens
  /\ Polite => admin[d] # "removing"
  /\ CarefulAdmin => admin[d] \in {"bound", "removing"}
  /\ entering' = Set(entering, d, entering[d] + 1)
  /\ Get(d)
  /\ UNCHANGED <<pciVars, driver_lock, vdevVars, modVars, admin, opening,
                 releasing, pc, disabler, devs, ret>>

(* try_module_get, which a module that is going refuses: -ENODEV *)
PinModule(d) ==
  /\ entering[d] > 0 /\ driver = "live"
  /\ entering' = Set(entering, d, entering[d] - 1)
  /\ opening' = Set(opening, d, opening[d] + 1)
  /\ modrefs' = modrefs + 1
  /\ UNCHANGED <<pciVars, refs, driver, driver_lock, vdevVars, admin,
                 releasing, pc, disabler, devs, ret>>

OpenRefused(d) ==
  /\ entering[d] > 0 /\ driver # "live"
  /\ entering' = Set(entering, d, entering[d] - 1)
  /\ Put(d)
  /\ UNCHANGED <<pciVars, driver_lock, vdevVars, modVars, admin, opening,
                 releasing, pc, disabler, devs, ret>>

OpenAgain(d) ==
  /\ driver_lock = Nobody /\ opening[d] > 0 /\ refcnt[d] > 0
  /\ opening' = Set(opening, d, opening[d] - 1)
  /\ refcnt' = Set(refcnt, d, refcnt[d] + 1)
  /\ UNCHANGED <<pciVars, refs, driver_lock, needs_reset, reset_works, modVars,
                 admin, entering, releasing, pc, disabler, devs, ret>>

OpenFirst(d) ==
  /\ driver_lock = Nobody /\ opening[d] > 0 /\ refcnt[d] = 0
  /\ opening' = Set(opening, d, opening[d] - 1)
  /\ driver_lock' = d
  /\ pc' = "enable"
  /\ power' = Set(power, d, "D0")
  /\ UNCHANGED <<flr, enabled, devlock, dirty, refs, vdevVars, modVars, admin,
                 entering, releasing, disabler, devs, ret>>

EnableDevice(d) ==
  /\ Go(d, "enable", "enable_reset")
  /\ enabled' = Set(enabled, d, TRUE)
  /\ UNCHANGED <<flr, power, devlock, dirty, refs, driver_lock, vdevVars,
                 modVars, admin, disabler, devs, ret, waitVars>>

EnableDeviceFails(d) ==
  /\ Go(d, "enable", "open_error")
  /\ "device" \in EnableFails
  /\ UNCHANGED <<pciVars, refs, driver_lock, vdevVars, modVars, admin,
                 disabler, devs, ret, waitVars>>

(* pci_reset_function waits for the device lock, if the device has a reset *)
(* of its own; a reset leaves the device in D0.                            *)
EnableReset(d) ==
  /\ Go(d, "enable_reset", "enable_config")
  /\ flr[d] => ~devlock[d]
  /\ reset_works' = Set(reset_works, d, flr[d])
  /\ dirty' = IF flr[d] THEN Set(dirty, d, FALSE) ELSE dirty
  /\ power' = IF flr[d] THEN Set(power, d, "D0") ELSE power
  /\ UNCHANGED <<flr, enabled, devlock, refs, driver_lock, refcnt, needs_reset,
                 modVars, admin, disabler, devs, ret, waitVars>>

OpenDone(d) ==
  /\ Go(d, "enable_config", "idle")
  /\ refcnt' = Set(refcnt, d, 1)
  /\ driver_lock' = Nobody
  /\ UNCHANGED <<pciVars, refs, needs_reset, reset_works, modVars, admin,
                 disabler, devs, ret, waitVars>>

(* vfio_config_init fails *)
EnableConfigFails(d) ==
  /\ Go(d, "enable_config", "open_error")
  /\ "config" \in EnableFails
  /\ enabled' = Set(enabled, d, FALSE)
  /\ UNCHANGED <<flr, power, devlock, dirty, refs, driver_lock, vdevVars,
                 modVars, admin, disabler, devs, ret, waitVars>>

(* vfio_pci_igd_init fails: vfio_pci_disable undoes the rest (what becomes *)
(* of dummy_resources_list then is in VfioRegions).                        *)
EnableIgdFails(d) ==
  /\ Go(d, "enable_config", "disable")
  /\ "igd" \in EnableFails
  /\ disabler' = "open"
  /\ UNCHANGED <<pciVars, refs, driver_lock, vdevVars, modVars, admin, devs,
                 ret, waitVars>>

KeepModule    == modrefs              \* mutant: the error path leaks it
ReleaseModule == modrefs - 1

OpenError(d) ==
  /\ Go(d, "open_error", "idle")
  /\ driver_lock' = Nobody
  /\ modrefs' = ReleaseModule
  /\ Put(d)
  /\ UNCHANGED <<pciVars, driver, vdevVars, admin, disabler, devs, ret,
                 waitVars>>

-----------------------------------------------------------------------------
(* vfio_pci_release and vfio_pci_disable *)

StartRelease(d) ==
  /\ refcnt[d] > releasing[d]
  /\ releasing' = Set(releasing, d, releasing[d] + 1)
  /\ UNCHANGED <<pciVars, refs, driver_lock, vdevVars, modVars, admin, entering,
                 opening, pc, disabler, devs, ret>>

ReleaseOne(d) ==
  /\ driver_lock = Nobody /\ releasing[d] > 0 /\ refcnt[d] > 1
  /\ releasing' = Set(releasing, d, releasing[d] - 1)
  /\ refcnt' = Set(refcnt, d, refcnt[d] - 1)
  /\ modrefs' = modrefs - 1
  /\ Put(d)
  /\ UNCHANGED <<pciVars, driver, driver_lock, needs_reset, reset_works, admin,
                 entering, opening, pc, disabler, devs, ret>>

ReleaseLast(d) ==
  /\ driver_lock = Nobody /\ releasing[d] > 0 /\ refcnt[d] = 1
  /\ releasing' = Set(releasing, d, releasing[d] - 1)
  /\ driver_lock' = d
  /\ pc' = "disable"
  /\ refcnt' = Set(refcnt, d, 0)
  /\ disabler' = "release"
  /\ UNCHANGED <<pciVars, refs, needs_reset, reset_works, modVars, admin,
                 entering, opening, devs, ret>>

(* Interrupts, regions, config and BAR mappings are gone; restoring the    *)
(* saved state does not undo what the user has done.                       *)
DisableMark(d) ==
  /\ Go(d, "disable", "disable_reset")
  /\ needs_reset' = Set(needs_reset, d, TRUE)
  /\ UNCHANGED <<pciVars, refs, driver_lock, refcnt, reset_works, modVars,
                 admin, disabler, devs, ret, waitVars>>

(* pci_try_reset_function gives up when the device lock is taken. *)
LockIgnored(d) == reset_works[d]      \* mutant: a busy device counts as reset
FunctionReset(d) == reset_works[d] /\ ~devlock[d]

WaitForLock(d) == ~devlock[d]         \* mutant: pci_reset_function is called
TryLock(d)     == TRUE

DisableReset(d) ==
  /\ Go(d, "disable_reset", "bus")
  /\ TryLock(d)
  /\ needs_reset' = Set(needs_reset, d, ~FunctionReset(d))
  /\ dirty' = Set(dirty, d, dirty[d] /\ ~(reset_works[d] /\ ~devlock[d]))
  /\ enabled' = Set(enabled, d, FALSE)
  /\ UNCHANGED <<flr, power, devlock, refs, driver_lock, refcnt, reset_works,
                 modVars, admin, disabler, devs, ret, waitVars>>

(* after vfio_pci_try_bus_reset *)
StaysAwake(d) == power                \* mutant
Asleep(d) == IF IdleD3 THEN Set(power, d, "D3") ELSE power

DisableSleep(d) ==
  /\ Go(d, "disable_sleep", IF disabler = "open" THEN "open_error"
                                                 ELSE "released")
  /\ power' = Asleep(d)
  /\ UNCHANGED <<flr, enabled, devlock, dirty, refs, driver_lock, vdevVars,
                 modVars, admin, disabler, devs, ret, waitVars>>

(* The lock and the module are dropped, then vfio core's reference. *)
Released(d) ==
  /\ Go(d, "released", "idle")
  /\ driver_lock' = Nobody
  /\ modrefs' = modrefs - 1
  /\ Put(d)
  /\ UNCHANGED <<pciVars, driver, vdevVars, admin, disabler, devs, ret,
                 waitVars>>

-----------------------------------------------------------------------------
(* vfio_pci_try_bus_reset, under driver_lock *)

(* No reset method, or no memory for the list *)
BusSkip(d) ==
  /\ Go(d, "bus", "disable_sleep")
  /\ UNCHANGED <<pciVars, refs, driver_lock, vdevVars, modVars, admin,
                 disabler, devs, ret, waitVars>>

BusStart(d) ==
  /\ Go(d, "bus", "bus_get")
  /\ BusResets
  /\ devs' = {} /\ ret' = FALSE
  /\ UNCHANGED <<pciVars, refs, driver_lock, vdevVars, modVars, admin,
                 disabler, waitVars>>

(* vfio_pci_get_devs *)
TakeNoReference(e) == UNCHANGED refs  \* mutant
TakeReference(e)   == Get(e)

BusGet(d, e) ==
  /\ driver_lock = d /\ pc = "bus_get"
  /\ e \notin devs /\ refs[e] > 0
  /\ TakeReference(e)
  /\ devs' = devs \union {e}
  /\ UNCHANGED <<pciVars, driver_lock, vdevVars, modVars, admin, pc, disabler,
                 ret, waitVars>>

BusGetFails(d, e) ==
  /\ Go(d, "bus_get", "bus_put")
  /\ e \notin devs /\ refs[e] = 0
  /\ UNCHANGED <<pciVars, refs, driver_lock, vdevVars, modVars, admin,
                 disabler, devs, ret, waitVars>>

UsersIgnored == TRUE                  \* mutant: refcnt is not looked at
AllUnused    == \A e \in Devs : refcnt[e] = 0

(* pci_try_reset_bus needs every device lock. *)
BusReset(d) ==
  /\ Go(d, "bus_get", "bus_put")
  /\ devs = Devs
  /\ AllUnused
  /\ \E e \in Devs : needs_reset[e]
  /\ \A e \in Devs : ~devlock[e]
  /\ ret' = TRUE
  /\ dirty' = [e \in Devs |-> FALSE]
  /\ power' = [e \in Devs |-> "D0"]
  /\ UNCHANGED <<flr, enabled, devlock, refs, driver_lock, vdevVars, modVars,
                 admin, disabler, devs, waitVars>>

BusNoReset(d) ==
  /\ Go(d, "bus_get", "bus_put")
  /\ devs = Devs
  /\ \/ \E e \in Devs : refcnt[e] > 0 \/ devlock[e]
     \/ \A e \in Devs : ~needs_reset[e]
  /\ UNCHANGED <<pciVars, refs, driver_lock, vdevVars, modVars, admin,
                 disabler, devs, ret, waitVars>>

SleepAny(e) == IF IdleD3 THEN Set(power, e, "D3") ELSE power
    \* mutant: tmp->refcnt is not looked at
SleepUnused(e) ==
  IF IdleD3 /\ refcnt[e] = 0 THEN Set(power, e, "D3") ELSE power

BusPut(d, e) ==
  /\ driver_lock = d /\ pc = "bus_put"
  /\ e \in devs
  /\ needs_reset' = IF ret THEN Set(needs_reset, e, FALSE) ELSE needs_reset
  /\ power' = SleepUnused(e)
  /\ Put(e)
  /\ devs' = devs \ {e}
  /\ UNCHANGED <<flr, enabled, devlock, dirty, driver_lock, refcnt,
                 reset_works, modVars, admin, pc, disabler, ret, waitVars>>

BusDone(d) ==
  /\ Go(d, "bus_put", "disable_sleep")
  /\ devs = {}
  /\ ret' = FALSE
  /\ UNCHANGED <<pciVars, refs, driver_lock, vdevVars, modVars, admin,
                 disabler, devs, waitVars>>

-----------------------------------------------------------------------------
(* The user works with the device, or resets it (VFIO_DEVICE_RESET). *)

UserWorks(d) ==
  /\ refcnt[d] > releasing[d]
  /\ dirty' = Set(dirty, d, TRUE)
  /\ UNCHANGED <<flr, enabled, power, devlock, refs, driver_lock, vdevVars,
                 modVars, threadVars>>

UserReset(d) ==
  /\ refcnt[d] > releasing[d]
  /\ reset_works[d] /\ ~devlock[d]
  /\ dirty' = Set(dirty, d, FALSE)
  /\ power' = Set(power, d, "D0")
  /\ UNCHANGED <<flr, enabled, devlock, refs, driver_lock, vdevVars, modVars,
                 threadVars>>

-----------------------------------------------------------------------------
Module == ModuleInit \/ StartCleanup \/ CleanupDone
Admin(d) == StartProbe(d) \/ StartRemove(d)
AdminStep(d) == \/ ProbeAdd(d) \/ ProbeFails(d) \/ ProbeWake(d)
                \/ ProbeSleep(d) \/ RemoveDone(d)
User(d) == StartOpen(d) \/ StartRelease(d) \/ UserWorks(d) \/ UserReset(d)
EnterStep(d) == PinModule(d) \/ OpenRefused(d)
LockStep(d) == \/ OpenAgain(d) \/ OpenFirst(d)
               \/ ReleaseOne(d) \/ ReleaseLast(d)
EnableStep(d) == \/ EnableDevice(d) \/ EnableDeviceFails(d) \/ EnableReset(d)
                 \/ OpenDone(d) \/ EnableConfigFails(d) \/ EnableIgdFails(d)
                 \/ OpenError(d)
DisableStep(d) == \/ DisableMark(d) \/ DisableReset(d) \/ DisableSleep(d)
                  \/ Released(d)
BusStep(d) == \/ BusSkip(d) \/ BusStart(d) \/ BusReset(d) \/ BusNoReset(d)
              \/ BusDone(d)
              \/ \E e \in Devs : BusGet(d, e) \/ BusGetFails(d, e)
                                 \/ BusPut(d, e)
DriverStep(d) == EnableStep(d) \/ DisableStep(d) \/ BusStep(d)

Next == Module \/ \E d \in Devs :
                   \/ Admin(d) \/ AdminStep(d) \/ User(d)
                   \/ EnterStep(d) \/ LockStep(d) \/ DriverStep(d)

Spec == Init /\ [][Next]_vars

(* Kernel threads run; a mutex is handed over in turn; and a user that     *)
(* was asked for its device (vfio_pci_request) closes it.                  *)
Fairness ==
  /\ WF_vars(CleanupDone)
  /\ \A d \in Devs :
       /\ WF_vars(driver = "going" /\ StartRemove(d))
       /\ WF_vars(AdminStep(d)) /\ WF_vars(DriverStep(d))
       /\ WF_vars(EnterStep(d)) /\ SF_vars(LockStep(d))
       /\ WF_vars(admin[d] = "removing" /\ StartRelease(d))

FairSpec == Spec /\ Fairness
-----------------------------------------------------------------------------
(* Every variable keeps to its values; no count of references or opens     *)
(* goes below zero.                                                        *)
TypeOK ==
  /\ flr \in [Devs -> FlrKinds] /\ enabled \in [Devs -> BOOLEAN]
  /\ power \in [Devs -> {"D0", "D3"}] /\ devlock \in [Devs -> BOOLEAN]
  /\ dirty \in [Devs -> BOOLEAN]
  /\ refs \in [Devs -> Nat] /\ refcnt \in [Devs -> 0..MaxOpens]
  /\ driver_lock \in Devs \union {Nobody}
  /\ needs_reset \in [Devs -> BOOLEAN] /\ reset_works \in [Devs -> BOOLEAN]
  /\ driver \in {"absent", "live", "going"} /\ modrefs \in Nat
  /\ admin \in [Devs -> {"unbound", "probe", "added", "woken", "bound",
                         "removing"}]
  /\ entering \in [Devs -> 0..MaxOpens]
  /\ opening \in [Devs -> 0..MaxOpens] /\ releasing \in [Devs -> 0..MaxOpens]
  /\ pc \in {"idle", "enable", "enable_reset", "enable_config", "open_error",
             "disable", "disable_reset", "bus", "bus_get", "bus_put",
             "disable_sleep", "released"}
  /\ disabler \in {"open", "release"} /\ devs \subseteq Devs
  /\ ret \in BOOLEAN

(* A device a user has left is not forgotten: until a reset has cleaned it *)
(* it is marked, so that a later bus reset picks it up.                    *)
DirtyIsRemembered ==
  \A d \in Devs :
    refs[d] > 0 /\ dirty[d] /\ refcnt[d] = 0 /\ driver_lock = Nobody
      => needs_reset[d]

(* The devices keep the contract of DeviceUse, seen from outside: a bus    *)
(* reset takes nothing from a device that another user works with, and no  *)
(* device is unbound under its user.                                       *)
Contract ==
  INSTANCE DeviceUse WITH
    bound <- {d \in Devs : admin[d] \notin {"unbound", "probe"}},
    open  <- {d \in Devs : enabled[d]},
    dirty <- {d \in Devs : dirty[d]}

ContractSpec == Contract!Spec

(* A device in use has power, whatever bus resets and power changes the    *)
(* releases of its neighbours bring.                                       *)
UsedDeviceHasPower == \A d \in Devs : refcnt[d] > 0 => power[d] = "D0"

(* disable_idle_d3 unset: a bound device nobody uses sleeps in D3          *)
(* (vfio_pci.c:53-56).                                                     *)
IdleDeviceSleeps ==
  IdleD3 => \A d \in Devs :
              admin[d] = "bound" /\ refcnt[d] = 0 /\ driver_lock = Nobody
                => power[d] = "D3"

(* The files of all devices, numbered from 1 for each device *)
Pins == {p \in Devs \X (1..MaxOpens) : p[2] <= Files(p[1])}

(* The module is pinned once per open file, and by nothing else: no error  *)
(* path of open leaks a reference or drops one too many.                   *)
ModulePinned == modrefs = Cardinality(Pins)

(* vdev is not freed under a thread that works on it: neither under an     *)
(* open or release, nor under the bus reset of another device; and the     *)
(* code that runs is not unloaded, in spite of an open that has yet to pin *)
(* the module.                                                             *)
VdevOutlivesUse ==
  \A d \in Devs :
    /\ Files(d) + entering[d] > 0 \/ d \in devs
         => refs[d] > 0 /\ admin[d] \notin {"unbound", "probe"}
    /\ driver = "absent" => admin[d] = "unbound"

(* An unbind completes once the users let go, whatever resets they run     *)
(* into, and so does an unload, which unbinds every device; nothing holds  *)
(* the device lock and driver_lock against each other.                     *)
RemovalCompletes ==
  /\ \A d \in Devs : admin[d] = "removing" ~> admin[d] = "unbound"
  /\ driver = "going" ~> driver = "absent"
=============================================================================
