------------------------------ MODULE VfioIntx ------------------------------
(***************************************************************************)
(* Legacy INTx delivery of one open vfio-pci device                        *)
(* (kernel_app/lock/vfio_pci_intrs.c, lines 28-237 and 404-495).           *)
(*                                                                         *)
(* Four activities share the interrupt context ctx[0]:                     *)
(*   "ioctl"   a VFIO_DEVICE_SET_IRQS call, serialised by igate            *)
(*   "config"  a config-space write that toggles the virtual INTx disable  *)
(*             bit and calls vfio_pci_intx_mask / _unmask without igate    *)
(*   "virqfd"  an unmask eventfd: the unmask handler and its inject work   *)
(*   "irq"     the host interrupt handler                                  *)
(* irqlock covers ctx[0].masked; enable and disable run outside it.  A     *)
(* section under irqlock is two steps: it first reads irq_type, which is   *)
(* written without the lock, and only then uses ctx[0].  "oops" is the     *)
(* place of a thread killed by a NULL or dangling pointer.                 *)
(***************************************************************************)
EXTENDS Naturals

CONSTANTS
  EventFds,    \* eventfds the user can install as trigger
  NoFd,        \* fd = -1 on the way in, a NULL trigger in ctx[0]
  MaxDepth,    \* bound: disable_irq nesting is counted up to here
  PciKinds,    \* values of pci_2_3 (device supports DisINTx) considered
  SerialUser   \* TRUE: the user never writes config space during an ioctl

ASSUME IntxAssumption == /\ NoFd \notin EventFds
                         /\ MaxDepth \in Nat
                         /\ PciKinds \subseteq BOOLEAN
                         /\ SerialUser \in BOOLEAN

VARIABLES
  (* the device and the host interrupt core *)
  pci_2_3,        \* vdev->pci_2_3
  line,           \* the device asserts INTx (PCI_STATUS_INTERRUPT)
  disintx,        \* PCI_COMMAND_INTX_DISABLE in the physical device
  depth,          \* disable_irq nesting of pdev->irq
  action,         \* vfio_intx_handler is requested on pdev->irq
  (* struct vfio_pci_device *)
  irq_type,
  ctx,            \* vdev->ctx points to allocated memory
  masked,         \* ctx[0].masked
  trigger,        \* ctx[0].trigger
  unmask,         \* ctx[0].unmask: the unmask virqfd is active
  virq_disabled,
  irqlock,        \* holder of vdev->irqlock, or "free"
  (* the threads *)
  pc,
  caller,         \* who called vfio_intx_set_signal
  arg,            \* the fd it was called with
  (* the user *)
  pending,        \* eventfds signalled and not yet read
  owes            \* the user has masked, or served a signal: it must unmask

devVars  == <<pci_2_3, line>>
hwVars   == <<disintx, depth, action>>
ctxVars  == <<ctx, trigger, unmask>>
callVars == <<caller, arg>>
userVars == <<pending, owes>>
vars     == <<devVars, hwVars, irq_type, ctxVars, masked, virq_disabled,
              irqlock, pc, callVars, userVars>>

Threads == {"ioctl", "config", "virqfd", "irq"}
Fds     == EventFds \union {NoFd}
Steps   == {"idle", "oops", "mask", "mask_intx", "mask_other", "unmask",
            "unmask_intx", "unmask_other", "send", "signal", "irq",
            "en_hw", "en_type", "sig_free", "sig_put", "sig_get", "sig_req",
            "sig_relock", "dis_fd", "dis_type", "dis_free"}

IsIntx == irq_type = "intx"

(* disable_irq_nosync and enable_irq (which only warns at depth 0) *)
Deeper    == IF depth < MaxDepth THEN depth + 1 ELSE depth
EnableUnbalanced == depth - 1     \* mutant: no test for depth 0
Shallower == IF depth = 0 THEN 0 ELSE depth - 1

Go(t, from, to) == pc[t] = from /\ pc' = [pc EXCEPT ![t] = to]

(* vdev->ctx is dangling after vfio_intx_disable: what is read there is    *)
(* whatever the allocator left.                                            *)
MaskedRead == IF ctx THEN {masked} ELSE BOOLEAN

Init ==
  /\ pci_2_3 \in PciKinds
  /\ line = FALSE /\ disintx = FALSE /\ depth = 0 /\ action = FALSE
  /\ irq_type = "none" /\ ctx = FALSE /\ masked = FALSE /\ trigger = NoFd
  /\ unmask = FALSE /\ virq_disabled = FALSE
  /\ irqlock = "free"
  /\ pc = [t \in Threads |-> "idle"]
  /\ caller = "set" /\ arg = NoFd
  /\ pending = {} /\ owes = FALSE

-----------------------------------------------------------------------------
(* vfio_pci_intx_mask *)

MaskLock(t) ==
  /\ Go(t, "mask", IF IsIntx THEN "mask_intx" ELSE "mask_other")
  /\ irqlock = "free"
  /\ irqlock' = t
  /\ UNCHANGED <<devVars, hwVars, irq_type, ctxVars, masked, virq_disabled,
                 callVars, userVars>>

MaskOther(t) ==
  /\ Go(t, "mask_other", "idle")
  /\ disintx' = (pci_2_3 \/ disintx)
  /\ irqlock' = "free"
  /\ UNCHANGED <<devVars, depth, action, irq_type, ctxVars, masked,
                 virq_disabled, callVars, userVars>>

MaskIntx(t) ==
  /\ Go(t, "mask_intx", "idle")
  /\ \/ /\ TRUE \in MaskedRead
        /\ UNCHANGED <<disintx, depth, masked>>
     \/ /\ FALSE \in MaskedRead
        /\ disintx' = (pci_2_3 \/ disintx)
        /\ depth' = IF pci_2_3 THEN depth ELSE Deeper
        /\ masked' = TRUE
  /\ irqlock' = "free"
  /\ UNCHANGED <<devVars, action, irq_type, ctxVars, virq_disabled,
                 callVars, userVars>>

-----------------------------------------------------------------------------
(* vfio_pci_intx_unmask_handler, then vfio_send_intx_eventfd when it       *)
(* returns > 0: directly for an ioctl or a config write, from the inject   *)
(* work for the unmask eventfd.                                            *)

UnmaskLock(t) ==
  /\ Go(t, "unmask", IF IsIntx THEN "unmask_intx" ELSE "unmask_other")
  /\ irqlock = "free"
  /\ irqlock' = t
  /\ UNCHANGED <<devVars, hwVars, irq_type, ctxVars, masked, virq_disabled,
                 callVars, userVars>>

UnmaskOther(t) ==
  /\ Go(t, "unmask_other", "idle")
  /\ disintx' = (~pci_2_3 /\ disintx)
  /\ irqlock' = "free"
  /\ UNCHANGED <<devVars, depth, action, irq_type, ctxVars, masked,
                 virq_disabled, callVars, userVars>>

UnmaskIntx(t) ==
  /\ Go(t, "unmask_intx", "idle")
  /\ \/ /\ FALSE \in MaskedRead \/ virq_disabled
        /\ UNCHANGED <<disintx, depth, masked>>
     \/ /\ TRUE \in MaskedRead /\ ~virq_disabled
        /\ pci_2_3 => ~line
        /\ disintx' = (~pci_2_3 /\ disintx)
        /\ depth' = IF pci_2_3 THEN depth ELSE Shallower
        /\ masked' = FALSE
  /\ irqlock' = "free"
  /\ UNCHANGED <<devVars, action, irq_type, ctxVars, virq_disabled,
                 callVars, userVars>>

(* pci_check_and_unmask_intx found the interrupt pending: it stays masked  *)
(* and is re-sent to the user instead.                                     *)
ForgetPending == "idle"           \* mutant: the handler returns 0
AfterPending  == "send"

UnmaskPending(t) ==
  /\ Go(t, "unmask_intx", AfterPending)
  /\ TRUE \in MaskedRead /\ ~virq_disabled
  /\ pci_2_3 /\ line
  /\ masked' = TRUE
  /\ irqlock' = "free"
  /\ UNCHANGED <<devVars, hwVars, irq_type, ctxVars, virq_disabled, callVars,
                 userVars>>

(* vfio_send_intx_eventfd: the test, then the use of ctx[0].trigger. *)
SendCheck(t) ==
  /\ Go(t, "send", IF IsIntx /\ ~virq_disabled THEN "signal" ELSE "idle")
  /\ UNCHANGED <<devVars, hwVars, irq_type, ctxVars, masked, virq_disabled,
                 irqlock, callVars, userVars>>

HasTrigger == ctx /\ trigger # NoFd

Signal(t) ==
  /\ Go(t, "signal", IF HasTrigger THEN "idle" ELSE "oops")
  /\ pending' = IF HasTrigger THEN pending \union {trigger} ELSE pending
  /\ UNCHANGED <<devVars, hwVars, irq_type, ctxVars, masked, virq_disabled,
                 irqlock, callVars, owes>>

-----------------------------------------------------------------------------
(* vfio_intx_handler.  A DisINTx device may share its line, so the handler *)
(* can be called for another device's interrupt.                           *)

IrqEnter ==
  /\ Go("irq", "idle", "irq")
  /\ action /\ depth = 0
  /\ pci_2_3 \/ line
  /\ UNCHANGED <<devVars, hwVars, irq_type, ctxVars, masked, virq_disabled,
                 irqlock, callVars, userVars>>

IrqHandled ==
  /\ Go("irq", "irq", "send")
  /\ irqlock = "free"
  /\ pci_2_3 => ~masked /\ line
  /\ disintx' = (pci_2_3 \/ disintx)
  /\ depth' = IF pci_2_3 THEN depth ELSE Deeper
  /\ masked' = TRUE
  /\ UNCHANGED <<devVars, action, irq_type, ctxVars, virq_disabled, irqlock,
                 callVars, userVars>>

IrqNone ==
  /\ Go("irq", "irq", "idle")
  /\ irqlock = "free"
  /\ pci_2_3 /\ (masked \/ ~line)
  /\ UNCHANGED <<devVars, hwVars, irq_type, ctxVars, masked, virq_disabled,
                 irqlock, callVars, userVars>>

-----------------------------------------------------------------------------
(* The ioctl thread.  igate makes it one thread; a SerialUser also keeps   *)
(* config writes out of the way.                                           *)

Call(to) ==
  /\ Go("ioctl", "idle", to)
  /\ SerialUser => pc["config"] = "idle"

(* vfio_intx_enable: allocate ctx and sample virq_disabled ... *)
EnableAlloc(fd) ==
  /\ Call("en_hw")
  /\ irq_type = "none"
  /\ ctx' = TRUE /\ masked' = virq_disabled
  /\ trigger' = NoFd /\ unmask' = FALSE
  /\ caller' = "enable" /\ arg' = fd
  /\ UNCHANGED <<devVars, hwVars, irq_type, virq_disabled, irqlock, userVars>>

(* ... program DisINTx from the sample ... *)
DisIntxNotRestored == disintx     \* mutant: the masked state is not restored
DisIntxRestored    == IF pci_2_3 THEN masked ELSE disintx

EnableHw ==
  /\ Go("ioctl", "en_hw", "en_type")
  /\ disintx' = DisIntxRestored
  /\ UNCHANGED <<devVars, depth, action, irq_type, ctxVars, masked,
                 virq_disabled, irqlock, callVars, userVars>>

(* ... and publish the mode; vfio_intx_set_signal follows. *)
EnableType ==
  /\ Go("ioctl", "en_type", "sig_free")
  /\ irq_type' = "intx"
  /\ UNCHANGED <<devVars, hwVars, ctxVars, masked, virq_disabled, irqlock,
                 callVars, userVars>>

(* vfio_intx_set_signal on a device already in INTx mode *)
StartSetSignal(fd) ==
  /\ Call("sig_free")
  /\ IsIntx
  /\ caller' = "set" /\ arg' = fd
  /\ UNCHANGED <<devVars, hwVars, irq_type, ctxVars, masked, virq_disabled,
                 irqlock, userVars>>

(* free_irq returns once no handler runs. *)
ActionKept  == action             \* mutant: the irq is not freed
ActionFreed == trigger = NoFd /\ action

SigFree ==
  /\ Go("ioctl", "sig_free", IF trigger = NoFd THEN "sig_get" ELSE "sig_put")
  /\ trigger # NoFd => pc["irq"] = "idle"
  /\ action' = ActionFreed
  /\ UNCHANGED <<devVars, disintx, depth, irq_type, ctxVars, masked,
                 virq_disabled, irqlock, callVars, userVars>>

SigPut ==
  /\ Go("ioctl", "sig_put", "sig_get")
  /\ trigger' = NoFd
  /\ UNCHANGED <<devVars, hwVars, irq_type, ctx, unmask, masked,
                 virq_disabled, irqlock, callVars, userVars>>

(* Where set_signal returns to, without and with an error. *)
AfterSignal == IF caller = "disable" THEN "dis_type" ELSE "idle"
AfterError  == IF caller = "enable" THEN "dis_fd" ELSE "idle"

SigDisableOnly ==
  /\ Go("ioctl", "sig_get", AfterSignal)
  /\ arg = NoFd
  /\ UNCHANGED <<devVars, hwVars, irq_type, ctxVars, masked, virq_disabled,
                 irqlock, callVars, userVars>>

(* kasprintf or eventfd_ctx_fdget fails *)
SigNoTrigger ==
  /\ Go("ioctl", "sig_get", AfterError)
  /\ arg # NoFd
  /\ UNCHANGED <<devVars, hwVars, irq_type, ctxVars, masked, virq_disabled,
                 irqlock, callVars, userVars>>

SigGet ==
  /\ Go("ioctl", "sig_get", "sig_req")
  /\ arg # NoFd
  /\ trigger' = arg
  /\ UNCHANGED <<devVars, hwVars, irq_type, ctx, unmask, masked,
                 virq_disabled, irqlock, callVars, userVars>>

(* request_irq starts the line with a disable depth of 0. *)
SigRequest ==
  /\ Go("ioctl", "sig_req", "sig_relock")
  /\ action' = TRUE /\ depth' = 0
  /\ UNCHANGED <<devVars, disintx, irq_type, ctxVars, masked, virq_disabled,
                 irqlock, callVars, userVars>>

SigRequestFails ==
  /\ Go("ioctl", "sig_req", AfterError)
  /\ trigger' = NoFd
  /\ UNCHANGED <<devVars, hwVars, irq_type, ctx, unmask, masked,
                 virq_disabled, irqlock, callVars, userVars>>

SigRelock ==
  /\ Go("ioctl", "sig_relock", "idle")
  /\ irqlock = "free"
  /\ depth' = IF ~pci_2_3 /\ masked THEN Deeper ELSE depth
  /\ UNCHANGED <<devVars, disintx, action, irq_type, ctxVars, masked,
                 virq_disabled, irqlock, callVars, userVars>>

(* vfio_virqfd_disable waits for the virqfd's handler and inject work. *)
VirqfdFlushed == unmask => pc["virqfd"] = "idle"

(* vfio_intx_disable: the virqfd, set_signal(-1), the mode, the memory. *)
StartDisable ==
  /\ Call("dis_fd")
  /\ IsIntx
  /\ UNCHANGED <<devVars, hwVars, irq_type, ctxVars, masked, virq_disabled,
                 irqlock, callVars, userVars>>

DisableFd ==
  /\ Go("ioctl", "dis_fd", "sig_free")
  /\ VirqfdFlushed
  /\ unmask' = FALSE
  /\ caller' = "disable" /\ arg' = NoFd
  /\ UNCHANGED <<devVars, hwVars, irq_type, ctx, trigger, masked,
                 virq_disabled, irqlock, userVars>>

DisableType ==
  /\ Go("ioctl", "dis_type", "dis_free")
  /\ irq_type' = "none"
  /\ UNCHANGED <<devVars, hwVars, ctxVars, masked, virq_disabled, irqlock,
                 callVars, userVars>>

DisableFree ==
  /\ Go("ioctl", "dis_free", "idle")
  /\ ctx' = FALSE
  /\ UNCHANGED <<devVars, hwVars, irq_type, trigger, unmask, masked,
                 virq_disabled, irqlock, callVars, userVars>>

(* vfio_pci_set_intx_mask, _unmask and _trigger (loopback), DATA_NONE or a *)
(* true DATA_BOOL; every other argument is refused without effect.         *)
StartMask ==
  /\ Call("mask")
  /\ IsIntx
  /\ owes' = TRUE
  /\ UNCHANGED <<devVars, hwVars, irq_type, ctxVars, masked, virq_disabled,
                 irqlock, callVars, pending>>

StartUnmask ==
  /\ Call("unmask")
  /\ IsIntx
  /\ owes' = FALSE
  /\ UNCHANGED <<devVars, hwVars, irq_type, ctxVars, masked, virq_disabled,
                 irqlock, callVars, pending>>

StartLoopback ==
  /\ Call("send")
  /\ IsIntx
  /\ UNCHANGED <<devVars, hwVars, irq_type, ctxVars, masked, virq_disabled,
                 irqlock, callVars, userVars>>

(* vfio_pci_set_intx_unmask, DATA_EVENTFD: -EBUSY when already active *)
VirqfdEnable ==
  /\ Call("idle")
  /\ IsIntx /\ ~unmask
  /\ unmask' = TRUE
  /\ UNCHANGED <<devVars, hwVars, irq_type, ctx, trigger, masked,
                 virq_disabled, irqlock, callVars, userVars>>

VirqfdDisable ==
  /\ Call("idle")
  /\ IsIntx /\ unmask
  /\ VirqfdFlushed
  /\ unmask' = FALSE
  /\ UNCHANGED <<devVars, hwVars, irq_type, ctx, trigger, masked,
                 virq_disabled, irqlock, callVars, userVars>>

-----------------------------------------------------------------------------
(* The other actors *)

(* The user writes the unmask eventfd; a mask call under way is still to   *)
(* be answered by another unmask.                                          *)
VirqfdWake ==
  /\ Go("virqfd", "idle", "unmask")
  /\ unmask
  /\ owes' = (owes /\ pc["ioctl"] # "idle")
  /\ UNCHANGED <<devVars, hwVars, irq_type, ctxVars, masked, virq_disabled,
                 irqlock, callVars, pending>>

(* A config write flips the virtual DisINTx bit and has the device follow. *)
ConfigWrite ==
  /\ Go("config", "idle", IF virq_disabled THEN "unmask" ELSE "mask")
  /\ SerialUser => pc["ioctl"] = "idle"
  /\ virq_disabled' = ~virq_disabled
  /\ UNCHANGED <<devVars, hwVars, irq_type, ctxVars, masked, irqlock,
                 callVars, userVars>>

DeviceAssert ==
  /\ ~line
  /\ line' = TRUE
  /\ UNCHANGED <<pci_2_3, hwVars, irq_type, ctxVars, masked, virq_disabled,
                 irqlock, pc, callVars, userVars>>

(* The user reads its eventfd and serves the device. *)
UserService ==
  /\ pending # {}
  /\ pending' = {} /\ line' = FALSE /\ owes' = TRUE
  /\ UNCHANGED <<pci_2_3, hwVars, irq_type, ctxVars, masked, virq_disabled,
                 irqlock, pc, callVars>>

Oops == \E t \in Threads : pc[t] = "oops"

(* Once a thread has died holding igate or an eventfd, others may block    *)
(* for ever: that is no deadlock of the driver's own making.               *)
Dead == Oops /\ UNCHANGED vars

-----------------------------------------------------------------------------
MaskStep(t)   == MaskLock(t) \/ MaskOther(t) \/ MaskIntx(t)
UnmaskStep(t) == UnmaskLock(t) \/ UnmaskOther(t) \/ UnmaskIntx(t)
                 \/ UnmaskPending(t)
SendStep(t)   == SendCheck(t) \/ Signal(t)
IrqStep       == IrqHandled \/ IrqNone
EnableStep    == EnableHw \/ EnableType
SignalStep    == SigFree \/ SigPut \/ SigDisableOnly \/ SigNoTrigger \/ SigGet
                 \/ SigRequest \/ SigRequestFails \/ SigRelock
DisableStep   == DisableFd \/ DisableType \/ DisableFree
StartConfig   == \E fd \in Fds : EnableAlloc(fd) \/ StartSetSignal(fd)
StartCall     == StartDisable \/ StartMask \/ StartUnmask \/ StartLoopback
                 \/ VirqfdEnable \/ VirqfdDisable

Kernel == \/ \E t \in Threads : MaskStep(t) \/ UnmaskStep(t) \/ SendStep(t)
          \/ IrqStep \/ EnableStep \/ SignalStep \/ DisableStep

Next == \/ Kernel
        \/ IrqEnter
        \/ StartConfig \/ StartCall
        \/ VirqfdWake \/ ConfigWrite
        \/ DeviceAssert \/ UserService
        \/ Dead

Spec == Init /\ [][Next]_vars

(* A kernel thread that has started finishes; irqlock is a ticket lock, so *)
(* a waiter is not overtaken for ever; an enabled, asserted, unmasked line *)
(* interrupts; and the user returns the unmask it owes by either route.    *)
Fairness ==
  /\ \A t \in Threads : SF_vars(MaskStep(t) \/ UnmaskStep(t) \/ SendStep(t))
  /\ WF_vars(EnableStep) /\ SF_vars(SignalStep) /\ SF_vars(DisableStep)
  /\ SF_vars(IrqStep)
  /\ WF_vars(IrqEnter /\ line /\ ~disintx)
  /\ SF_vars(owes /\ StartUnmask)

FairSpec == Spec /\ Fairness

-----------------------------------------------------------------------------
(* Every variable keeps to its values; the nesting of disable_irq never    *)
(* goes below zero, whichever of mask, unmask, handler and set_signal runs. *)
TypeOK ==
  /\ pci_2_3 \in PciKinds
  /\ line \in BOOLEAN /\ disintx \in BOOLEAN /\ action \in BOOLEAN
  /\ depth \in 0..MaxDepth
  /\ irq_type \in {"none", "intx"}
  /\ ctx \in BOOLEAN /\ masked \in BOOLEAN /\ trigger \in Fds
  /\ unmask \in BOOLEAN /\ virq_disabled \in BOOLEAN
  /\ irqlock \in Threads \union {"free"}
  /\ pc \in [Threads -> Steps]
  /\ caller \in {"set", "enable", "disable"} /\ arg \in Fds
  /\ pending \subseteq EventFds /\ owes \in BOOLEAN

(* The asynchronous callbacks, which take no part in igate, only run on a  *)
(* live context: the interrupt handler also finds its trigger installed.   *)
(* This is what free_irq and vfio_virqfd_disable before the kfree are for. *)
CallbacksSeeLiveContext ==
  /\ pc["irq"] # "idle" => ctx /\ IsIntx /\ trigger # NoFd
  /\ pc["virqfd"] # "idle" => ctx /\ IsIntx

(* Why: an installed handler or virqfd pins the context, and each place of *)
(* the ioctl thread says how much of it enable has built, or disable has   *)
(* taken down, in an order that leaves neither callback without it.        *)
HandlerPinsContext ==
  /\ action => ctx /\ IsIntx /\ trigger # NoFd
  /\ pc["irq"] # "idle" => action

VirqfdPinsContext ==
  /\ unmask => ctx /\ IsIntx
  /\ pc["virqfd"] # "idle" => unmask

IoctlPlaces ==
  /\ IsIntx => ctx
  /\ pc["ioctl"] \in {"en_hw", "en_type"}
       => ctx /\ ~IsIntx /\ trigger = NoFd /\ caller = "enable"
  /\ pc["ioctl"] \in {"dis_fd", "sig_free", "sig_put", "sig_get", "sig_req",
                      "sig_relock", "dis_type"} => IsIntx
  /\ pc["ioctl"] = "sig_put" => ~action
  /\ pc["ioctl"] = "sig_get" => trigger = NoFd
  /\ pc["ioctl"] = "sig_req" => trigger # NoFd /\ arg # NoFd /\ ~action
  /\ pc["ioctl"] \in {"sig_free", "sig_put", "sig_get"} /\ caller = "disable"
       => ~unmask /\ arg = NoFd
  /\ pc["ioctl"] = "dis_type" => trigger = NoFd /\ ~unmask
  /\ pc["ioctl"] = "dis_free" => ctx /\ ~IsIntx

ContextInv == HandlerPinsContext /\ VirqfdPinsContext /\ IoctlPlaces

(* The vfio_pci_intrs.c:46-51 and 86-89 comments: the physical mask is     *)
(* what ctx[0].masked says, whenever no one is between the two under       *)
(* irqlock.  A device without DisINTx is masked by disable_irq, which only *)
(* means something once the handler is requested and set_signal is done.   *)
PhysicalMask == IF pci_2_3 THEN disintx ELSE depth > 0

PhysicalFollowsVirtual ==
  IsIntx /\ irqlock = "free"
         /\ (~pci_2_3 => action /\ pc["ioctl"] # "sig_relock")
    => PhysicalMask = masked

(* A config write that found the device in INTx mode still finds its ctx   *)
(* when it gets to ctx[0] (vfio_pci_intrs.c:46-51: masking "can come from  *)
(* interrupt, ioctl, or config space").  The code does not keep it: see    *)
(* "Known limits" in the README.                                           *)
ConfigSeesLiveContext ==
  pc["config"] \in {"mask_intx", "unmask_intx"} => ctx

(* Re-sending an interrupt to the user (vfio_pci_intrs.c:94-98) finds a    *)
(* trigger eventfd to signal.  The code does not keep it either.           *)
SignalFindsTrigger == \A t \in Threads : pc[t] = "signal" => HasTrigger

(* A device interrupt raised while INTx is configured reaches the user,    *)
(* unless the device drops it, the user takes the handler away or disables *)
(* interrupts in config space, or a thread has died.                       *)
Excused == ~line \/ ~action \/ virq_disabled \/ Oops
NoLostInterrupt == (line /\ action) ~> (pending # {} \/ Excused)

-----------------------------------------------------------------------------
(* INTx implements the interrupt life cycle: its one vector has a handler  *)
(* while vfio_intx_handler is requested.                                   *)
Life == INSTANCE IrqLifecycle
          WITH Modes <- {"intx"}, Vectors <- {0}, NoMode <- "none",
               mode <- irq_type,
               handlers <- IF action THEN {0} ELSE {}

LifeSpec == Life!AbsSpec
=============================================================================
