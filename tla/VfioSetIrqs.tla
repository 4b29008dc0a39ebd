----------------------------- MODULE VfioSetIrqs -----------------------------
(***************************************************************************)
(* The VFIO_DEVICE_SET_IRQS interface of one vfio-pci device               *)
(* (kernel_app/lock/vfio_pci.c, lines 415-452, 783-852, 1159-1177 and      *)
(* 1267-1293; vfio_pci_intrs.c, lines 407-680): which request reaches      *)
(* which mode, and the error and device-request eventfds, which outlive    *)
(* the modes.                                                              *)
(*                                                                         *)
(* Everything here runs under igate, one call at a time; what an accepted  *)
(* request does inside its mode is VfioIntx and VfioMsi.  The device is    *)
(* opened and closed by users in turn; errors and unbind requests come     *)
(* from the host at any time.                                              *)
(***************************************************************************)
EXTENDS Integers, FiniteSets

CONSTANTS
  Users,      \* users that open the device one after the other
  Nobody,
  EventFds,
  FdOwner,    \* FdOwner[fd]: the user who made the eventfd
  NoFd,       \* fd = -1, a NULL trigger
  OtherFd,    \* any other negative fd
  Vectors,    \* MSI and MSI-X vectors the device has
  NoIntxKinds, PcieKinds,  \* values of nointx and pci_is_pcie considered
  MaxOpens    \* bound: how often the device is opened

ASSUME SetIrqsAssumption ==
  /\ Nobody \notin Users
  /\ NoFd \notin EventFds /\ OtherFd \notin EventFds /\ NoFd # OtherFd
  /\ FdOwner \in [EventFds -> Users]
  /\ Vectors \in Nat \ {0} /\ MaxOpens \in Nat
  /\ NoIntxKinds \subseteq BOOLEAN /\ PcieKinds \subseteq BOOLEAN

VARIABLES
  nointx, pcie,              \* what the device is
  user, opens,               \* who has it open; how often it was
  irq_type, num_ctx,
  err_trigger, req_trigger,
  refs,                      \* references held for these two triggers
  nullread,                  \* a handler read data that was not passed
  relayed                    \* the eventfd of the last request or error

devVars == <<nointx, pcie>>
vars == <<devVars, user, opens, irq_type, num_ctx, err_trigger, req_trigger,
          refs, nullread, relayed>>

MsiModes == {"msi", "msix"}
Indexes  == {"intx", "err", "req"} \union MsiModes

Init ==
  /\ nointx \in NoIntxKinds /\ pcie \in PcieKinds
  /\ user = Nobody /\ opens = 0
  /\ irq_type = "none" /\ num_ctx = 0
  /\ err_trigger = NoFd /\ req_trigger = NoFd
  /\ refs = [fd \in EventFds |-> 0]
  /\ nullread = FALSE /\ relayed = NoFd

-----------------------------------------------------------------------------
(* vfio_pci_get_irq_count: 0 for what the device has not *)
IrqCount(index) ==
  CASE index = "intx"      -> IF nointx THEN 0 ELSE 1
    [] index \in MsiModes  -> Vectors
    [] index = "err"       -> IF pcie THEN 1 ELSE 0
    [] index = "req"       -> 1

(* VFIO_DEVICE_GET_IRQ_INFO refuses the error index of a non-PCIe device. *)
IrqInfo(index) == IF index = "err" /\ ~pcie THEN 0 ELSE IrqCount(index)

(* A request: start and count within the largest index, data of one type   *)
(* (what matters is its first element).                                    *)
Values == [none    |-> {NoFd},
           bool    |-> BOOLEAN,
           eventfd |-> EventFds \union {NoFd, OtherFd}]

Requests ==
  UNION {[index : Indexes, action : {"mask", "unmask", "trigger"},
          data : {type}, value : Values[type],
          start : 0..Vectors, count : 0..Vectors] : type \in DOMAIN Values}

(* vfio_set_irqs_validate_and_prepare *)
Valid(r) == r.start < IrqCount(r.index)
            /\ r.start + r.count <= IrqCount(r.index)

(* vfio_pci_set_irqs_ioctl: the handler, or -ENOTTY *)
Handler(r) ==
  CASE r.index = "intx" -> r.action
    [] r.index \in MsiModes /\ r.action = "trigger" -> "msi"
    [] r.index = "err" /\ r.action = "trigger" /\ pcie -> "err"
    [] r.index = "req" /\ r.action = "trigger" -> "req"
    [] OTHER -> "ENOTTY"

(* Data of count 0 is not copied in: its pointer is NULL. *)
Reads(r) == nullread' = (nullread \/ r.count = 0)

-----------------------------------------------------------------------------
(* vfio_pci_set_intx_mask and _unmask: the mode is VfioIntx's; here only   *)
(* what they read of the request.                                          *)
IntxMaskable(r) == irq_type = "intx" /\ r.start = 0 /\ r.count = 1

SetIntxMask(r) ==
  /\ Handler(r) \in {"mask", "unmask"}
  /\ IntxMaskable(r)
  /\ IF r.data = "bool" \/ (r.data = "eventfd" /\ r.action = "unmask")
     THEN Reads(r) ELSE UNCHANGED nullread
  /\ UNCHANGED <<devVars, user, opens, irq_type, num_ctx, err_trigger,
                 req_trigger, refs, relayed>>

(* vfio_pci_set_intx_trigger *)
IntxDisable(r) == irq_type = "intx" /\ r.count = 0 /\ r.data = "none"

OneVector(r) == irq_type \in {"intx", "none"} /\ r.start = 0 /\ r.count = 1

SetIntxTrigger(r) ==
  /\ Handler(r) = "trigger"
  /\ \/ /\ IntxDisable(r)
        /\ irq_type' = "none" /\ num_ctx' = 0
        /\ UNCHANGED nullread
     \/ /\ ~IntxDisable(r) /\ OneVector(r)
        /\ r.data = "eventfd"
        /\ Reads(r)
        /\ \/ irq_type' = "intx" /\ num_ctx' = 1
           \/ UNCHANGED <<irq_type, num_ctx>>    \* enable or set_signal fails
     \/ /\ ~IntxDisable(r) /\ OneVector(r)
        /\ irq_type = "intx" /\ r.data = "bool"
        /\ Reads(r)
        /\ UNCHANGED <<irq_type, num_ctx>>
  /\ UNCHANGED <<devVars, user, opens, err_trigger, req_trigger, refs,
                 relayed>>

(* vfio_pci_set_msi_trigger; vfio_msi_set_block reads fds only in its loop. *)
OtherModeIgnored(r) == TRUE            \* mutant: INTx may be in force
SameMode(r) == irq_type \in {r.index, "none"}

SetMsiTrigger(r) ==
  /\ Handler(r) = "msi"
  /\ \/ /\ irq_type = r.index /\ r.count = 0 /\ r.data = "none"
        /\ irq_type' = "none" /\ num_ctx' = 0
        /\ UNCHANGED nullread
     \/ /\ irq_type # r.index /\ SameMode(r) /\ r.data = "eventfd"
        /\ r.count > 0
        /\ irq_type' = r.index /\ num_ctx' = r.start + r.count
        /\ UNCHANGED nullread
     \/ /\ irq_type = r.index /\ r.data = "bool"
        /\ r.start + r.count <= num_ctx /\ r.count > 0
        /\ Reads(r)
        /\ UNCHANGED <<irq_type, num_ctx>>
  /\ UNCHANGED <<devVars, user, opens, err_trigger, req_trigger, refs,
                 relayed>>

-----------------------------------------------------------------------------
(* vfio_pci_set_ctx_trigger_single: the values *ctx can get.  A NULL       *)
(* trigger and DATA_NONE is -EINVAL.                                       *)
EmptyAccepted(r) == TRUE               \* mutant: count is not tested
NotEmpty(r)      == r.count > 0

NewTriggers(ctx, r) ==
  CASE r.data = "none"    -> IF r.count = 0 THEN {NoFd} ELSE {ctx}
    [] r.data = "bool"    -> {ctx}
    [] r.data = "eventfd" -> IF r.value = NoFd THEN {NoFd}
                             ELSE IF r.value = OtherFd THEN {ctx}
                             ELSE {r.value, ctx}      \* or fdget fails

SingleReads(r) ==
  IF r.data = "none" THEN UNCHANGED nullread ELSE NotEmpty(r) /\ Reads(r)

(* The new trigger is taken before the old one is put. *)
NoPut(old, new) ==                     \* mutant: the old trigger is not put
  [fd \in EventFds |-> refs[fd] + (IF fd = new /\ new # old THEN 1 ELSE 0)]
PutTwice(old, new) ==                  \* mutant: and once more by the caller
  [fd \in EventFds |-> refs[fd] + (IF fd = new THEN 1 ELSE 0)
                                - (IF fd = old THEN 2 ELSE 0)]
Swap(old, new) ==
  [fd \in EventFds |-> refs[fd] + (IF fd = new THEN 1 ELSE 0)
                                - (IF fd = old THEN 1 ELSE 0)]

SetErrTrigger(r) ==
  /\ Handler(r) = "err" /\ r.start = 0 /\ r.count <= 1
  /\ SingleReads(r)
  /\ err_trigger' \in NewTriggers(err_trigger, r)
  /\ refs' = Swap(err_trigger, err_trigger')
  /\ UNCHANGED <<devVars, user, opens, irq_type, num_ctx, req_trigger,
                 relayed>>

SetReqTrigger(r) ==
  /\ Handler(r) = "req" /\ r.start = 0 /\ r.count <= 1
  /\ SingleReads(r)
  /\ req_trigger' \in NewTriggers(req_trigger, r)
  /\ refs' = Swap(req_trigger, req_trigger')
  /\ UNCHANGED <<devVars, user, opens, irq_type, num_ctx, err_trigger,
                 relayed>>

(* A user passes eventfds of its own. *)
SetIrqs(r) ==
  /\ user # Nobody /\ Valid(r)
  /\ r.value \in EventFds => FdOwner[r.value] = user
  /\ \/ SetIntxMask(r) \/ SetIntxTrigger(r) \/ SetMsiTrigger(r)
     \/ SetErrTrigger(r) \/ SetReqTrigger(r)

-----------------------------------------------------------------------------
(* First open, and last release: vfio_pci_disable ends the current mode by *)
(* a SET_IRQS call of its own; the two triggers are left as they are.      *)
Open(u) ==
  /\ user = Nobody /\ opens < MaxOpens
  /\ user' = u /\ opens' = opens + 1
  /\ UNCHANGED <<devVars, irq_type, num_ctx, err_trigger, req_trigger, refs,
                 nullread, relayed>>

ModeKept == irq_type                   \* mutant: the mode is not ended
ModeLeft == "none"

Release ==
  /\ user # Nobody
  /\ user' = Nobody
  /\ irq_type' = ModeLeft /\ num_ctx' = 0
  /\ UNCHANGED <<devVars, opens, err_trigger, req_trigger, refs, nullread,
                 relayed>>

(* vfio_pci_request (the host wants the device back) *)
Request ==
  /\ relayed' = req_trigger
  /\ UNCHANGED <<devVars, user, opens, irq_type, num_ctx, err_trigger,
                 req_trigger, refs, nullread>>

(* vfio_pci_aer_err_detected: an error of the device is passed on *)
Error ==
  /\ relayed' = err_trigger
  /\ UNCHANGED <<devVars, user, opens, irq_type, num_ctx, err_trigger,
                 req_trigger, refs, nullread>>

Next == \/ \E r \in Requests : SetIrqs(r)
        \/ \E u \in Users : Open(u)
        \/ Release \/ Request \/ Error

Spec == Init /\ [][Next]_vars
-----------------------------------------------------------------------------
(* Every variable keeps to its values: a trigger is not put more often     *)
(* than it was got, and num_ctx never exceeds the vectors there are.       *)
TypeOK ==
  /\ nointx \in NoIntxKinds /\ pcie \in PcieKinds
  /\ user \in Users \union {Nobody} /\ opens \in 0..MaxOpens
  /\ irq_type \in {"none", "intx"} \union MsiModes /\ num_ctx \in 0..Vectors
  /\ err_trigger \in EventFds \union {NoFd}
  /\ req_trigger \in EventFds \union {NoFd}
  /\ refs \in [EventFds -> Nat] /\ nullread \in BOOLEAN
  /\ relayed \in EventFds \union {NoFd}

(* A device changes its mode only by way of no mode at all, and only while *)
(* it is open.                                                             *)
ModesAreExclusive ==
  [][irq_type' # irq_type => irq_type = "none" \/ irq_type' = "none"]_irq_type

(* No request makes a handler read data that was not passed in, whatever   *)
(* start, count, flags and index the ioctl lets through.                   *)
DataIsPassed == ~nullread

(* The references are those of the two triggers: no replacement leaks one. *)
Holds(fd, trigger) == IF trigger = fd THEN 1 ELSE 0

TriggersBalance ==
  \A fd \in EventFds :
    refs[fd] = Holds(fd, err_trigger) + Holds(fd, req_trigger)

(* What is enabled was advertised by GET_IRQ_INFO, and a closed device     *)
(* delivers no interrupts.                                                 *)
EnabledIsAdvertised ==
  /\ irq_type # "none" => /\ user # Nobody
                          /\ num_ctx \in 1..IrqInfo(irq_type)
  /\ err_trigger # NoFd => IrqInfo("err") > 0

(* A device request is relayed "to user" (vfio_pci.c:1166-1168): to the    *)
(* one who has the device open.  The code does not keep it: see "Known     *)
(* limits" in the README.                                                  *)
RequestReachesUser ==
  [][Request /\ user # Nobody /\ req_trigger # NoFd
       => FdOwner[req_trigger] = user]_vars
=============================================================================
