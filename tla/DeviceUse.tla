----------------------------- MODULE DeviceUse -----------------------------
(***************************************************************************)
(* What the users of vfio-pci devices on one bus rely on, whoever opens,   *)
(* closes, resets and unbinds them (kernel_app/lock/vfio_pci.c): a device  *)
(* is opened only while it is bound, is unbound only once it is closed,    *)
(* and what a user has done to the device it has open is undone by that    *)
(* user alone.  VfioLifecycle implements it.                               *)
(***************************************************************************)
CONSTANT Devs

VARIABLES
  bound,     \* devices the driver is bound to
  open,      \* devices that are enabled for a user
  dirty      \* devices holding what a user of this binding did

vars == <<bound, open, dirty>>

Init == bound = {} /\ open = {} /\ dirty = {}

Bind(d) ==
  /\ d \notin bound
  /\ bound' = bound \union {d} /\ dirty' = dirty \ {d}
  /\ UNCHANGED open

Unbind(d) ==
  /\ d \in bound \ open
  /\ bound' = bound \ {d}
  /\ UNCHANGED <<open, dirty>>

Open(d) ==
  /\ d \in bound \ open
  /\ open' = open \union {d}
  /\ UNCHANGED <<bound, dirty>>

Use(d) ==
  /\ d \in open
  /\ dirty' = dirty \union {d}
  /\ UNCHANGED <<bound, open>>

(* The user, or the open that is to hand the device out, resets it. *)
ResetOwn(d) ==
  /\ d \in open
  /\ dirty' = dirty \ {d}
  /\ UNCHANGED <<bound, open>>

(* Closing resets the device, if that can be done. *)
Close(d) ==
  /\ d \in open
  /\ open' = open \ {d}
  /\ dirty' \in {dirty, dirty \ {d}}
  /\ UNCHANGED bound

(* A reset of the whole bus *)
ResetBus ==
  /\ open = {}
  /\ dirty' = {}
  /\ UNCHANGED <<bound, open>>

Next == ResetBus \/ \E d \in Devs : \/ Bind(d) \/ Unbind(d) \/ Open(d)
                                    \/ Use(d) \/ ResetOwn(d) \/ Close(d)

Spec == Init /\ [][Next]_vars
=============================================================================
