---------------------------- MODULE IrqLifecycle ----------------------------
(***************************************************************************)
(* What one vfio-pci device promises the host interrupt core, whatever the *)
(* delivery mode: the device is in at most one mode at a time, a handler   *)
(* is installed on a vector only while a mode is enabled, and a mode is    *)
(* left only once every vector has lost its handler.  VfioIntx and VfioMsi *)
(* are shown to implement this specification.                              *)
(***************************************************************************)
CONSTANTS Modes,    \* delivery modes a device can be put in
          Vectors,  \* vector numbers
          NoMode    \* VFIO_PCI_NUM_IRQS: no mode selected, none of Modes

VARIABLES mode, handlers

absVars == <<mode, handlers>>

AbsInit == mode = NoMode /\ handlers = {}

Select(m) == /\ mode = NoMode
             /\ mode' = m
             /\ UNCHANGED handlers

Install(v) == /\ mode \in Modes
              /\ handlers' = handlers \union {v}
              /\ UNCHANGED mode

Uninstall(v) == /\ v \in handlers
                /\ handlers' = handlers \ {v}
                /\ UNCHANGED mode

Leave == /\ mode \in Modes
         /\ handlers = {}
         /\ mode' = NoMode
         /\ UNCHANGED handlers

AbsNext == \/ \E m \in Modes : Select(m)
           \/ \E v \in Vectors : Install(v) \/ Uninstall(v)
           \/ Leave

AbsSpec == AbsInit /\ [][AbsNext]_absVars
=============================================================================
