---------------------------- MODULE VfioHotReset ----------------------------
(***************************************************************************)
(* VFIO_DEVICE_GET_PCI_HOT_RESET_INFO and VFIO_DEVICE_PCI_HOT_RESET        *)
(* (kernel_app/lock/vfio_pci.c, lines 454-556 and 858-1035).               *)
(*                                                                         *)
(* A call runs without igate or driver_lock.  It walks the bus several     *)
(* times: each walk is atomic (pci_walk_bus holds the bus semaphore), but  *)
(* between two of them devices may be added and removed, groups opened and *)
(* closed, and other calls made.  Several users call, each on a function   *)
(* of the slot "s0" of the bus "top", which stays while it is in use; what *)
(* is above that bus plays no part.                                        *)
(***************************************************************************)
EXTENDS Integers, FiniteSets, SequencesExt

CONSTANTS
  Users,
  Nobody,
  Devs,
  Used,       \* the functions the calls are made on
  NoDev,
  BusOf,      \* BusOf[d]: the bus of the device
  SlotOf,     \* SlotOf[d]: its slot on that bus
  Bridge,     \* Bridge[b]: the bridge to that bus (bus->self), or NoDev
  Groups,
  GroupOf,    \* GroupOf[d]: its IOMMU group, or NoGroup
  NoGroup,
  MaxFds,     \* bound: group fds passed, and devices a buffer has room for
  QuietBus    \* TRUE: nothing is plugged in during a hot reset

Buses == {BusOf[d] : d \in Devs}

ASSUME HotResetAssumption ==
  /\ Nobody \notin Users /\ NoDev \notin Devs /\ NoGroup \notin Groups
  /\ IsFiniteSet(Users) /\ IsFiniteSet(Devs)
  /\ Used \subseteq Devs
  /\ \A d \in Used : BusOf[d] = "top" /\ SlotOf[d] = "s0"
  /\ \A d \in Devs : BusOf[d] = "top" => Bridge[BusOf[d]] = NoDev
  /\ Bridge \in [Buses -> Devs \union {NoDev}]
  /\ GroupOf \in [Devs -> Groups \union {NoGroup}]
  /\ MaxFds \in Nat /\ QuietBus \in BOOLEAN

VARIABLES
  present,    \* devices that are plugged in
  slot,       \* the slot, rather than the bus, can be reset
  owner,      \* who has the group open (external: drivers/vfio/vfio.c)
  refs,       \* container_users held by external users of a group
  pc,         \* place of each user's call
  max,        \* fill.max, what count_devs counted for its array
  list,       \* fill.devices
  fds,        \* the groups whose fds were passed
  groups      \* groups[]: those got so far

hostVars == <<present, slot, owner>>
vars == <<hostVars, refs, pc, max, list, fds, groups>>

Init ==
  /\ present \in SUBSET Devs /\ slot \in BOOLEAN
  /\ Used \subseteq present
  /\ \A d \in present : Bridge[BusOf[d]] \in present \union {NoDev}
  /\ owner = [g \in Groups |-> Nobody] /\ refs = [g \in Groups |-> 0]
  /\ pc = [u \in Users |-> "idle"]
  /\ max = [u \in Users |-> 0] /\ list = [u \in Users |-> {}]
  /\ fds = [u \in Users |-> <<>>] /\ groups = [u \in Users |-> <<>>]

-----------------------------------------------------------------------------
(* pci_walk_bus: the devices on the bus and on the buses below it.         *)
(* vfio_pci_dev_below_slot: from the device up, the one on the slot's bus. *)
OnTop[d \in Devs \union {NoDev}] ==
  d # NoDev /\ (BusOf[d] = "top" \/ OnTop[Bridge[BusOf[d]]])

BelowSlot[d \in Devs \union {NoDev}] ==
  d # NoDev /\ IF BusOf[d] = "top" THEN SlotOf[d] = "s0"
               ELSE BelowSlot[Bridge[BusOf[d]]]

Affected == {d \in present : IF slot THEN BelowSlot[d] ELSE OnTop[d]}

(* vfio_pci_fill_devs: "Cannot reset non-isolated devices" *)
Ungrouped == {d \in Affected : GroupOf[d] = NoGroup}

-----------------------------------------------------------------------------
(* The host and the users around the calls *)
Plug(d) ==
  /\ d \notin present
  /\ Bridge[BusOf[d]] \in present \union {NoDev}
  /\ QuietBus => \A u \in Users : pc[u] \in {"idle", "fill", "copy"}
  /\ present' = present \union {d}
  /\ UNCHANGED <<slot, owner, refs, pc, max, list, fds, groups>>

Unplug(d) ==
  /\ d \in present \ Used
  /\ ~\E e \in present : Bridge[BusOf[e]] = d
  /\ present' = present \ {d}
  /\ UNCHANGED <<slot, owner, refs, pc, max, list, fds, groups>>

(* A group with external users keeps its container and is not opened anew. *)
OpenGroup(u, g) ==
  /\ owner[g] = Nobody /\ refs[g] = 0
  /\ owner' = [owner EXCEPT ![g] = u]
  /\ UNCHANGED <<present, slot, refs, pc, max, list, fds, groups>>

CloseGroup(g) ==
  /\ owner[g] # Nobody
  /\ owner' = [owner EXCEPT ![g] = Nobody]
  /\ UNCHANGED <<present, slot, refs, pc, max, list, fds, groups>>

Go(u, from, to) == pc[u] = from /\ pc' = [pc EXCEPT ![u] = to]

(* How many of the fds a call has got are of the group g *)
Times(gs, g) == Cardinality({i \in DOMAIN gs : gs[i] = g})

-----------------------------------------------------------------------------
(* VFIO_DEVICE_GET_PCI_HOT_RESET_INFO: count, and -ENOSPC if the buffer is *)
(* too small; then fill an array of that many devices, and copy it out.    *)
InfoCount(u) ==
  /\ Go(u, "idle", "fill")
  /\ max' = [max EXCEPT ![u] = Cardinality(Affected)]
  /\ UNCHANGED <<hostVars, refs, list, fds, groups>>

MaxNotTested(u) == TRUE                \* mutant: fill->max is not tested
FitsMax(u) == Cardinality(Affected) <= max[u]

InfoFill(u) ==
  /\ Go(u, "fill", "copy")
  /\ FitsMax(u) /\ Ungrouped = {}
  /\ list' = [list EXCEPT ![u] = Affected]
  /\ UNCHANGED <<hostVars, refs, max, fds, groups>>

(* -EAGAIN, or -EPERM for a device without a group *)
InfoFillFails(u) ==
  /\ Go(u, "fill", "copy")
  /\ ~FitsMax(u) \/ Ungrouped # {}
  /\ UNCHANGED <<hostVars, refs, max, list, fds, groups>>

(* reset_info_exit *)
InfoCopy(u) ==
  /\ Go(u, "copy", "idle")
  /\ max' = [max EXCEPT ![u] = 0] /\ list' = [list EXCEPT ![u] = {}]
  /\ UNCHANGED <<hostVars, refs, fds, groups>>

-----------------------------------------------------------------------------
(* VFIO_DEVICE_PCI_HOT_RESET: between 1 and count_devs group fds ...       *)
Start(u, gs) ==
  /\ Go(u, "idle", "get")
  /\ Len(gs) \in 1..Cardinality(Affected)
  /\ fds' = [fds EXCEPT ![u] = gs] /\ groups' = [groups EXCEPT ![u] = <<>>]
  /\ UNCHANGED <<hostVars, refs, max, list>>

(* ... each of which must be a group that the caller has open ... *)
NextFd(u) == fds[u][Len(groups[u]) + 1]

GetGroup(u) ==
  /\ Go(u, "get", IF Len(groups[u]) + 1 = Len(fds[u]) THEN "validate"
                                                      ELSE "get")
  /\ owner[NextFd(u)] = u
  /\ refs' = [refs EXCEPT ![NextFd(u)] = @ + 1]
  /\ groups' = [groups EXCEPT ![u] = Append(@, NextFd(u))]
  /\ UNCHANGED <<hostVars, max, list, fds>>

(* fdget or vfio_group_get_external_user fails *)
GetGroupFails(u) ==
  /\ Go(u, "get", "release")
  /\ UNCHANGED <<hostVars, refs, max, list, fds, groups>>

(* ... then vfio_pci_validate_devs: each affected device in one of them ... *)
OneIsEnough(u) ==                      \* mutant: the walk goes on after one
  \E d \in Affected : GroupOf[d] \in ToSet(groups[u])
AllContained(u) ==
  \A d \in Affected : GroupOf[d] \in ToSet(groups[u])

ReleasedEarly(gs) == <<>>              \* mutant: they are put before the reset
HeldOn(gs) == gs

Validate(u) ==
  /\ Go(u, "validate", IF AllContained(u) THEN "reset" ELSE "release")
  /\ groups' = [groups EXCEPT ![u] = HeldOn(@)]
  /\ refs' = [g \in Groups |->
               refs[g] - Times(groups[u], g) + Times(groups'[u], g)]
  /\ UNCHANGED <<hostVars, max, list, fds>>

(* ... then the reset itself, unless a device cannot be locked ... *)
Reset(u) ==
  /\ Go(u, "reset", "release")
  /\ UNCHANGED <<hostVars, refs, max, list, fds, groups>>

(* ... and in every case the references got are put. *)
OneForgotten(u) == IF groups[u] = <<>> THEN <<>>   \* mutant: i-- twice
                   ELSE Front(groups[u])
AllGot(u) == groups[u]

Release(u) ==
  /\ Go(u, "release", "idle")
  /\ refs' = [g \in Groups |-> refs[g] - Times(AllGot(u), g)]
  /\ groups' = [groups EXCEPT ![u] = <<>>]
  /\ fds' = [fds EXCEPT ![u] = <<>>]
  /\ UNCHANGED <<hostVars, max, list>>

Next ==
  \/ \E d \in Devs : Plug(d) \/ Unplug(d)
  \/ \E g \in Groups : CloseGroup(g) \/ \E u \in Users : OpenGroup(u, g)
  \/ \E u \in Users :
       \/ InfoCount(u) \/ InfoFill(u) \/ InfoFillFails(u) \/ InfoCopy(u)
       \/ \E gs \in SeqOf(Groups, MaxFds) : Start(u, gs)
       \/ GetGroup(u) \/ GetGroupFails(u) \/ Validate(u) \/ Reset(u)
       \/ Release(u)

Spec == Init /\ [][Next]_vars
-----------------------------------------------------------------------------
(* Every variable keeps to its values; in particular a group is never put  *)
(* more often than it was got, and a reported list fits the array that     *)
(* count_devs sized, however the bus changed in between ("Something        *)
(* changed, try again", vfio_pci.c:472).                                   *)
TypeOK ==
  /\ present \subseteq Devs /\ slot \in BOOLEAN
  /\ owner \in [Groups -> Users \union {Nobody}]
  /\ refs \in [Groups -> Nat]
  /\ pc \in [Users -> {"idle", "fill", "copy", "get", "validate", "reset",
                    "release"}]
  /\ max \in [Users -> 0..Cardinality(Devs)]
  /\ list \in [Users -> SUBSET Devs]
  /\ \A u \in Users : Cardinality(list[u]) <= max[u]
  /\ \A u \in Users : /\ fds[u] \in SeqOf(Groups, MaxFds)
                      /\ IsPrefix(groups[u], fds[u])

(* The group references are those of the calls under way, through every    *)
(* early exit and with the same fd passed twice (vfio_pci.c:1029-1031).    *)
Held(g) == {h \in Users \X (1..MaxFds) :
              h[2] \in DOMAIN groups[h[1]] /\ groups[h[1]][h[2]] = g}

ReferencesBalance == \A g \in Groups : refs[g] = Cardinality(Held(g))

(* What the reset hits: the functions in the slot (or all those on the     *)
(* bus) and whatever is behind one of them.  Above a device is what is in  *)
(* every set that has it and, with any device, the bridge to its bus.      *)
UpClosed(S) == \A e \in S : Bridge[BusOf[e]] # NoDev => Bridge[BusOf[e]] \in S

Above(d) ==
  {f \in Devs : \A S \in SUBSET Devs : d \in S /\ UpClosed(S) => f \in S}

Hit == {d \in present :
          \E f \in Above(d) : BusOf[f] = "top" /\ (slot => SlotOf[f] = "s0")}

(* A hot reset never hits a device that another user owns: the groups are  *)
(* "held across the reset" (vfio_pci.c:985-987), so that a group closed by *)
(* the caller in the middle of its call is not handed on meanwhile.        *)
ResetSparesOthers ==
  [][\A u \in Users : Reset(u) =>
       \A d \in Hit : GroupOf[d] \in Groups
                             => owner[GroupOf[d]] \in {u, Nobody}]_vars

(* "Test whether all the affected devices are contained by the set of      *)
(* groups provided by the user" (vfio_pci.c:1017-1020): what is reset is   *)
(* what was tested.                                                        *)
ResetWithinGroups ==
  [][\A u \in Users : Reset(u) =>
       \A d \in Hit : GroupOf[d] \in ToSet(groups[u])]_vars
=============================================================================
