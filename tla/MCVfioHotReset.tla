--------------------------- MODULE MCVfioHotReset ---------------------------
(* Instances of VfioHotReset for TLC: on the top bus the function in use   *)
(* and a bridge in the same slot, with a device behind it, and a device in *)
(* another slot.  For VfioVga the top bus is behind a port of a root bus,  *)
(* next to a VGA device of the host; a second domain has a bus with the    *)
(* number of the top bus.                                                  *)
EXTENDS VfioBus, TLC

CONSTANTS u1, u2, used, bridge, behind, other, g1, g2, port, port2, host, far

TwoUsers  == {u1, u2}
FourDevs  == {used, bridge, behind, other}
TheUsed   == {used}
TwoGroups == {g1, g2}
BusMap    == [d \in FourDevs |-> IF d = behind THEN "low" ELSE "top"]
SlotMap   == (used :> "s0") @@ (bridge :> "s0") @@ (behind :> "low")
               @@ (other :> "s1")
BridgeMap == ("top" :> NoDev) @@ ("low" :> bridge)
GroupMap  == (used :> g1) @@ (bridge :> g1) @@ (behind :> g2) @@ (other :> g2)

(* VGA devices are those in use, behind the bridge, of the host and far.   *)
TheHost  == {port, port2, host, far}

VgaKinds == {used, behind, host, far}
WholeBusMap == BusMap @@ (port :> "root") @@ (host :> "root")
                 @@ (port2 :> "root2") @@ (far :> "bus2")
WholeBridgeMap == ("top" :> port) @@ ("low" :> bridge) @@ ("root" :> NoDev)
                    @@ ("root2" :> NoDev) @@ ("bus2" :> port2)
DomainMap == [b \in {"root", "top", "low"} |-> 0]
               @@ [b \in {"root2", "bus2"} |-> 1]
BusNrMap  == ("root" :> 0) @@ ("top" :> 1) @@ ("low" :> 2)
               @@ ("root2" :> 0) @@ ("bus2" :> 1)
MaxNrMap  == [b \in {"root", "top", "low"} |-> 2]
               @@ [b \in {"root2", "bus2"} |-> 1]

AnyUser == Permutations(Users)
=============================================================================
