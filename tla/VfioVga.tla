------------------------------ MODULE VfioVga ------------------------------
(***************************************************************************)
(* What vfio-pci answers the VGA arbiter (kernel_app/lock/vfio_pci.c,      *)
(* lines 60-106; called at probe, 1221-1225, and by the arbiter whenever   *)
(* VGA devices come and go): which of the VGA ranges its device decodes.   *)
(*                                                                         *)
(* A bus has a number within its domain and reaches up to the highest      *)
(* number assigned below it (pci_bus_max_busnr); a root bus has no bridge. *)
(***************************************************************************)
EXTENDS Naturals

CONSTANTS
  Devs, NoDev,
  VgaDevs,       \* the devices of class PCI_CLASS_DISPLAY_VGA
  BusOf,         \* BusOf[d]: the bus of the device
  Bridge,        \* Bridge[b]: the bridge to that bus, or NoDev
  DomainOf,      \* DomainOf[b]: its domain
  BusNr, MaxNr   \* BusNr[b], MaxNr[b]: its number, and the highest below it

Buses == DOMAIN Bridge

(* The bus, and those on the way up to the root bus: what is in every set  *)
(* that has the bus, and with any bus the one its bridge is on             *)
UpClosed(S) == \A b \in S : Bridge[b] # NoDev => BusOf[Bridge[b]] \in S

Upstream(b) ==
  {c \in Buses : \A S \in SUBSET Buses : b \in S /\ UpClosed(S) => c \in S}

(* How buses are numbered (external): from a bus down the numbers go up    *)
(* and stay within its range, and in a domain the ranges of two buses of   *)
(* which neither is above the other are apart.                             *)
Within(b, c) == /\ DomainOf[b] = DomainOf[c]
                /\ BusNr[c] <= BusNr[b] /\ MaxNr[b] <= MaxNr[c]
                /\ BusNr[b] = BusNr[c] => b = c

Apart(b, c) == \/ DomainOf[b] # DomainOf[c]
               \/ MaxNr[b] < BusNr[c] \/ MaxNr[c] < BusNr[b]

Numbered ==
  /\ NoDev \notin Devs /\ VgaDevs \subseteq Devs
  /\ BusOf \in [Devs -> Buses] /\ Bridge \in [Buses -> Devs \union {NoDev}]
  /\ \A b \in Buses : /\ BusNr[b] \in Nat /\ MaxNr[b] \in Nat
                       /\ BusNr[b] <= MaxNr[b]
  /\ \A b, c \in Buses :
       /\ c \in Upstream(b) => Within(b, c)
       /\ c \notin Upstream(b) /\ b \notin Upstream(c) => Apart(b, c)

IsRootBus(b) == Bridge[b] = NoDev

Normal == {"normal io", "normal mem"}
Legacy == {"legacy io", "legacy mem"}

MaxBusnr(b) == MaxNr[b]

OwnBus(b) == {BusNr[b]}                \* mutant: the buses further down
Below(b)  == BusNr[b]..MaxBusnr(b)     \* are ignored

(* vfio_pci_set_vga_decode, with the devices that are present *)
SetVgaDecode(pdev, present, single_vga, vga_disabled) ==
  LET own   == BusOf[pdev]
      rival == {tmp \in (present \intersect VgaDevs) \ {pdev} :
                  /\ DomainOf[BusOf[tmp]] = DomainOf[own]
                  /\ ~IsRootBus(BusOf[tmp])
                  /\ BusNr[BusOf[tmp]] \in Below(own)}
  IN  IF single_vga \/ ~vga_disabled \/ IsRootBus(own) \/ rival # {}
      THEN Normal \union Legacy
      ELSE Normal
-----------------------------------------------------------------------------
(* "if the device is the only VGA device downstream of a bridge and VFIO   *)
(* VGA support is disabled, then we can safely return legacy VGA IO and    *)
(* memory as not decoded" (vfio_pci.c:69-76): legacy decoding is given up  *)
(* exactly then, by the tree of bridges and not by bus numbers.            *)
OnlyVgaBelowBridge(pdev, present) ==
  /\ Bridge[BusOf[pdev]] # NoDev
  /\ \A d \in (present \intersect VgaDevs) \ {pdev} :
       BusOf[pdev] \notin Upstream(BusOf[d])

VgaDecodeRight(present) ==
  \A pdev \in present \intersect VgaDevs, vga_disabled \in BOOLEAN :
    Legacy \intersect SetVgaDecode(pdev, present, FALSE, vga_disabled) = {}
      <=> vga_disabled /\ OnlyVgaBelowBridge(pdev, present)
=============================================================================
