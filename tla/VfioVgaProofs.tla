--------------------------- MODULE VfioVgaProofs ---------------------------
(***************************************************************************)
(* vfio_pci_set_vga_decode for every tree of buses whose numbers are as    *)
(* the PCI core assigns them.                                              *)
(***************************************************************************)
EXTENDS VfioVga, TLAPS

(* A bus is upstream of itself, and a root bus has none but itself. *)
LEMMA OwnUpstream ==
  ASSUME NEW b \in Buses
  PROVE  /\ b \in Upstream(b)
         /\ IsRootBus(b) => Upstream(b) = {b}
<1>1. b \in Upstream(b)
  BY DEF Upstream
<1>2. ASSUME IsRootBus(b), NEW c \in Upstream(b)
      PROVE  c = b
  <2>1. {b} \in SUBSET Buses /\ b \in {b} /\ UpClosed({b})
    BY <1>2 DEF IsRootBus, UpClosed
  <2>2. c \in {b}
    BY <1>2, <2>1 DEF Upstream
  <2>. QED BY <2>2
<1>. QED BY <1>1, <1>2

(* A number in the range of a bus that is no root bus belongs to a bus     *)
(* below it, which is no root bus either; this is what the loop tests.     *)
LEMMA NumbersShowTheTree ==
  ASSUME Numbered, NEW b \in Buses, NEW own \in Buses, ~IsRootBus(own)
  PROVE  own \in Upstream(b) <=> /\ DomainOf[b] = DomainOf[own]
                                 /\ ~IsRootBus(b)
                                 /\ BusNr[b] \in Below(own)
<1>0. /\ BusNr[b] \in Nat /\ MaxNr[b] \in Nat /\ BusNr[b] <= MaxNr[b]
      /\ BusNr[own] \in Nat /\ MaxNr[own] \in Nat
      /\ BusNr[own] <= MaxNr[own]
  BY DEF Numbered
<1>1. ASSUME DomainOf[b] = DomainOf[own], BusNr[b] \in Below(own)
      PROVE  own \in Upstream(b)
  <2>1. BusNr[own] <= BusNr[b] /\ BusNr[b] <= MaxNr[own]
    BY <1>0, <1>1 DEF Below, MaxBusnr
  <2>2. ~Apart(b, own)
    BY <1>0, <1>1, <2>1 DEF Apart
  <2>3. CASE b \in Upstream(own)
    <3>1. Within(own, b)
      BY <2>3 DEF Numbered
    <3>2. own = b
      BY <1>0, <2>1, <3>1 DEF Within
    <3>. QED BY <3>2, OwnUpstream
  <2>. QED BY <2>2, <2>3 DEF Numbered
<1>2. ASSUME own \in Upstream(b)
      PROVE  /\ DomainOf[b] = DomainOf[own] /\ ~IsRootBus(b)
             /\ BusNr[b] \in Below(own)
  <2>1. ~IsRootBus(b)
    BY <1>2, OwnUpstream
  <2>2. Within(b, own)
    BY <1>2 DEF Numbered
  <2>. QED BY <1>0, <2>1, <2>2 DEF Within, Below, MaxBusnr
<1>. QED BY <1>1, <1>2

(* Legacy decoding is given up exactly where the comment says it may be,   *)
(* on any tree of buses: by a VGA device that is the only one below its    *)
(* bridge, and only with VGA support disabled (vfio_pci.c:69-76).          *)
THEOREM VgaDecodeIsRight ==
  ASSUME Numbered, NEW present \in SUBSET Devs
  PROVE  VgaDecodeRight(present)
<1>. SUFFICES ASSUME NEW pdev \in present \intersect VgaDevs,
                     NEW vga_disabled \in BOOLEAN
              PROVE  Legacy \intersect
                       SetVgaDecode(pdev, present, FALSE, vga_disabled) = {}
                     <=> vga_disabled /\ OnlyVgaBelowBridge(pdev, present)
  BY DEF VgaDecodeRight
<1>. DEFINE own == BusOf[pdev]
            rival == {tmp \in (present \intersect VgaDevs) \ {pdev} :
                        /\ DomainOf[BusOf[tmp]] = DomainOf[own]
                        /\ ~IsRootBus(BusOf[tmp])
                        /\ BusNr[BusOf[tmp]] \in Below(own)}
<1>1. /\ own \in Buses
      /\ \A d \in present \intersect VgaDevs : BusOf[d] \in Buses
  BY DEF Numbered
<1>2. Legacy \intersect SetVgaDecode(pdev, present, FALSE, vga_disabled) = {}
        <=> vga_disabled /\ ~IsRootBus(own) /\ rival = {}
  <2>1. Legacy \intersect Normal = {} /\ Legacy # {}
    BY DEF Legacy, Normal
  <2>2. SetVgaDecode(pdev, present, FALSE, vga_disabled)
          = IF ~vga_disabled \/ IsRootBus(own) \/ rival # {}
            THEN Normal \union Legacy ELSE Normal
    BY DEF SetVgaDecode
  <2>. HIDE DEF rival, own
  <2>. QED BY <2>1, <2>2
<1>3. ~IsRootBus(own) =>
        (rival = {} <=> \A d \in (present \intersect VgaDevs) \ {pdev} :
                          own \notin Upstream(BusOf[d]))
  <2>. SUFFICES ASSUME ~IsRootBus(own)
                PROVE  \A d \in (present \intersect VgaDevs) \ {pdev} :
                         d \in rival <=> own \in Upstream(BusOf[d])
    OBVIOUS
  <2>. TAKE d \in (present \intersect VgaDevs) \ {pdev}
  <2>. DEFINE b == BusOf[d]
  <2>1. b \in Buses
    BY <1>1
  <2>2. d \in rival <=> /\ DomainOf[b] = DomainOf[own]
                        /\ ~IsRootBus(b)
                        /\ BusNr[b] \in Below(own)
    OBVIOUS
  <2>. HIDE DEF own, b, rival
  <2>3. d \in rival <=> own \in Upstream(b)
    BY <1>1, <2>1, <2>2, NumbersShowTheTree
  <2>. QED BY <2>3 DEF b
<1>. QED BY <1>2, <1>3 DEF OnlyVgaBelowBridge, IsRootBus
=============================================================================
