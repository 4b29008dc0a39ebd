----------------------------- MODULE VfioRegions -----------------------------
(***************************************************************************)
(* The regions of one vfio-pci device: what a user is told of them, and    *)
(* which of them it may read, write and map (kernel_app/lock/vfio_pci.c,   *)
(* lines 113-179, 558-781 and 1040-1157, with the parts of enable,         *)
(* 259-292, and disable, 309-331, that set these regions up and take them  *)
(* down).                                                                  *)
(*                                                                         *)
(* One BAR, in a memory space of Space units, PageSize units to a page.    *)
(* The six BARs only share dummy_resources_list and are otherwise handled  *)
(* alike.  Next to the BAR the host hot-adds and removes other devices.    *)
(* Users open the device, map the BAR and close it; open, release and what *)
(* they call run under driver_lock, mmap under no lock of the driver.      *)
(***************************************************************************)
EXTENDS Naturals, FiniteSets

CONSTANTS
  Users,
  PageSize, Space,
  Layouts,    \* what the BAR may be: see Layout
  NoTable,    \* the MSI-X table is not in this BAR
  Igd,        \* TRUE: the device is an Intel VGA, with IGD regions
  VgaKinds,   \* is it a VGA device to be accessed as such?  values considered
  Roms        \* the expansion ROMs considered: "none", "dead" or "good"

(* BARs and pages are powers of two, so that a BAR of a page or more is    *)
(* made of whole pages.                                                    *)
Layout(b) == /\ b.mem \in BOOLEAN                \* IORESOURCE_MEM
             /\ b.start \in 0..Space-1 /\ b.len \in 0..Space
             /\ b.start + b.len <= Space
             /\ b.len >= PageSize
                  => b.start % PageSize = 0 /\ b.len % PageSize = 0
             /\ \/ b.table = NoTable
                \/ /\ b.table.offset \in Nat /\ b.table.size \in Nat
                   /\ b.table.offset + b.table.size <= b.len

ASSUME RegionsAssumption ==
  /\ PageSize \in Nat \ {0} /\ Space \in Nat
  /\ Igd \in BOOLEAN /\ VgaKinds \subseteq BOOLEAN
  /\ Roms \subseteq {"none", "dead", "good"}
  /\ \A b \in Layouts : Layout(b)

VARIABLES
  bar,               \* the BAR, one of Layouts
  vga,               \* a VGA device, and disable_vga is unset: has_vga
  others,            \* units of other devices' resources
  dummy,             \* units of the dummy resource
  listed,            \* dummy_resources_list was initialised
  mmap_supported,    \* bar_mmap_supported
  num_regions,       \* device specific regions registered
  claimed, barmap,   \* the region is requested; barmap is set
  users,             \* who has the device open (refcnt)
  pc,                \* where each user's mmap call is; "oops": killed
  mapping            \* the pages of the BAR each user has mapped

devVars    == <<bar, vga>>
driverVars == <<dummy, listed, mmap_supported, num_regions>>
claimVars  == <<claimed, barmap>>
vars == <<devVars, others, driverVars, claimVars, users, pc, mapping>>

PageStart(a) == (a \div PageSize) * PageSize
PageAlign(a) == PageStart(a + PageSize - 1)
Units(first, len) == {a \in 0..Space-1 : first <= a /\ a < first + len}
BarUnits == Units(bar.start, bar.len)

(* A BAR has a power of two as its size, and is aligned to it. *)
Spans == {s \in (0..Space-1) \X {1, 2} :
            s[1] % s[2] = 0 /\ s[1] + s[2] <= Space}
FreeFor(a, n) ==
  Units(a, n) \intersect (BarUnits \union dummy \union others) = {}

Init ==
  /\ bar \in Layouts /\ vga \in VgaKinds
  /\ dummy = {} /\ others = {}
  /\ listed = FALSE /\ mmap_supported = FALSE /\ num_regions = 0
  /\ claimed = FALSE /\ barmap = FALSE
  /\ users = {}
  /\ pc = [u \in Users |-> "idle"] /\ mapping = [u \in Users |-> {}]

Oops == \E u \in Users : pc[u] = "oops"

-----------------------------------------------------------------------------
(* The host: another device appears in free memory, or goes. *)
HotAdd ==
  /\ others = {}
  /\ \E s \in Spans : FreeFor(s[1], s[2]) /\ others' = Units(s[1], s[2])
  /\ UNCHANGED <<devVars, driverVars, claimVars, users, pc, mapping>>

HotRemove ==
  /\ others # {} /\ others' = {}
  /\ UNCHANGED <<devVars, driverVars, claimVars, users, pc, mapping>>

-----------------------------------------------------------------------------
(* vfio_pci_probe_mmaps: the rest of a sub-page BAR's page is requested,   *)
(* or the BAR cannot be mapped.                                            *)
WholePages == bar.mem /\ bar.len >= PageSize
SubPage    == bar.mem /\ bar.len \in 1..PageSize-1 /\ bar.start % PageSize = 0
Rest       == Units(bar.start + bar.len, PageSize - bar.len)

RestIgnored == {}                      \* mutant: the rest is not requested
RestTaken   == Rest

ProbeMmaps ==
  \/ /\ SubPage /\ Rest \intersect others = {}
     /\ dummy' = RestTaken /\ mmap_supported' = TRUE
  \/ /\ dummy' = {} /\ mmap_supported' = WholePages   \* or kzalloc fails

(* First open; vfio_pci_igd_init registers up to two regions, each at the  *)
(* end of vdev->region (vfio_pci_register_dev_region).                     *)
Registered == num_regions + IF Igd THEN 2 ELSE 0

Enable(u) ==
  /\ users = {} /\ ~Oops
  /\ users' = {u}
  /\ num_regions' \in num_regions..Registered
  /\ listed' = TRUE
  /\ ProbeMmaps
  /\ UNCHANGED <<devVars, others, claimVars, pc, mapping>>

(* igd_init fails: vfio_pci_disable releases what it registered and walks  *)
(* dummy_resources_list, which probe_mmaps would have initialised.         *)
EnableIgdFails(u) ==
  /\ users = {} /\ ~Oops /\ Igd
  /\ pc' = [pc EXCEPT ![u] = IF listed THEN "idle" ELSE "oops"]
  /\ UNCHANGED <<devVars, others, driverVars, claimVars, users, mapping>>

OpenAgain(u) ==
  /\ users # {} /\ u \notin users
  /\ users' = users \union {u}
  /\ UNCHANGED <<devVars, others, driverVars, claimVars, pc, mapping>>

(* A mapping holds the file, so that a release comes after the munmap and  *)
(* no mmap call is under way.                                              *)
Idle(u) == pc[u] = "idle" /\ mapping[u] = {}

ReleaseOther(u) ==
  /\ u \in users /\ users # {u} /\ Idle(u)
  /\ users' = users \ {u}
  /\ UNCHANGED <<devVars, others, driverVars, claimVars, pc, mapping>>

(* vfio_pci_disable *)
RegionsKept == num_regions             \* mutant: num_regions is not reset
RegionsLeft == 0

Disable(u) ==
  /\ users = {u} /\ Idle(u)
  /\ users' = {}
  /\ num_regions' = RegionsLeft
  /\ claimed' = (claimed /\ ~barmap) /\ barmap' = FALSE
  /\ dummy' = {}
  /\ UNCHANGED <<devVars, others, listed, mmap_supported, pc, mapping>>

-----------------------------------------------------------------------------
(* The MSI-X table, and the areas around it that VFIO_DEVICE_GET_REGION_INFO *)
(* advertises (msix_sparse_mmap_cap); an area not filled in is all zero.   *)
HasTable == bar.table # NoTable
TableEnd == bar.table.offset + bar.table.size

Area(offset, size) == IF size > 0 THEN {[offset |-> offset, size |-> size]}
                      ELSE {}

SparseAreas ==
  LET above == PageAlign(TableEnd)
      areas == Area(0, PageStart(bar.table.offset)) \union
                 (IF above < bar.len THEN Area(above, bar.len - above) ELSE {})
  IN  IF areas = {} THEN {[offset |-> 0, size |-> 0]} ELSE areas

Areas == IF ~mmap_supported \/ bar.len = 0 THEN {}
         ELSE IF HasTable THEN SparseAreas
         ELSE {[offset |-> 0, size |-> bar.len]}

(* The other regions by their index; from NUM_REGIONS on they are device   *)
(* specific.  What GET_REGION_INFO says of them, if it answers.            *)
Bar == 0
Rom == 6
Config == 7
Vga == 8
NUM_REGIONS == 9
Indexes == {Bar, Rom, Config, Vga} \union NUM_REGIONS..NUM_REGIONS + 2

NumRegions == NUM_REGIONS + num_regions      \* VFIO_DEVICE_GET_INFO

RegionInfo(i) == i < NumRegions /\ (i = Vga => vga)

ReadWrite == {"read", "write"}

InfoFlags(i, rom) ==
  CASE i = Bar -> IF bar.len = 0 THEN {} ELSE ReadWrite
    [] i = Rom -> IF rom = "good" THEN {"read"} ELSE {}
    [] i \in {Config, Vga} -> ReadWrite
    [] OTHER -> {"read"}             \* what vfio_pci_igd_init registers

(* vfio_pci_rw: the handler, and what the handlers refuse (external) *)
Rw(i, way) ==
  CASE i >= NumRegions -> "EINVAL"
    [] i = Rom /\ way = "write" -> "EINVAL"
    [] i = Config -> "config_rw"
    [] i = Bar \/ (i = Rom /\ way = "read") -> "bar_rw"
    [] i = Vga -> "vga_rw"
    [] OTHER -> "region_rw"

HandlerServes(i, way, rom) ==
  CASE i = Bar -> bar.len > 0
    [] i = Rom -> rom = "good"
    [] i = Config -> TRUE
    [] i = Vga -> vga
    [] OTHER -> way = "read"

Serves(i, way, rom) == Rw(i, way) # "EINVAL" /\ HandlerServes(i, way, rom)

-----------------------------------------------------------------------------
(* vfio_pci_mmap: what it accepts, in pages of the BAR *)
Pages == 0..(PageAlign(Space) \div PageSize) - 1
Range2(first, n) == {p \in Pages : first <= p /\ p < first + n}

StartNotTested(first, n) ==            \* mutant: the start may be inside
  \/ first * PageSize >= bar.table.offset
  \/ (first + n) * PageSize <= bar.table.offset
AroundTable(first, n) ==
  \/ first * PageSize >= TableEnd
  \/ (first + n) * PageSize <= bar.table.offset

Mappable(first, n) ==
  /\ mmap_supported
  /\ (first + n) * PageSize <= PageAlign(bar.len)
  /\ HasTable => AroundTable(first, n)

(* The calls: the region is requested once, then barmap is set. *)
Map(u, pages) == mapping' = [mapping EXCEPT ![u] = pages]
Go(u, to) == pc' = [pc EXCEPT ![u] = to]

MmapAgain(u) ==
  /\ u \in users /\ Idle(u) /\ barmap
  /\ \E first, n \in Pages : /\ Mappable(first, n + 1)
                             /\ Map(u, Range2(first, n + 1))
  /\ UNCHANGED <<devVars, others, driverVars, claimVars, users, pc>>

MmapFirst(u) ==
  /\ u \in users /\ Idle(u) /\ ~barmap
  /\ \E first, n \in Pages : Mappable(first, n + 1)
  /\ Go(u, "request")
  /\ UNCHANGED <<devVars, others, driverVars, claimVars, users, mapping>>

MmapRequest(u) ==
  /\ pc[u] = "request"
  /\ ~claimed /\ claimed' = TRUE
  /\ Go(u, "iomap")
  /\ UNCHANGED <<devVars, others, driverVars, barmap, users, mapping>>

(* pci_request_selected_regions: -EBUSY *)
MmapBusy(u) ==
  /\ pc[u] = "request" /\ claimed
  /\ Go(u, "idle")
  /\ UNCHANGED <<devVars, others, driverVars, claimVars, users, mapping>>

MmapIomap(u) ==
  /\ pc[u] = "iomap"
  /\ barmap' = TRUE
  /\ Go(u, "idle")
  /\ \E first, n \in Pages : /\ Mappable(first, n + 1)
                             /\ Map(u, Range2(first, n + 1))
  /\ UNCHANGED <<devVars, others, driverVars, claimed, users>>

RequestKept == claimed                 \* mutant: not released on -ENOMEM
RequestUndone == FALSE

MmapNoMem(u) ==
  /\ pc[u] = "iomap"
  /\ claimed' = RequestUndone
  /\ Go(u, "idle")
  /\ UNCHANGED <<devVars, others, driverVars, barmap, users, mapping>>

Munmap(u) ==
  /\ mapping[u] # {} /\ Map(u, {})
  /\ UNCHANGED <<devVars, others, driverVars, claimVars, users, pc>>

Next == \/ HotAdd \/ HotRemove
        \/ \E u \in Users :
             \/ Enable(u) \/ EnableIgdFails(u) \/ OpenAgain(u)
             \/ ReleaseOther(u) \/ Disable(u)
             \/ MmapAgain(u) \/ MmapFirst(u) \/ MmapRequest(u) \/ MmapBusy(u)
             \/ MmapIomap(u) \/ MmapNoMem(u) \/ Munmap(u)

Spec == Init /\ [][Next]_vars
-----------------------------------------------------------------------------
(* Every variable keeps to its values: in particular a dummy resource and  *)
(* another device never share a unit of memory.                            *)
TypeOK ==
  /\ bar \in Layouts /\ vga \in VgaKinds
  /\ others \subseteq 0..Space-1 /\ dummy \subseteq 0..Space-1
  /\ others \intersect (BarUnits \union dummy) = {}
  /\ listed \in BOOLEAN /\ mmap_supported \in BOOLEAN /\ num_regions \in 0..2
  /\ claimed \in BOOLEAN /\ barmap \in BOOLEAN
  /\ users \subseteq Users
  /\ pc \in [Users -> {"idle", "request", "iomap", "oops"}]
  /\ mapping \in [Users -> SUBSET Pages]

(* A user never reaches memory of another device, hot-added or not, nor    *)
(* the MSI-X table, through a page it has mapped (vfio_pci.c:144-148 and   *)
(* 1119-1126): the physical pages hold the BAR and its dummy resource only. *)
Reached(u) == UNION {Units(PageStart(bar.start) + p * PageSize, PageSize) :
                       p \in mapping[u]}
Table == IF HasTable THEN Units(bar.start + bar.table.offset, bar.table.size)
         ELSE {}

MappedPagesArePrivate ==
  \A u \in Users : Reached(u) \intersect (others \union Table) = {}

(* What GET_REGION_INFO advertises as mappable is what mmap accepts, page  *)
(* by page: around an MSI-X table nothing is promised that is refused, and *)
(* nothing is withheld that could be had.  And what it advertises as       *)
(* readable or writable is what read and write serve, for the regions of   *)
(* this open and for no index left over from an earlier one.               *)
Advertised(p) == \E area \in Areas : /\ area.offset <= p * PageSize
                                    /\ p * PageSize < area.offset + area.size

AdvertisedIsServed ==
  users # {} =>
    /\ \A p \in Pages : Mappable(p, 1) <=> Advertised(p)
    /\ \A i \in Indexes, way \in ReadWrite, rom \in Roms :
         Serves(i, way, rom) <=> RegionInfo(i) /\ way \in InfoFlags(i, rom)

(* Once the last user is gone the driver holds no memory resource, no BAR  *)
(* and no device specific region, however its calls failed.                *)
NothingLeftBehind ==
  users = {} => dummy = {} /\ ~claimed /\ ~barmap /\ num_regions = 0

(* "we need to request the region and the barmap tracks that"              *)
(* (vfio_pci.c:1134-1137): no mmap is refused because the driver itself    *)
(* has the region.  The code does not keep it: see "Known limits" in the   *)
(* README.                                                                 *)
NeverBusyWithItself ==
  [][\A u \in Users : ~(pc[u] = "request" /\ claimed /\ pc'[u] = "idle")]_vars

(* An open that "Failed to setup Intel IGD regions" (vfio_pci.c:282-285)   *)
(* is an error of that open and no more.  The code does not keep it: see   *)
(* "Known limits" in the README.                                           *)
IgdFailureIsAnError == ~Oops
=============================================================================
