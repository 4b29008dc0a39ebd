-------------------------- MODULE VfioRegionsProofs --------------------------
(***************************************************************************)
(* VfioRegions for every BAR, page size, MSI-X table and number of users.  *)
(***************************************************************************)
EXTENDS VfioRegions, TLAPS

(* The region is requested by the one mmap call that is to set barmap, or  *)
(* barmap is set.                                                          *)
ClaimInv ==
  /\ barmap => claimed
  /\ claimed => barmap \/ \E u \in Users : pc[u] = "iomap"
  /\ \A u \in Users : pc[u] = "iomap" => claimed /\ ~barmap
  /\ \A u, v \in Users : pc[u] = "iomap" /\ pc[v] = "iomap" => u = v

(* Who maps, or is in mmap, has the device open. *)
UserInv ==
  \A u \in Users :
    pc[u] \in {"request", "iomap"} \/ mapping[u] # {} => u \in users

(* While it is open the BAR is mappable only in whole pages of its own. *)
ProbeInv ==
  users # {} /\ mmap_supported => WholePages \/ (SubPage /\ dummy = Rest)

(* Every page that is mapped is one mmap would accept on its own. *)
MapInv == \A u \in Users : \A p \in mapping[u] : Mappable(p, 1)

RegionsInv == /\ TypeOK /\ ClaimInv /\ UserInv /\ ProbeInv /\ MapInv
              /\ NothingLeftBehind

-----------------------------------------------------------------------------
(* Rounding down to a page loses less than a page. *)
LEMMA PageStartBounds ==
  ASSUME NEW a \in Nat
  PROVE  /\ PageStart(a) \in Nat
         /\ PageStart(a) <= a /\ a < PageStart(a) + PageSize
<1>1. a \div PageSize \in Nat
  BY RegionsAssumption
<1>2. (a \div PageSize) * PageSize <= a
  BY RegionsAssumption
<1>3. a < (a \div PageSize) * PageSize + PageSize
  BY RegionsAssumption
<1>. QED BY <1>1, <1>2, <1>3, RegionsAssumption DEF PageStart

(* Pages are ordered as their addresses are. *)
LEMMA PageOrder ==
  ASSUME NEW p \in Nat, NEW q \in Nat
  PROVE  /\ p * PageSize \in Nat
         /\ (p + 1) * PageSize = p * PageSize + PageSize
         /\ p <= q => p * PageSize <= q * PageSize
         /\ p < q => (p + 1) * PageSize <= q * PageSize
         /\ p * PageSize < q * PageSize => p < q
<1>1. p <= q => p * PageSize <= q * PageSize
  BY RegionsAssumption
<1>2. p < q => (p + 1) * PageSize <= q * PageSize
  BY RegionsAssumption
<1>3. p * PageSize < q * PageSize => p < q
  BY RegionsAssumption
<1>4. p * PageSize \in Nat /\ (p + 1) * PageSize = p * PageSize + PageSize
  BY RegionsAssumption
<1>. QED BY <1>1, <1>2, <1>3, <1>4

(* A page begins below n rounded down just when it ends at n or below. *)
LEMMA PageBelowStart ==
  ASSUME NEW p \in Nat, NEW n \in Nat
  PROVE  p * PageSize < PageStart(n) <=> (p + 1) * PageSize <= n
<1>. DEFINE q == n \div PageSize
<1>1. q \in Nat /\ PageStart(n) = q * PageSize
  BY RegionsAssumption DEF PageStart
<1>2. q * PageSize <= n /\ n < q * PageSize + PageSize
  BY <1>1, PageStartBounds
<1>. HIDE DEF q
<1>3. CASE p < q
  BY <1>1, <1>2, <1>3, PageOrder, RegionsAssumption
<1>4. CASE q <= p
  <2>1. q * PageSize <= p * PageSize
    BY <1>1, <1>4, PageOrder
  <2>. QED BY <1>1, <1>2, <2>1, PageOrder, RegionsAssumption
<1>. QED BY <1>1, <1>3, <1>4

(* A page ends within n rounded up just when it begins below n, and begins *)
(* at n rounded up or above just when it begins at n or above.             *)
LEMMA PageBelowAlign ==
  ASSUME NEW p \in Nat, NEW n \in Nat
  PROVE  /\ PageAlign(n) \in Nat
         /\ n <= PageAlign(n)
         /\ p * PageSize < n <=> (p + 1) * PageSize <= PageAlign(n)
         /\ PageAlign(n) <= p * PageSize <=> n <= p * PageSize
<1>. DEFINE m == n + PageSize - 1
            q == m \div PageSize
<1>1. m \in Nat
  BY RegionsAssumption
<1>. HIDE DEF m
<1>2. q \in Nat /\ PageAlign(n) = q * PageSize
  BY <1>1, RegionsAssumption DEF PageAlign, PageStart, m
<1>3. q * PageSize <= m /\ m < q * PageSize + PageSize
  BY <1>1, PageStartBounds DEF PageStart
<1>. HIDE DEF q
<1>4. q * PageSize \in Nat /\ n <= q * PageSize /\ q * PageSize < n + PageSize
  BY <1>2, <1>3, PageOrder, RegionsAssumption DEF m
<1>5. CASE p < q
  <2>1. p * PageSize + PageSize <= q * PageSize
    BY <1>2, <1>5, PageOrder
  <2>. QED BY <1>2, <1>4, <2>1, PageOrder, RegionsAssumption
<1>6. CASE q <= p
  <2>1. q * PageSize <= p * PageSize
    BY <1>2, <1>6, PageOrder
  <2>. QED BY <1>2, <1>4, <2>1, PageOrder, RegionsAssumption
<1>. QED BY <1>2, <1>5, <1>6

(* Whole pages need no rounding. *)
LEMMA WholePagesAlign ==
  ASSUME NEW n \in Nat, n % PageSize = 0
  PROVE  PageStart(n) = n /\ PageAlign(n) = n
<1>1. PageStart(n) = n
  BY RegionsAssumption DEF PageStart
<1>. DEFINE q == n \div PageSize
<1>2. q \in Nat /\ n = q * PageSize
  BY <1>1, RegionsAssumption DEF PageStart
<1>. HIDE DEF q
<1>3. n <= q * PageSize
  BY <1>2, PageOrder
<1>4. PageAlign(n) <= n
  BY <1>2, <1>3, PageBelowAlign
<1>. QED BY <1>1, <1>4, PageBelowAlign

-----------------------------------------------------------------------------
(* The dummy resource is taken from memory no other device has, and a      *)
(* hot-added device gets none of it.                                       *)
LEMMA TypeStep ==
  ASSUME RegionsInv, [Next]_vars
  PROVE  TypeOK'
<1>a. TypeOK /\ (users = {} => num_regions = 0)
  BY DEF RegionsInv, NothingLeftBehind
<1>. USE DEF TypeOK, BarUnits, devVars, driverVars, claimVars
<1>1. CASE HotAdd
  <2>1. PICK s \in Spans : FreeFor(s[1], s[2]) /\ others' = Units(s[1], s[2])
    BY <1>1 DEF HotAdd
  <2>2. /\ others' \subseteq 0..Space-1
        /\ others' \intersect (BarUnits \union dummy) = {}
    BY <1>a, <2>1 DEF FreeFor, Units
  <2>. QED BY <1>a, <1>1, <2>2 DEF HotAdd
<1>2. CASE HotRemove
  BY <1>a, <1>2 DEF HotRemove
<1>3. ASSUME NEW u \in Users, Enable(u) PROVE TypeOK'
  <2>1. num_regions' \in 0..2
    BY <1>a, <1>3 DEF Enable, Registered
  <2>2. mmap_supported' \in BOOLEAN
    BY <1>3 DEF Enable, ProbeMmaps, WholePages
  <2>3. dummy' \subseteq 0..Space-1 /\ others \intersect dummy' = {}
    <3>1. Rest \subseteq 0..Space-1
      BY DEF Rest, Units
    <3>. QED BY <1>3, <3>1 DEF Enable, ProbeMmaps, RestTaken
  <2>. QED BY <1>a, <1>3, <2>1, <2>2, <2>3 DEF Enable
<1>4. ASSUME NEW u \in Users, EnableIgdFails(u) PROVE TypeOK'
  BY <1>a, <1>4 DEF EnableIgdFails
<1>5. ASSUME NEW u \in Users, OpenAgain(u) PROVE TypeOK'
  BY <1>a, <1>5 DEF OpenAgain
<1>6. ASSUME NEW u \in Users, ReleaseOther(u) PROVE TypeOK'
  BY <1>a, <1>6 DEF ReleaseOther
<1>7. ASSUME NEW u \in Users, Disable(u) PROVE TypeOK'
  <2>1. claimed' \in BOOLEAN /\ barmap' \in BOOLEAN
    BY <1>7 DEF Disable
  <2>2. /\ users' = {} /\ num_regions' = 0 /\ dummy' = {}
        /\ UNCHANGED <<bar, vga, others, listed, mmap_supported, pc, mapping>>
    BY <1>7 DEF Disable, RegionsLeft
  <2>. QED BY <1>a, <2>1, <2>2
<1>8. ASSUME NEW u \in Users, MmapAgain(u) PROVE TypeOK'
  BY <1>a, <1>8 DEF MmapAgain, Map, Range2
<1>9. ASSUME NEW u \in Users, MmapFirst(u) PROVE TypeOK'
  BY <1>a, <1>9 DEF MmapFirst, Go
<1>10. ASSUME NEW u \in Users, MmapRequest(u) PROVE TypeOK'
  BY <1>a, <1>10 DEF MmapRequest, Go
<1>11. ASSUME NEW u \in Users, MmapBusy(u) PROVE TypeOK'
  BY <1>a, <1>11 DEF MmapBusy, Go
<1>12. ASSUME NEW u \in Users, MmapIomap(u) PROVE TypeOK'
  BY <1>a, <1>12 DEF MmapIomap, Map, Go, Range2
<1>13. ASSUME NEW u \in Users, MmapNoMem(u) PROVE TypeOK'
  BY <1>a, <1>13 DEF MmapNoMem, RequestUndone, Go
<1>14. ASSUME NEW u \in Users, Munmap(u) PROVE TypeOK'
  BY <1>a, <1>14 DEF Munmap, Map
<1>15. CASE UNCHANGED vars
  BY <1>a, <1>15 DEF vars
<1>. QED
  BY <1>1, <1>2, <1>3, <1>4, <1>5, <1>6, <1>7, <1>8, <1>9, <1>10, <1>11,
     <1>12, <1>13, <1>14, <1>15 DEF Next

(* The region is requested at most once, and given back when the request   *)
(* comes to nothing or the device is closed.                               *)
LEMMA ClaimStep ==
  ASSUME RegionsInv, [Next]_vars
  PROVE  ClaimInv'
<1>a. /\ claimed \in BOOLEAN /\ barmap \in BOOLEAN
      /\ pc \in [Users -> {"idle", "request", "iomap", "oops"}]
      /\ ClaimInv /\ UserInv
  BY DEF RegionsInv, TypeOK
<1>. USE DEF ClaimInv, claimVars
<1>1. CASE HotAdd
  BY <1>a, <1>1 DEF HotAdd
<1>2. CASE HotRemove
  BY <1>a, <1>2 DEF HotRemove
<1>3. ASSUME NEW u \in Users, Enable(u) PROVE ClaimInv'
  BY <1>a, <1>3 DEF Enable, ProbeMmaps
<1>4. ASSUME NEW u \in Users, EnableIgdFails(u) PROVE ClaimInv'
  <2>1. \A v \in Users : pc[v] # "iomap" /\ pc'[v] # "iomap"
    BY <1>a, <1>4 DEF EnableIgdFails, UserInv
  <2>. QED BY <1>a, <1>4, <2>1 DEF EnableIgdFails
<1>5. ASSUME NEW u \in Users, OpenAgain(u) PROVE ClaimInv'
  BY <1>a, <1>5 DEF OpenAgain
<1>6. ASSUME NEW u \in Users, ReleaseOther(u) PROVE ClaimInv'
  BY <1>a, <1>6 DEF ReleaseOther
<1>7. ASSUME NEW u \in Users, Disable(u) PROVE ClaimInv'
  <2>1. \A v \in Users : pc[v] # "iomap"
    BY <1>a, <1>7 DEF Disable, Idle, UserInv
  <2>2. claimed => barmap
    BY <1>a, <2>1
  <2>3. claimed' = FALSE /\ barmap' = FALSE /\ pc' = pc
    BY <1>a, <1>7, <2>2 DEF Disable
  <2>. QED BY <2>1, <2>3
<1>8. ASSUME NEW u \in Users, MmapAgain(u) PROVE ClaimInv'
  BY <1>a, <1>8 DEF MmapAgain, Map
<1>9. ASSUME NEW u \in Users, MmapFirst(u) PROVE ClaimInv'
  BY <1>a, <1>9 DEF MmapFirst, Go, Idle
<1>10. ASSUME NEW u \in Users, MmapRequest(u) PROVE ClaimInv'
  BY <1>a, <1>10 DEF MmapRequest, Go
<1>11. ASSUME NEW u \in Users, MmapBusy(u) PROVE ClaimInv'
  BY <1>a, <1>11 DEF MmapBusy, Go
<1>12. ASSUME NEW u \in Users, MmapIomap(u) PROVE ClaimInv'
  BY <1>a, <1>12 DEF MmapIomap, Map, Go
<1>13. ASSUME NEW u \in Users, MmapNoMem(u) PROVE ClaimInv'
  BY <1>a, <1>13 DEF MmapNoMem, RequestUndone, Go
<1>14. ASSUME NEW u \in Users, Munmap(u) PROVE ClaimInv'
  BY <1>a, <1>14 DEF Munmap, Map
<1>15. CASE UNCHANGED vars
  BY <1>a, <1>15 DEF vars
<1>. QED
  BY <1>1, <1>2, <1>3, <1>4, <1>5, <1>6, <1>7, <1>8, <1>9, <1>10, <1>11,
     <1>12, <1>13, <1>14, <1>15 DEF Next

(* A user that maps or is in mmap keeps the device open. *)
LEMMA UserStep ==
  ASSUME RegionsInv, [Next]_vars
  PROVE  UserInv'
<1>a. /\ pc \in [Users -> {"idle", "request", "iomap", "oops"}]
      /\ mapping \in [Users -> SUBSET Pages]
      /\ UserInv
  BY DEF RegionsInv, TypeOK
<1>. USE DEF UserInv
<1>1. CASE HotAdd
  BY <1>a, <1>1 DEF HotAdd
<1>2. CASE HotRemove
  BY <1>a, <1>2 DEF HotRemove
<1>3. ASSUME NEW u \in Users, Enable(u) PROVE UserInv'
  BY <1>a, <1>3 DEF Enable, ProbeMmaps
<1>4. ASSUME NEW u \in Users, EnableIgdFails(u) PROVE UserInv'
  BY <1>a, <1>4 DEF EnableIgdFails
<1>5. ASSUME NEW u \in Users, OpenAgain(u) PROVE UserInv'
  BY <1>a, <1>5 DEF OpenAgain
<1>6. ASSUME NEW u \in Users, ReleaseOther(u) PROVE UserInv'
  BY <1>a, <1>6 DEF ReleaseOther, Idle
<1>7. ASSUME NEW u \in Users, Disable(u) PROVE UserInv'
  BY <1>a, <1>7 DEF Disable, RegionsLeft, Idle
<1>8. ASSUME NEW u \in Users, MmapAgain(u) PROVE UserInv'
  BY <1>a, <1>8 DEF MmapAgain, Map
<1>9. ASSUME NEW u \in Users, MmapFirst(u) PROVE UserInv'
  BY <1>a, <1>9 DEF MmapFirst, Go, Idle
<1>10. ASSUME NEW u \in Users, MmapRequest(u) PROVE UserInv'
  BY <1>a, <1>10 DEF MmapRequest, Go
<1>11. ASSUME NEW u \in Users, MmapBusy(u) PROVE UserInv'
  BY <1>a, <1>11 DEF MmapBusy, Go
<1>12. ASSUME NEW u \in Users, MmapIomap(u) PROVE UserInv'
  BY <1>a, <1>12 DEF MmapIomap, Map, Go
<1>13. ASSUME NEW u \in Users, MmapNoMem(u) PROVE UserInv'
  BY <1>a, <1>13 DEF MmapNoMem, RequestUndone, Go
<1>14. ASSUME NEW u \in Users, Munmap(u) PROVE UserInv'
  BY <1>a, <1>14 DEF Munmap, Map
<1>15. CASE UNCHANGED vars
  BY <1>a, <1>15 DEF vars
<1>. QED
  BY <1>1, <1>2, <1>3, <1>4, <1>5, <1>6, <1>7, <1>8, <1>9, <1>10, <1>11,
     <1>12, <1>13, <1>14, <1>15 DEF Next

(* What probe_mmaps decided holds until the last release. *)
LEMMA ProbeStep ==
  ASSUME RegionsInv, [Next]_vars
  PROVE  ProbeInv'
<1>a. ProbeInv
  BY DEF RegionsInv
<1>. USE DEF ProbeInv, WholePages, SubPage, Rest, devVars, driverVars
<1>1. CASE HotAdd
  BY <1>a, <1>1 DEF HotAdd
<1>2. CASE HotRemove
  BY <1>a, <1>2 DEF HotRemove
<1>3. ASSUME NEW u \in Users, Enable(u) PROVE ProbeInv'
  BY <1>a, <1>3 DEF Enable, ProbeMmaps, RestTaken
<1>4. ASSUME NEW u \in Users, EnableIgdFails(u) PROVE ProbeInv'
  BY <1>a, <1>4 DEF EnableIgdFails
<1>5. ASSUME NEW u \in Users, OpenAgain(u) PROVE ProbeInv'
  BY <1>a, <1>5 DEF OpenAgain
<1>6. ASSUME NEW u \in Users, ReleaseOther(u) PROVE ProbeInv'
  BY <1>a, <1>6 DEF ReleaseOther
<1>7. ASSUME NEW u \in Users, Disable(u) PROVE ProbeInv'
  BY <1>a, <1>7 DEF Disable, RegionsLeft
<1>8. ASSUME NEW u \in Users, MmapAgain(u) PROVE ProbeInv'
  BY <1>a, <1>8 DEF MmapAgain
<1>9. ASSUME NEW u \in Users, MmapFirst(u) PROVE ProbeInv'
  BY <1>a, <1>9 DEF MmapFirst
<1>10. ASSUME NEW u \in Users, MmapRequest(u) PROVE ProbeInv'
  BY <1>a, <1>10 DEF MmapRequest
<1>11. ASSUME NEW u \in Users, MmapBusy(u) PROVE ProbeInv'
  BY <1>a, <1>11 DEF MmapBusy
<1>12. ASSUME NEW u \in Users, MmapIomap(u) PROVE ProbeInv'
  BY <1>a, <1>12 DEF MmapIomap
<1>13. ASSUME NEW u \in Users, MmapNoMem(u) PROVE ProbeInv'
  BY <1>a, <1>13 DEF MmapNoMem, RequestUndone
<1>14. ASSUME NEW u \in Users, Munmap(u) PROVE ProbeInv'
  BY <1>a, <1>14 DEF Munmap
<1>15. CASE UNCHANGED vars
  BY <1>a, <1>15 DEF vars
<1>. QED
  BY <1>1, <1>2, <1>3, <1>4, <1>5, <1>6, <1>7, <1>8, <1>9, <1>10, <1>11,
     <1>12, <1>13, <1>14, <1>15 DEF Next

(* mmap accepts a range only if it would accept each page of it. *)
LEMMA MappablePage ==
  ASSUME RegionsInv, NEW first \in Pages, NEW n \in Pages,
         Mappable(first, n + 1), NEW p \in Range2(first, n + 1)
  PROVE  Mappable(p, 1)
<1>1. /\ first \in Nat /\ n \in Nat /\ p \in Nat
      /\ first <= p /\ p + 1 <= first + (n + 1)
  BY DEF Pages, Range2
<1>2. /\ first * PageSize <= p * PageSize
      /\ (p + 1) * PageSize <= (first + (n + 1)) * PageSize
      /\ first * PageSize \in Nat /\ p * PageSize \in Nat
      /\ (p + 1) * PageSize \in Nat
      /\ (first + (n + 1)) * PageSize \in Nat
  <2>1. first + (n + 1) \in Nat /\ p + 1 \in Nat
    BY <1>1
  <2>. HIDE DEF Pages
  <2>. QED BY <1>1, <2>1, PageOrder
<1>3. bar.len \in Nat /\ PageAlign(bar.len) \in Nat
  <2>1. bar.len \in Nat
    BY RegionsAssumption DEF RegionsInv, TypeOK, Layout
  <2>. QED BY <2>1, PageBelowAlign
<1>4. HasTable => bar.table.offset \in Nat /\ bar.table.size \in Nat
  BY RegionsAssumption DEF RegionsInv, TypeOK, Layout, HasTable
<1>5. (p + 1) * PageSize <= PageAlign(bar.len)
  BY <1>2, <1>3 DEF Mappable
<1>6. HasTable => AroundTable(p, 1)
  <2>. SUFFICES ASSUME HasTable
                PROVE  AroundTable(p, 1)
    OBVIOUS
  <2>1. CASE first * PageSize >= TableEnd
    BY <1>2, <1>4, <2>1 DEF AroundTable, TableEnd
  <2>2. CASE (first + (n + 1)) * PageSize <= bar.table.offset
    BY <1>2, <1>4, <2>2 DEF AroundTable
  <2>. QED BY <2>1, <2>2 DEF Mappable, AroundTable
<1>. QED BY <1>5, <1>6 DEF Mappable

(* A page stays mapped only while mmap would accept it. *)
LEMMA MapStep ==
  ASSUME RegionsInv, [Next]_vars
  PROVE  MapInv'
<1>a. /\ mapping \in [Users -> SUBSET Pages]
      /\ MapInv /\ UserInv
  BY DEF RegionsInv, TypeOK
<1>b. ASSUME UNCHANGED <<mmap_supported, bar>>,
             \A v \in Users : \A p \in mapping'[v] : Mappable(p, 1)
      PROVE  MapInv'
  BY <1>b DEF MapInv, Mappable, HasTable, AroundTable, TableEnd
<1>c. ASSUME UNCHANGED <<mmap_supported, bar, mapping>>
      PROVE  MapInv'
  BY <1>a, <1>b, <1>c DEF MapInv
<1>d. ASSUME NEW v \in Users, UNCHANGED <<mmap_supported, bar>>,
             \E first, n \in Pages : /\ Mappable(first, n + 1)
                                     /\ Map(v, Range2(first, n + 1))
      PROVE  MapInv'
  <2>1. PICK first \in Pages, n \in Pages :
               Mappable(first, n + 1) /\ Map(v, Range2(first, n + 1))
    BY <1>d
  <2>2. \A p \in Range2(first, n + 1) : Mappable(p, 1)
    BY <2>1, MappablePage
  <2>3. ASSUME NEW w \in Users, NEW p \in mapping'[w]
        PROVE  Mappable(p, 1)
    BY <1>a, <2>1, <2>2, <2>3 DEF Map, MapInv
  <2>. QED BY <1>b, <1>d, <2>3
<1>. USE DEF devVars, driverVars
<1>1. CASE HotAdd
  BY <1>c, <1>1 DEF HotAdd
<1>2. CASE HotRemove
  BY <1>c, <1>2 DEF HotRemove
<1>3. ASSUME NEW u \in Users, Enable(u) PROVE MapInv'
  BY <1>a, <1>3 DEF Enable, MapInv, UserInv
<1>4. ASSUME NEW u \in Users, EnableIgdFails(u) PROVE MapInv'
  BY <1>c, <1>4 DEF EnableIgdFails
<1>5. ASSUME NEW u \in Users, OpenAgain(u) PROVE MapInv'
  BY <1>c, <1>5 DEF OpenAgain
<1>6. ASSUME NEW u \in Users, ReleaseOther(u) PROVE MapInv'
  BY <1>c, <1>6 DEF ReleaseOther
<1>7. ASSUME NEW u \in Users, Disable(u) PROVE MapInv'
  BY <1>c, <1>7 DEF Disable, RegionsLeft
<1>8. ASSUME NEW u \in Users, MmapAgain(u) PROVE MapInv'
  BY <1>d, <1>8 DEF MmapAgain
<1>9. ASSUME NEW u \in Users, MmapFirst(u) PROVE MapInv'
  BY <1>c, <1>9 DEF MmapFirst
<1>10. ASSUME NEW u \in Users, MmapRequest(u) PROVE MapInv'
  BY <1>c, <1>10 DEF MmapRequest
<1>11. ASSUME NEW u \in Users, MmapBusy(u) PROVE MapInv'
  BY <1>c, <1>11 DEF MmapBusy
<1>12. ASSUME NEW u \in Users, MmapIomap(u) PROVE MapInv'
  BY <1>d, <1>12 DEF MmapIomap
<1>13. ASSUME NEW u \in Users, MmapNoMem(u) PROVE MapInv'
  BY <1>c, <1>13 DEF MmapNoMem, RequestUndone
<1>14. ASSUME NEW u \in Users, Munmap(u) PROVE MapInv'
  <2>1. \A v \in Users : \A p \in mapping'[v] : Mappable(p, 1)
    BY <1>a, <1>14 DEF Munmap, Map, MapInv
  <2>. QED BY <1>b, <1>14, <2>1 DEF Munmap
<1>15. CASE UNCHANGED vars
  BY <1>c, <1>15 DEF vars
<1>. QED
  BY <1>1, <1>2, <1>3, <1>4, <1>5, <1>6, <1>7, <1>8, <1>9, <1>10, <1>11,
     <1>12, <1>13, <1>14, <1>15 DEF Next

(* A mapping or an mmap call holds the device open, so that the last       *)
(* release finds what it has to give back.                                 *)
LEMMA NothingStep ==
  ASSUME RegionsInv, [Next]_vars
  PROVE  NothingLeftBehind'
<1>a. /\ claimed \in BOOLEAN /\ barmap \in BOOLEAN
      /\ pc \in [Users -> {"idle", "request", "iomap", "oops"}]
      /\ users \subseteq Users
      /\ ClaimInv /\ UserInv /\ NothingLeftBehind
  BY DEF RegionsInv, TypeOK
<1>. USE DEF NothingLeftBehind, driverVars, claimVars
<1>1. CASE HotAdd
  BY <1>a, <1>1 DEF HotAdd
<1>2. CASE HotRemove
  BY <1>a, <1>2 DEF HotRemove
<1>3. ASSUME NEW u \in Users, Enable(u) PROVE NothingLeftBehind'
  BY <1>a, <1>3 DEF Enable, ProbeMmaps
<1>4. ASSUME NEW u \in Users, EnableIgdFails(u) PROVE NothingLeftBehind'
  BY <1>a, <1>4 DEF EnableIgdFails
<1>5. ASSUME NEW u \in Users, OpenAgain(u) PROVE NothingLeftBehind'
  BY <1>a, <1>5 DEF OpenAgain
<1>6. ASSUME NEW u \in Users, ReleaseOther(u) PROVE NothingLeftBehind'
  BY <1>a, <1>6 DEF ReleaseOther
<1>7. ASSUME NEW u \in Users, Disable(u) PROVE NothingLeftBehind'
  <2>1. \A v \in Users : pc[v] # "iomap"
    BY <1>a, <1>7 DEF Disable, Idle, UserInv
  <2>2. claimed => barmap
    BY <1>a, <2>1 DEF ClaimInv
  <2>3. claimed' = FALSE /\ barmap' = FALSE
    BY <1>a, <1>7, <2>2 DEF Disable
  <2>. QED BY <1>7, <2>3 DEF Disable, RegionsLeft
<1>8. ASSUME NEW u \in Users, MmapAgain(u) PROVE NothingLeftBehind'
  BY <1>a, <1>8 DEF MmapAgain
<1>9. ASSUME NEW u \in Users, MmapFirst(u) PROVE NothingLeftBehind'
  BY <1>a, <1>9 DEF MmapFirst
<1>10. ASSUME NEW u \in Users, MmapRequest(u) PROVE NothingLeftBehind'
  BY <1>a, <1>10 DEF MmapRequest, UserInv
<1>11. ASSUME NEW u \in Users, MmapBusy(u) PROVE NothingLeftBehind'
  BY <1>a, <1>11 DEF MmapBusy
<1>12. ASSUME NEW u \in Users, MmapIomap(u) PROVE NothingLeftBehind'
  BY <1>a, <1>12 DEF MmapIomap, UserInv
<1>13. ASSUME NEW u \in Users, MmapNoMem(u) PROVE NothingLeftBehind'
  BY <1>a, <1>13 DEF MmapNoMem, RequestUndone, UserInv
<1>14. ASSUME NEW u \in Users, Munmap(u) PROVE NothingLeftBehind'
  BY <1>a, <1>14 DEF Munmap
<1>15. CASE UNCHANGED vars
  BY <1>a, <1>15 DEF vars
<1>. QED
  BY <1>1, <1>2, <1>3, <1>4, <1>5, <1>6, <1>7, <1>8, <1>9, <1>10, <1>11,
     <1>12, <1>13, <1>14, <1>15 DEF Next

-----------------------------------------------------------------------------
(* Every open, mmap and release, however it fails, keeps the region, the   *)
(* dummy resource and the mappings in step with each other: inductive.     *)
THEOREM RegionsCorrect == Spec => []RegionsInv
<1>1. Init => RegionsInv
  <2>. SUFFICES ASSUME Init
                PROVE  RegionsInv
    OBVIOUS
  <2>1. TypeOK
    <3>1. others \intersect (BarUnits \union dummy) = {}
      BY DEF Init
    <3>2. /\ pc \in [Users -> {"idle", "request", "iomap", "oops"}]
          /\ mapping \in [Users -> SUBSET Pages]
      BY DEF Init
    <3>3. /\ bar \in Layouts /\ vga \in VgaKinds
          /\ num_regions \in 0..2 /\ users \subseteq Users
          /\ others \subseteq 0..Space-1 /\ dummy \subseteq 0..Space-1
      BY DEF Init
    <3>4. /\ listed \in BOOLEAN /\ mmap_supported \in BOOLEAN
          /\ claimed \in BOOLEAN /\ barmap \in BOOLEAN
      BY DEF Init
    <3>. QED BY <3>1, <3>2, <3>3, <3>4 DEF TypeOK
  <2>2. ClaimInv /\ UserInv /\ ProbeInv
    BY DEF Init, ClaimInv, UserInv, ProbeInv
  <2>3. MapInv /\ NothingLeftBehind
    BY DEF Init, MapInv, NothingLeftBehind
  <2>. QED BY <2>1, <2>2, <2>3 DEF RegionsInv
<1>2. RegionsInv /\ [Next]_vars => RegionsInv'
  BY TypeStep, ClaimStep, UserStep, ProbeStep, MapStep, NothingStep
     DEF RegionsInv
<1>. QED BY <1>1, <1>2, PTL DEF Spec

(* Every variable keeps to its values, and the dummy resource is nobody    *)
(* else's memory.                                                          *)
THEOREM TypeCorrect == Spec => []TypeOK
<1>1. RegionsInv => TypeOK
  BY DEF RegionsInv
<1>. QED BY <1>1, RegionsCorrect, PTL

(* The last release leaves no resource, BAR or device region behind.       *)
THEOREM NothingIsLeftBehind == Spec => []NothingLeftBehind
<1>1. RegionsInv => NothingLeftBehind
  BY DEF RegionsInv
<1>. QED BY <1>1, RegionsCorrect, PTL

(* Through the pages it has mapped a user reaches the BAR and the dummy    *)
(* resource, and neither another device nor the MSI-X table.               *)
THEOREM MappedIsPrivate == Spec => []MappedPagesArePrivate
<1>1. RegionsInv => MappedPagesArePrivate
  <2>. SUFFICES ASSUME RegionsInv, NEW u \in Users, NEW p \in mapping[u],
                       NEW a \in Units(PageStart(bar.start) + p * PageSize,
                                       PageSize)
                PROVE  a \notin others /\ a \notin Table
    BY DEF MappedPagesArePrivate, Reached
  <2>0. /\ bar.start \in Nat /\ bar.len \in Nat /\ PageSize \in Nat \ {0}
        /\ bar.len >= PageSize
             => bar.start % PageSize = 0 /\ bar.len % PageSize = 0
        /\ HasTable => bar.table.offset \in Nat /\ bar.table.size \in Nat
    BY RegionsAssumption DEF RegionsInv, TypeOK, Layout, HasTable
  <2>1. /\ p \in Nat /\ users # {} /\ Mappable(p, 1)
        /\ a \in 0..Space-1 /\ a \in Nat
    BY DEF RegionsInv, TypeOK, MapInv, UserInv, Pages, Units
  <2>2. (p + 1) * PageSize <= PageAlign(bar.len) /\ mmap_supported
    BY <2>1 DEF Mappable
  <2>3. WholePages \/ (SubPage /\ dummy = Rest)
    BY <2>1, <2>2 DEF RegionsInv, ProbeInv
  <2>4. PageStart(bar.start) = bar.start
    BY <2>0, <2>3, WholePagesAlign DEF WholePages, SubPage
  <2>5. /\ p * PageSize \in Nat
        /\ (p + 1) * PageSize = p * PageSize + PageSize
    BY <2>1, PageOrder
  <2>6. /\ bar.start + p * PageSize <= a
        /\ a < bar.start + (p + 1) * PageSize
    BY <2>0, <2>4, <2>5 DEF Units
  <2>7. a \in BarUnits \union dummy
    <3>1. CASE WholePages
      <4>1. PageAlign(bar.len) = bar.len
        BY <2>0, <3>1, WholePagesAlign DEF WholePages
      <4>. QED BY <2>0, <2>1, <2>2, <2>5, <2>6, <4>1 DEF BarUnits, Units
    <3>2. CASE SubPage /\ dummy = Rest
      <4>1. 1 * PageSize = PageSize /\ bar.len < PageSize /\ bar.len > 0
        BY <2>0, <3>2 DEF SubPage
      <4>2. PageAlign(bar.len) <= 1 * PageSize
        <5>1. ASSUME NEW q \in Nat, bar.len <= q * PageSize
              PROVE  PageAlign(bar.len) <= q * PageSize
          BY <2>0, <5>1, PageBelowAlign
        <5>2. bar.len <= 1 * PageSize
          BY <2>0, <4>1
        <5>. QED BY <5>1, <5>2
      <4>3. a < bar.start + PageSize
        BY <2>0, <2>1, <2>2, <2>5, <2>6, <4>1, <4>2, PageBelowAlign
      <4>. QED BY <2>0, <2>1, <2>5, <2>6, <3>2, <4>1, <4>3
               DEF BarUnits, Rest, Units
    <3>. QED BY <2>3, <3>1, <3>2
  <2>8. a \notin others
    BY <2>7 DEF RegionsInv, TypeOK
  <2>9. a \notin Table
    <3>. SUFFICES ASSUME HasTable,
                         a >= bar.start + bar.table.offset,
                         a < bar.start + bar.table.offset + bar.table.size
                  PROVE  FALSE
      BY <2>0 DEF Table, Units
    <3>1. \/ p * PageSize >= TableEnd
          \/ (p + 1) * PageSize <= bar.table.offset
      BY <2>1 DEF Mappable, AroundTable
    <3>. QED BY <2>0, <2>1, <2>5, <2>6, <3>1 DEF TableEnd
  <2>. QED BY <2>8, <2>9
<1>. QED BY <1>1, RegionsCorrect, PTL

-----------------------------------------------------------------------------
(* The sparse areas promise a page just when it lies beside the table. *)
LEMMA SparsePage ==
  ASSUME NEW p \in Nat, bar.len \in Nat, HasTable,
         bar.table.offset \in Nat, bar.table.size \in Nat,
         TableEnd <= bar.len
  PROVE  (\E area \in SparseAreas : /\ area.offset <= p * PageSize
                                    /\ p * PageSize < area.offset + area.size)
         <=> (p + 1) * PageSize <= PageAlign(bar.len) /\ AroundTable(p, 1)
<1>. DEFINE at == p * PageSize
            low == PageStart(bar.table.offset)
            above == PageAlign(TableEnd)
            In(area) == area.offset <= at /\ at < area.offset + area.size
<1>0. /\ TableEnd \in Nat /\ bar.table.offset <= TableEnd
      /\ PageSize \in Nat \ {0}
  BY RegionsAssumption DEF TableEnd
<1>1. /\ at \in Nat /\ low \in Nat /\ above \in Nat
      /\ (p + 1) * PageSize \in Nat
  BY <1>0, PageOrder, PageStartBounds, PageBelowAlign
<1>2. at < low <=> (p + 1) * PageSize <= bar.table.offset
  BY PageBelowStart
<1>3. above <= at <=> TableEnd <= at
  BY <1>0, PageBelowAlign
<1>4. /\ at < bar.len <=> (p + 1) * PageSize <= PageAlign(bar.len)
      /\ bar.len <= PageAlign(bar.len) /\ PageAlign(bar.len) \in Nat
  BY PageBelowAlign
<1>5. (\E area \in SparseAreas : In(area))
        <=> at < low \/ (above <= at /\ at < bar.len)
  <2>. DEFINE lower == Area(0, low)
              upper == IF above < bar.len THEN Area(above, bar.len - above)
                       ELSE {}
  <2>. HIDE DEF at, low, above
  <2>1. (\E area \in lower : In(area)) <=> at < low
    <3>1. CASE low > 0
      <4>1. lower = {[offset |-> 0, size |-> low]}
        BY <3>1 DEF Area
      <4>2. In([offset |-> 0, size |-> low]) <=> at < low
        BY <1>1
      <4>. HIDE DEF In, lower
      <4>. QED BY <4>1, <4>2
    <3>2. CASE low = 0
      BY <1>1, <3>2 DEF Area
    <3>. QED BY <1>1, <3>1, <3>2
  <2>2. (\E area \in upper : In(area)) <=> above <= at /\ at < bar.len
    <3>1. CASE above < bar.len
      <4>1. upper = {[offset |-> above, size |-> bar.len - above]}
        BY <1>1, <3>1 DEF Area
      <4>2. In([offset |-> above, size |-> bar.len - above])
              <=> above <= at /\ at < bar.len
        BY <1>1, <3>1
      <4>. HIDE DEF In, upper
      <4>. QED BY <4>1, <4>2
    <3>2. CASE bar.len <= above
      BY <1>1, <3>2
    <3>. QED BY <1>1, <3>1, <3>2
  <2>3. SparseAreas = IF lower \union upper = {}
                      THEN {[offset |-> 0, size |-> 0]}
                      ELSE lower \union upper
    BY DEF SparseAreas, low, above
  <2>4. ~In([offset |-> 0, size |-> 0])
    BY <1>1
  <2>. HIDE DEF lower, upper, In
  <2>. QED BY <2>1, <2>2, <2>3, <2>4
<1>6. AroundTable(p, 1) <=> \/ TableEnd <= at
                            \/ (p + 1) * PageSize <= bar.table.offset
  BY <1>0, <1>1 DEF AroundTable
<1>. HIDE DEF at, low, above
<1>7. (p + 1) * PageSize <= bar.table.offset
        => (p + 1) * PageSize <= PageAlign(bar.len)
  BY <1>0, <1>1, <1>4
<1>. QED BY <1>2, <1>3, <1>4, <1>5, <1>6, <1>7 DEF at

(* GET_REGION_INFO promises what mmap, read and write serve: neither more  *)
(* nor less, around an MSI-X table at any place of the BAR.                *)
THEOREM AdvertisedIsTrue == Spec => []AdvertisedIsServed
<1>1. RegionsInv => AdvertisedIsServed
  <2>. SUFFICES ASSUME RegionsInv, users # {}
                PROVE  AdvertisedIsServed
    BY DEF AdvertisedIsServed
  <2>0. /\ bar.len \in Nat /\ PageSize \in Nat \ {0}
        /\ HasTable => /\ bar.table.offset \in Nat /\ bar.table.size \in Nat
                       /\ bar.table.offset + bar.table.size <= bar.len
        /\ num_regions \in 0..2 /\ Roms \subseteq {"none", "dead", "good"}
    BY RegionsAssumption DEF RegionsInv, TypeOK, Layout, HasTable
  <2>1. ASSUME NEW p \in Pages
        PROVE  Mappable(p, 1) <=> Advertised(p)
    <3>0. p \in Nat
      BY DEF Pages
    <3>1. CASE ~mmap_supported
      BY <3>1 DEF Mappable, Advertised, Areas
    <3>2. CASE mmap_supported /\ HasTable
      <4>1. bar.len > 0
        BY <2>0, <3>2 DEF RegionsInv, ProbeInv, WholePages, SubPage
      <4>2. Areas = SparseAreas
        BY <3>2, <4>1 DEF Areas
      <4>3. TableEnd <= bar.len
        BY <2>0, <3>2 DEF TableEnd
      <4>. QED BY <2>0, <3>0, <3>2, <4>2, <4>3, SparsePage
               DEF Mappable, Advertised
    <3>3. CASE mmap_supported /\ ~HasTable
      <4>1. bar.len > 0
        BY <2>0, <3>3 DEF RegionsInv, ProbeInv, WholePages, SubPage
      <4>2. Areas = {[offset |-> 0, size |-> bar.len]}
        BY <3>3, <4>1 DEF Areas
      <4>3. Advertised(p) <=> p * PageSize < bar.len
        <5>1. p * PageSize \in Nat
          BY <3>0, PageOrder
        <5>2. Advertised(p) <=> 0 <= p * PageSize
                                /\ p * PageSize < 0 + bar.len
          BY <4>2 DEF Advertised
        <5>. QED BY <2>0, <5>1, <5>2
      <4>. QED BY <2>0, <3>0, <3>3, <4>3, PageBelowAlign DEF Mappable
    <3>. QED BY <3>1, <3>2, <3>3
  <2>2. ASSUME NEW i \in Indexes, NEW way \in ReadWrite, NEW rom \in Roms
        PROVE  Serves(i, way, rom)
                 <=> RegionInfo(i) /\ way \in InfoFlags(i, rom)
    <3>. USE <2>0 DEF Serves, Rw, HandlerServes, RegionInfo, InfoFlags,
                      ReadWrite, NumRegions, NUM_REGIONS, Bar, Rom, Config,
                      Vga
    <3>1. CASE i = Bar
      BY <3>1
    <3>2. CASE i = Rom
      <4>1. CASE way = "read"
        BY <3>2, <4>1
      <4>2. CASE way = "write"
        BY <3>2, <4>2
      <4>. QED BY <4>1, <4>2
    <3>3. CASE i = Config
      BY <3>3
    <3>4. CASE i = Vga
      BY <3>4
    <3>5. CASE i \in NUM_REGIONS..NUM_REGIONS + 2
      BY <3>5
    <3>. QED BY <3>1, <3>2, <3>3, <3>4, <3>5 DEF Indexes
  <2>. QED BY <2>1, <2>2 DEF AdvertisedIsServed
<1>. QED BY <1>1, RegionsCorrect, PTL
=============================================================================
