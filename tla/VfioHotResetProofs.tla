------------------------- MODULE VfioHotResetProofs -------------------------
(***************************************************************************)
(* VfioHotReset for every set of users, devices, groups and every bus.     *)
(***************************************************************************)
EXTENDS VfioBus, SequenceTheorems, FiniteSetTheorems, TLAPS

(* The variables as the steps keep them: that no group is put too often is *)
(* not among it, but follows from ReferencesBalance.                       *)
BasicOK ==
  /\ present \subseteq Devs /\ slot \in BOOLEAN
  /\ owner \in [Groups -> Users \union {Nobody}]
  /\ refs \in [Groups -> Int]
  /\ pc \in [Users -> {"idle", "fill", "copy", "get", "validate", "reset",
                    "release"}]
  /\ max \in [Users -> 0..Cardinality(Devs)]
  /\ list \in [Users -> SUBSET Devs]

(* A list fits its array, and only lives while it is copied out: without   *)
(* the second part a new count might be below the length of an old list.   *)
ListInv ==
  \A u \in Users : /\ Cardinality(list[u]) <= max[u]
                   /\ pc[u] # "copy" => list[u] = {}

(* A call has got the groups of the first of its fds, fewer than all while *)
(* it gets more, and none before and after.                                *)
CallInv ==
  /\ fds \in [Users -> Seq(Groups)] /\ groups \in [Users -> Seq(Groups)]
  /\ \A u \in Users :
       /\ Len(groups[u]) <= Len(fds[u]) /\ Len(fds[u]) <= MaxFds
       /\ \A i \in 1..Len(groups[u]) : groups[u][i] = fds[u][i]
       /\ pc[u] = "get" => Len(groups[u]) < Len(fds[u])
       /\ pc[u] \in {"idle", "fill", "copy"} => groups[u] = <<>>

(* What a call has got stays its own, or is closed: nobody opens it anew. *)
OwnerInv ==
  \A u \in Users : \A i \in 1..Len(groups[u]) :
    owner[groups[u][i]] \in {u, Nobody}

HotResetInv == /\ BasicOK /\ ListInv /\ CallInv
               /\ ReferencesBalance /\ OwnerInv

(* With a quiet bus, what was tested is what the reset finds. *)
TestedInv ==
  \A u \in Users : pc[u] = "reset" =>
    \A d \in Affected : GroupOf[d] \in ToSet(groups[u])

-----------------------------------------------------------------------------
(* The group references that are held                                      *)

(* The references of a group are finitely many. *)
LEMMA HeldFinite ==
  ASSUME NEW g
  PROVE  IsFiniteSet(Held(g))
<1>1. IsFiniteSet(Users \X (1..MaxFds))
  <2>1. 1 \in Int /\ MaxFds \in Int /\ IsFiniteSet(Users)
    BY HotResetAssumption
  <2>2. IsFiniteSet(1..MaxFds)
    BY <2>1, FS_Interval
  <2>. QED BY <2>1, <2>2, FS_Product
<1>2. Held(g) \in SUBSET (Users \X (1..MaxFds))
  BY DEF Held
<1>. QED BY <1>1, <1>2, FS_Subset

(* Those of one call are as many as its groups[] has entries of the group. *)
LEMMA TimesIsHeld ==
  ASSUME NEW s \in Seq(Groups), NEW u, NEW g
  PROVE  LET T == {<<u, i>> : i \in {j \in 1..Len(s) : s[j] = g}}
         IN  IsFiniteSet(T) /\ Cardinality(T) = Times(s, g)
<1>. DEFINE D == {j \in 1..Len(s) : s[j] = g}
            T == {<<u, i>> : i \in D}
            f == [i \in D |-> <<u, i>>]
<1>1. DOMAIN s = 1..Len(s) /\ Len(s) \in Nat
  BY LenProperties
<1>2. IsFiniteSet(1..Len(s)) /\ D \in SUBSET (1..Len(s))
  BY <1>1, FS_Interval
<1>3. IsFiniteSet(D)
  BY <1>2, FS_Subset
<1>4. f \in Bijection(D, T)
  <2>1. f \in [D -> T]
    OBVIOUS
  <2>2. \A a, b \in D : f[a] = f[b] => a = b
    OBVIOUS
  <2>3. \A t \in T : \E a \in D : f[a] = t
    OBVIOUS
  <2>. QED BY <2>1, <2>2, <2>3
           DEF Bijection, Injection, Surjection, IsInjective
<1>5. IsFiniteSet(T) /\ Cardinality(T) = Cardinality(D)
  <2>. HIDE DEF D, T, f
  <2>. QED BY <1>3, <1>4, FS_Bijection DEF ExistsBijection
<1>6. Times(s, g) = Cardinality(D)
  BY <1>1 DEF Times
<1>. QED BY <1>5, <1>6

(* The fds a caller may pass *)
LEMMA Passed ==
  ASSUME NEW gs \in SeqOf(Groups, MaxFds)
  PROVE  gs \in Seq(Groups) /\ Len(gs) \in 0..MaxFds
<1>1. PICK m \in 0..MaxFds : gs \in [1..m -> Groups]
  BY DEF SeqOf
<1>. QED BY <1>1, HotResetAssumption

(* Any sequence of groups that is short enough is among them. *)
LEMMA MayBePassed ==
  ASSUME NEW gs \in Seq(Groups), Len(gs) <= MaxFds
  PROVE  gs \in SeqOf(Groups, MaxFds)
<1>1. Len(gs) \in 0..MaxFds /\ gs \in [1..Len(gs) -> Groups]
  BY HotResetAssumption, LenProperties
<1>. QED BY <1>1 DEF SeqOf

(* A list of devices has its place in an array for as many as there are. *)
LEMMA AffectedFits ==
  ASSUME present \subseteq Devs
  PROVE  Cardinality(Affected) \in 0..Cardinality(Devs)
<1>1. Affected \in SUBSET Devs
  BY DEF Affected
<1>2. IsFiniteSet(Devs)
  BY HotResetAssumption
<1>3. IsFiniteSet(Affected) /\ Cardinality(Affected) <= Cardinality(Devs)
  BY <1>1, <1>2, FS_Subset
<1>4. Cardinality(Affected) \in Nat /\ Cardinality(Devs) \in Nat
  BY <1>2, <1>3, FS_CardinalityType
<1>. QED BY <1>3, <1>4

-----------------------------------------------------------------------------
(* At first nothing is held. *)
LEMMA InitHotReset == Init => HotResetInv
<1>. SUFFICES ASSUME Init PROVE HotResetInv
  OBVIOUS
<1>1. BasicOK /\ ListInv
  <2>1. Cardinality({}) = 0 /\ Cardinality(Devs) \in Nat
    BY HotResetAssumption, FS_EmptySet, FS_CardinalityType
  <2>. QED BY <2>1 DEF Init, BasicOK, ListInv
<1>2. CallInv
  <2>1. MaxFds \in Nat
    BY HotResetAssumption
  <2>. QED BY <2>1 DEF Init, CallInv
<1>3. ReferencesBalance
  <2>1. \A g \in Groups : Held(g) = {}
    BY DEF Held, Init
  <2>. QED BY <2>1, FS_EmptySet DEF ReferencesBalance, Init
<1>4. OwnerInv
  BY DEF Init, OwnerInv
<1>. QED BY <1>1, <1>2, <1>3, <1>4 DEF HotResetInv

(* Steps that get and put nothing keep the references. *)
LEMMA BalanceKept ==
  ASSUME HotResetInv, UNCHANGED <<refs, groups>>
  PROVE  ReferencesBalance'
<1>1. \A g : Held(g)' = Held(g)
  BY DEF Held
<1>. QED BY <1>1 DEF ReferencesBalance, HotResetInv

(* A step that changes the bus keeps the invariant. *)
LEMMA BusStep ==
  ASSUME HotResetInv, NEW d \in Devs, Plug(d) \/ Unplug(d)
  PROVE  HotResetInv'
<1>1. /\ present' \subseteq Devs
      /\ UNCHANGED <<slot, owner, refs, pc, max, list, fds, groups>>
  BY DEF HotResetInv, BasicOK, Plug, Unplug
<1>2. BasicOK' /\ ListInv' /\ CallInv' /\ OwnerInv'
  BY <1>1 DEF HotResetInv, BasicOK, ListInv, CallInv, OwnerInv
<1>3. ReferencesBalance'
  BY <1>1, BalanceKept
<1>. QED BY <1>2, <1>3 DEF HotResetInv

(* A group that a call has got has a reference, and is not opened anew. *)
LEMMA HeldIsReferred ==
  ASSUME HotResetInv, NEW u \in Users, NEW i \in 1..Len(groups[u])
  PROVE  refs[groups[u][i]] # 0
<1>. DEFINE g == groups[u][i]
<1>1. /\ groups[u] \in Seq(Groups) /\ Len(groups[u]) \in Nat
      /\ Len(fds[u]) \in Nat
      /\ Len(groups[u]) <= Len(fds[u]) /\ Len(fds[u]) <= MaxFds
  BY DEF HotResetInv, CallInv
<1>2. g \in Groups /\ i \in DOMAIN groups[u] /\ i \in 1..MaxFds
  BY <1>1, HotResetAssumption, LenProperties
<1>3. <<u, i>> \in Held(g)
  BY <1>2 DEF Held
<1>4. Cardinality(Held(g)) # 0
  BY <1>3, HeldFinite, FS_EmptySet
<1>. QED BY <1>2, <1>4 DEF HotResetInv, ReferencesBalance

(* Opening and closing groups keeps it. *)
LEMMA GroupStep ==
  ASSUME HotResetInv, NEW g \in Groups,
         CloseGroup(g) \/ \E u \in Users : OpenGroup(u, g)
  PROVE  HotResetInv'
<1>1. UNCHANGED <<present, slot, refs, pc, max, list, fds, groups>>
  BY DEF CloseGroup, OpenGroup
<1>2. BasicOK' /\ ListInv' /\ CallInv'
  BY <1>1 DEF HotResetInv, BasicOK, ListInv, CallInv, CloseGroup, OpenGroup
<1>3. ReferencesBalance'
  BY <1>1, BalanceKept
<1>4. OwnerInv'
  <2>. SUFFICES ASSUME NEW u \in Users, NEW i \in 1..Len(groups[u])
                PROVE  owner'[groups[u][i]] \in {u, Nobody}
    BY <1>1 DEF OwnerInv
  <2>1. owner[groups[u][i]] \in {u, Nobody} /\ groups[u][i] \in Groups
    BY DEF HotResetInv, OwnerInv, CallInv
  <2>2. owner \in [Groups -> Users \union {Nobody}]
    BY DEF HotResetInv, BasicOK
  <2>3. CASE CloseGroup(g)
    BY <2>1, <2>2, <2>3 DEF CloseGroup
  <2>4. CASE \E v \in Users : OpenGroup(v, g)
    <3>1. g # groups[u][i]
      BY <2>4, HeldIsReferred DEF OpenGroup
    <3>. QED BY <2>1, <2>2, <2>4, <3>1 DEF OpenGroup
  <2>. QED BY <2>3, <2>4
<1>. QED BY <1>2, <1>3, <1>4 DEF HotResetInv

(* So does VFIO_DEVICE_GET_PCI_HOT_RESET_INFO, whose list is no longer     *)
(* than the array however the bus changed since it was counted.            *)
LEMMA InfoStep ==
  ASSUME HotResetInv, NEW u \in Users,
         InfoCount(u) \/ InfoFill(u) \/ InfoFillFails(u) \/ InfoCopy(u)
  PROVE  HotResetInv'
<1>. USE DEF HotResetInv, Go, hostVars
<1>1. UNCHANGED <<present, slot, owner, refs, fds, groups>>
  BY DEF InfoCount, InfoFill, InfoFillFails, InfoCopy
<1>2. Cardinality(Affected) \in 0..Cardinality(Devs)
      /\ Affected \subseteq Devs
  <2>1. present \subseteq Devs
    BY DEF BasicOK
  <2>. QED BY <2>1, AffectedFits DEF Affected
<1>3. BasicOK' /\ ListInv'
  <2>0. Cardinality({}) = 0 /\ Cardinality(Devs) \in Nat
    BY HotResetAssumption, FS_EmptySet, FS_CardinalityType
  <2>. USE DEF BasicOK, ListInv
  <2>1. CASE InfoCount(u)
    <3>1. pc[u] = "idle" /\ list[u] = {} /\ list' = list
      BY <2>1 DEF InfoCount
    <3>2. BasicOK'
      BY <1>1, <1>2, <2>1 DEF InfoCount
    <3>3. ASSUME NEW v \in Users
          PROVE  Cardinality(list'[v]) <= max'[v]
      <4>1. CASE v = u
        BY <1>2, <2>0, <2>1, <3>1, <4>1 DEF InfoCount
      <4>2. CASE v # u
        BY <2>1, <3>1, <4>2 DEF InfoCount
      <4>. QED BY <4>1, <4>2
    <3>4. ASSUME NEW v \in Users, pc'[v] # "copy"
          PROVE  list'[v] = {}
      BY <2>1, <3>1, <3>4 DEF InfoCount
    <3>. QED BY <3>2, <3>3, <3>4
  <2>2. CASE InfoFill(u)
    BY <1>1, <1>2, <2>2 DEF InfoFill, FitsMax
  <2>3. CASE InfoFillFails(u)
    BY <1>1, <2>3 DEF InfoFillFails
  <2>4. CASE InfoCopy(u)
    BY <1>1, <2>0, <2>4 DEF InfoCopy
  <2>. QED BY <2>1, <2>2, <2>3, <2>4
<1>4. CallInv'
  BY <1>1 DEF CallInv, BasicOK, InfoCount, InfoFill, InfoFillFails, InfoCopy
<1>5. ReferencesBalance'
  BY <1>1, BalanceKept
<1>6. OwnerInv'
  BY <1>1 DEF OwnerInv
<1>. QED BY <1>3, <1>4, <1>5, <1>6

(* VFIO_DEVICE_PCI_HOT_RESET starts with no group got. *)
LEMMA StartStep ==
  ASSUME HotResetInv, NEW u \in Users, NEW gs \in SeqOf(Groups, MaxFds),
         Start(u, gs)
  PROVE  HotResetInv'
<1>. USE DEF HotResetInv, Go, hostVars, Start
<1>1. /\ UNCHANGED <<present, slot, owner, refs, max, list>>
      /\ pc[u] = "idle" /\ pc' = [pc EXCEPT ![u] = "get"]
      /\ fds' = [fds EXCEPT ![u] = gs]
  OBVIOUS
<1>2. groups' = groups
  BY DEF CallInv
<1>3. gs \in Seq(Groups) /\ Len(gs) \in 1..MaxFds
  <2>1. gs \in Seq(Groups) /\ Len(gs) \in 0..MaxFds
    BY Passed
  <2>2. Cardinality(Affected) \in Nat
    BY AffectedFits DEF BasicOK
  <2>. QED BY <2>1, <2>2
<1>4. BasicOK' /\ ListInv' /\ OwnerInv'
  BY <1>1, <1>2 DEF BasicOK, ListInv, OwnerInv
<1>5. CallInv'
  <2>1. fds' \in [Users -> Seq(Groups)] /\ groups' \in [Users -> Seq(Groups)]
    BY <1>1, <1>2, <1>3 DEF CallInv
  <2>2. groups[u] = <<>> /\ Len(groups[u]) = 0
    BY DEF CallInv
  <2>3. ASSUME NEW v \in Users
        PROVE  /\ Len(groups[v]) <= Len(fds'[v]) /\ Len(fds'[v]) <= MaxFds
               /\ \A i \in 1..Len(groups[v]) : groups[v][i] = fds'[v][i]
               /\ pc'[v] = "get" => Len(groups[v]) < Len(fds'[v])
               /\ pc'[v] \in {"idle", "fill", "copy"} => groups[v] = <<>>
    <3>1. CASE v = u
      BY <1>1, <1>3, <2>2, <3>1, HotResetAssumption DEF CallInv, BasicOK
    <3>2. CASE v # u
      BY <1>1, <3>2 DEF CallInv, BasicOK
    <3>. QED BY <3>1, <3>2
  <2>. QED BY <1>2, <2>1, <2>3 DEF CallInv
<1>6. ReferencesBalance'
  BY <1>1, <1>2, BalanceKept
<1>. QED BY <1>4, <1>5, <1>6

(* One more fd is a group of the caller, and gives one more reference. *)
LEMMA GetStep ==
  ASSUME HotResetInv, NEW u \in Users, GetGroup(u)
  PROVE  HotResetInv'
<1>. DEFINE n == Len(groups[u]) + 1
            g == NextFd(u)
            to == IF n = Len(fds[u]) THEN "validate" ELSE "get"
<1>1. /\ UNCHANGED <<present, slot, owner, max, list, fds>>
      /\ pc[u] = "get" /\ pc' = [pc EXCEPT ![u] = to]
      /\ owner[g] = u
      /\ refs' = [refs EXCEPT ![g] = @ + 1]
      /\ groups' = [groups EXCEPT ![u] = Append(groups[u], g)]
  BY DEF GetGroup, Go, hostVars
<1>2. /\ groups[u] \in Seq(Groups) /\ fds[u] \in Seq(Groups)
      /\ Len(groups[u]) \in Nat /\ Len(fds[u]) \in Nat
      /\ Len(groups[u]) < Len(fds[u]) /\ Len(fds[u]) <= MaxFds
      /\ MaxFds \in Nat
  BY <1>1, HotResetAssumption DEF HotResetInv, CallInv
<1>3. n \in 1..Len(fds[u]) /\ n \in 1..MaxFds /\ g = fds[u][n] /\ g \in Groups
  BY <1>2 DEF NextFd
<1>4. /\ groups'[u] \in Seq(Groups) /\ Len(groups'[u]) = n
      /\ \A i \in 1..Len(groups[u]) : groups'[u][i] = groups[u][i]
      /\ groups'[u][n] = g
      /\ \A v \in Users \ {u} : groups'[v] = groups[v]
      /\ groups' \in [Users -> Seq(Groups)]
  <2>1. groups'[u] = Append(groups[u], g)
    BY <1>1 DEF HotResetInv, CallInv
  <2>2. \A v \in Users \ {u} : groups'[v] = groups[v]
    BY <1>1 DEF HotResetInv, CallInv
  <2>3. groups'[u] \in Seq(Groups) /\ Len(groups'[u]) = n
    BY <1>2, <1>3, <2>1, AppendProperties
  <2>4. groups' \in [Users -> Seq(Groups)]
    BY <1>1, <2>1, <2>3 DEF HotResetInv, CallInv
  <2>. QED BY <1>2, <1>3, <2>1, <2>2, <2>3, <2>4, AppendProperties
<1>. HIDE DEF n, g, to
<1>5. BasicOK' /\ ListInv'
  <2>1. to \in {"validate", "get"}
    BY DEF to
  <2>. QED BY <1>1, <1>3, <2>1 DEF HotResetInv, BasicOK, ListInv
<1>6. CallInv'
  <2>1. ASSUME NEW v \in Users
        PROVE  /\ Len(groups'[v]) <= Len(fds[v]) /\ Len(fds[v]) <= MaxFds
               /\ \A i \in 1..Len(groups'[v]) : groups'[v][i] = fds[v][i]
               /\ pc'[v] = "get" => Len(groups'[v]) < Len(fds[v])
               /\ pc'[v] \in {"idle", "fill", "copy"} => groups'[v] = <<>>
    <3>1. CASE v = u
      <4>1. pc'[u] = to /\ pc'[u] \in {"validate", "get"}
            /\ (to = "get" => n # Len(fds[u]))
        BY <1>1 DEF HotResetInv, BasicOK, to
      <4>2. \A i \in 1..n : groups'[u][i] = fds[u][i]
        <5>1. \A i \in 1..Len(groups[u]) : groups[u][i] = fds[u][i]
          BY DEF HotResetInv, CallInv
        <5>2. \A i \in 1..n : i = n \/ i \in 1..Len(groups[u])
          BY <1>2 DEF n
        <5>. QED BY <1>3, <1>4, <5>1, <5>2
      <4>. QED BY <1>2, <1>3, <1>4, <3>1, <4>1, <4>2
    <3>2. CASE v # u
      BY <1>1, <1>4, <3>2 DEF HotResetInv, CallInv, BasicOK
    <3>. QED BY <3>1, <3>2
  <2>. QED BY <1>1, <1>4, <2>1 DEF HotResetInv, CallInv
<1>7. OwnerInv'
  <2>. SUFFICES ASSUME NEW v \in Users, NEW i \in 1..Len(groups'[v])
                PROVE  owner[groups'[v][i]] \in {v, Nobody}
    BY <1>1 DEF OwnerInv
  <2>1. CASE v = u
    <3>1. i = n \/ i \in 1..Len(groups[u])
      BY <1>2, <1>4, <2>1 DEF n
    <3>. QED BY <1>1, <1>4, <2>1, <3>1 DEF HotResetInv, OwnerInv
  <2>2. CASE v # u
    BY <1>4, <2>2 DEF HotResetInv, OwnerInv
  <2>. QED BY <2>1, <2>2
<1>8. ReferencesBalance'
  <2>. SUFFICES ASSUME NEW h \in Groups
                PROVE  refs'[h] = Cardinality(Held(h)')
    BY DEF ReferencesBalance
  <2>1. DOMAIN groups'[u] = 1..n /\ DOMAIN groups[u] = 1..Len(groups[u])
    BY <1>2, <1>4, LenProperties
  <2>2. refs[h] = Cardinality(Held(h)) /\ refs \in [Groups -> Int]
    BY DEF HotResetInv, ReferencesBalance, BasicOK
  <2>3. 1..n = 1..Len(groups[u]) \union {n} /\ n \notin 1..Len(groups[u])
    BY <1>2 DEF n
  <2>4. CASE h = g
    <3>a. ASSUME NEW v \in Users, NEW i \in 1..MaxFds
          PROVE  <<v, i>> \in Held(h)'
                   <=> <<v, i>> \in Held(h) \/ (v = u /\ i = n)
      <4>1. CASE v = u
        BY <1>3, <1>4, <2>1, <2>3, <2>4, <4>1 DEF Held
      <4>2. CASE v # u
        BY <1>4, <4>2 DEF Held
      <4>. QED BY <4>1, <4>2
    <3>b. <<u, n>> \notin Held(h)
      BY <1>3, <2>1, <2>3 DEF Held
    <3>1. Held(h)' = Held(h) \union {<<u, n>>} /\ <<u, n>> \notin Held(h)
      <4>1. Held(h) \subseteq Users \X (1..MaxFds)
            /\ Held(h)' \subseteq Users \X (1..MaxFds)
        BY DEF Held
      <4>. QED BY <1>3, <3>a, <3>b, <4>1
    <3>2. Cardinality(Held(h)') = Cardinality(Held(h)) + 1
      BY <3>1, HeldFinite, FS_AddElement
    <3>. QED BY <1>1, <2>2, <2>4, <3>2
  <2>5. CASE h # g
    <3>1. Held(h)' = Held(h)
      BY <1>3, <1>4, <2>1, <2>3, <2>5 DEF Held
    <3>. QED BY <1>1, <2>2, <2>5, <3>1
  <2>. QED BY <2>4, <2>5
<1>. QED BY <1>5, <1>6, <1>7, <1>8 DEF HotResetInv

(* The steps that leave groups[] and the references as they are *)
LEMMA QuietStep ==
  ASSUME HotResetInv, NEW u \in Users,
         GetGroupFails(u) \/ Validate(u) \/ Reset(u)
  PROVE  HotResetInv'
<1>. USE DEF HotResetInv, Go, hostVars
<1>1. UNCHANGED <<present, slot, owner, max, list, fds>>
      /\ pc[u] \in {"get", "validate", "reset"}
      /\ \E to \in {"reset", "release"} : pc' = [pc EXCEPT ![u] = to]
  BY DEF GetGroupFails, Validate, Reset
<1>2. groups' = groups
  <2>1. CASE Validate(u)
    BY <2>1 DEF Validate, HeldOn, CallInv
  <2>. QED BY <2>1 DEF GetGroupFails, Reset
<1>3. refs' = refs
  <2>1. CASE Validate(u)
    <3>1. \A g \in Groups : Times(groups[u], g) \in Int
      <4>. SUFFICES ASSUME NEW g \in Groups
                    PROVE  Times(groups[u], g) \in Int
        OBVIOUS
      <4>1. groups[u] \in Seq(Groups)
        BY DEF CallInv
      <4>. DEFINE T == {<<u, i>> :
                           i \in {j \in 1..Len(groups[u]) : groups[u][j] = g}}
      <4>2. IsFiniteSet(T) /\ Cardinality(T) = Times(groups[u], g)
        BY <4>1, TimesIsHeld
      <4>3. Cardinality(T) \in Nat
        <5>. HIDE DEF T
        <5>. QED BY <4>2, FS_CardinalityType
      <4>. QED BY <4>2, <4>3
    <3>2. refs' = [g \in Groups |->
                     refs[g] - Times(groups[u], g) + Times(groups[u], g)]
      BY <1>2, <2>1 DEF Validate
    <3>3. refs \in [Groups -> Int]
      BY DEF BasicOK
    <3>4. \A g \in Groups :
            refs[g] - Times(groups[u], g) + Times(groups[u], g) = refs[g]
      BY <3>1, <3>3
    <3>. QED BY <3>2, <3>3, <3>4
  <2>. QED BY <2>1 DEF GetGroupFails, Reset
<1>4. BasicOK' /\ ListInv' /\ OwnerInv'
  BY <1>1, <1>2, <1>3 DEF BasicOK, ListInv, OwnerInv
<1>5. CallInv'
  BY <1>1, <1>2 DEF CallInv, BasicOK
<1>6. ReferencesBalance'
  BY <1>2, <1>3, BalanceKept
<1>. QED BY <1>4, <1>5, <1>6

(* All the references of the call are put, and no other. *)
LEMMA ReleaseStep ==
  ASSUME HotResetInv, NEW u \in Users, Release(u)
  PROVE  HotResetInv'
<1>1. /\ UNCHANGED <<present, slot, owner, max, list>>
      /\ pc[u] = "release" /\ pc' = [pc EXCEPT ![u] = "idle"]
      /\ refs' = [g \in Groups |-> refs[g] - Times(groups[u], g)]
      /\ groups' = [groups EXCEPT ![u] = <<>>]
      /\ fds' = [fds EXCEPT ![u] = <<>>]
  BY DEF Release, AllGot, Go, hostVars
<1>2. /\ groups[u] \in Seq(Groups) /\ Len(groups[u]) \in Nat
      /\ Len(fds[u]) \in Nat /\ Len(groups[u]) <= Len(fds[u])
      /\ Len(fds[u]) <= MaxFds /\ MaxFds \in Nat
  BY HotResetAssumption DEF HotResetInv, CallInv
<1>3. /\ groups'[u] = <<>> /\ fds'[u] = <<>>
      /\ \A v \in Users \ {u} : groups'[v] = groups[v] /\ fds'[v] = fds[v]
      /\ groups' \in [Users -> Seq(Groups)]
      /\ fds' \in [Users -> Seq(Groups)]
  BY <1>1 DEF HotResetInv, CallInv
<1>4. ASSUME NEW g \in Groups
      PROVE  /\ refs'[g] \in Int
             /\ refs'[g] = Cardinality(Held(g)')
  <2>. DEFINE T == {<<u, i>> :
                       i \in {j \in 1..Len(groups[u]) : groups[u][j] = g}}
  <2>1. IsFiniteSet(T) /\ Cardinality(T) = Times(groups[u], g)
    BY <1>2, TimesIsHeld
  <2>2. DOMAIN groups[u] = 1..Len(groups[u]) /\ DOMAIN groups'[u] = {}
    BY <1>2, <1>3, LenProperties
  <2>3. T \subseteq Held(g)
    BY <1>2, <2>2 DEF Held
  <2>4. Held(g)' = Held(g) \ T
    <3>1. ASSUME NEW v \in Users, NEW i \in 1..MaxFds
          PROVE  <<v, i>> \in Held(g)'
                   <=> <<v, i>> \in Held(g) /\ <<v, i>> \notin T
      <4>1. CASE v = u
        BY <1>2, <2>2, <4>1 DEF Held
      <4>2. CASE v # u
        BY <1>3, <4>2 DEF Held
      <4>. QED BY <4>1, <4>2
    <3>2. Held(g) \subseteq Users \X (1..MaxFds)
          /\ Held(g)' \subseteq Users \X (1..MaxFds)
      BY DEF Held
    <3>. HIDE DEF T
    <3>. QED BY <3>1, <3>2
  <2>. HIDE DEF T
  <2>5. Held(g) \cap T = T
    BY <2>3
  <2>6. Cardinality(Held(g)') = Cardinality(Held(g)) - Cardinality(T)
    BY <2>4, <2>5, HeldFinite, FS_Difference
  <2>7. Cardinality(T) \in Nat /\ refs[g] \in Int
        /\ refs[g] = Cardinality(Held(g))
    BY <2>1, FS_CardinalityType
       DEF HotResetInv, ReferencesBalance, BasicOK
  <2>. QED BY <1>1, <2>1, <2>6, <2>7
<1>5. BasicOK' /\ ListInv'
  <2>1. refs' \in [Groups -> Int]
    BY <1>1, <1>4
  <2>. QED BY <1>1, <2>1 DEF HotResetInv, BasicOK, ListInv
<1>6. CallInv'
  <2>1. ASSUME NEW v \in Users
        PROVE  /\ Len(groups'[v]) <= Len(fds'[v]) /\ Len(fds'[v]) <= MaxFds
               /\ \A i \in 1..Len(groups'[v]) : groups'[v][i] = fds'[v][i]
               /\ pc'[v] = "get" => Len(groups'[v]) < Len(fds'[v])
               /\ pc'[v] \in {"idle", "fill", "copy"} => groups'[v] = <<>>
    <3>1. CASE v = u
      <4>1. pc'[u] = "idle"
        BY <1>1 DEF HotResetInv, BasicOK
      <4>. QED BY <1>2, <1>3, <3>1, <4>1
    <3>2. CASE v # u
      BY <1>1, <1>3, <3>2 DEF HotResetInv, CallInv, BasicOK
    <3>. QED BY <3>1, <3>2
  <2>. QED BY <1>3, <2>1 DEF CallInv
<1>7. OwnerInv'
  <2>. SUFFICES ASSUME NEW v \in Users, NEW i \in 1..Len(groups'[v])
                PROVE  owner[groups'[v][i]] \in {v, Nobody}
    BY <1>1 DEF OwnerInv
  <2>1. v # u
    BY <1>3
  <2>. QED BY <1>3, <2>1 DEF HotResetInv, OwnerInv
<1>8. ReferencesBalance'
  BY <1>4 DEF ReferencesBalance
<1>. QED BY <1>5, <1>6, <1>7, <1>8 DEF HotResetInv

-----------------------------------------------------------------------------
(* The calls on the devices, with the groups that come and go around them, *)
(* never lose the invariant.                                               *)
THEOREM HotResetCorrect == Spec => []HotResetInv
<1>1. HotResetInv /\ [Next]_vars => HotResetInv'
  <2>. SUFFICES ASSUME HotResetInv, [Next]_vars
                PROVE  HotResetInv'
    OBVIOUS
  <2>1. ASSUME NEW d \in Devs, Plug(d) \/ Unplug(d)
        PROVE  HotResetInv'
    BY <2>1, BusStep
  <2>2. ASSUME NEW g \in Groups,
               CloseGroup(g) \/ \E u \in Users : OpenGroup(u, g)
        PROVE  HotResetInv'
    BY <2>2, GroupStep
  <2>3. ASSUME NEW u \in Users, InfoCount(u) \/ InfoFill(u)
                                \/ InfoFillFails(u) \/ InfoCopy(u)
        PROVE  HotResetInv'
    BY <2>3, InfoStep
  <2>4. ASSUME NEW u \in Users, NEW gs \in SeqOf(Groups, MaxFds), Start(u, gs)
        PROVE  HotResetInv'
    BY <2>4, StartStep
  <2>5. ASSUME NEW u \in Users, GetGroup(u)
        PROVE  HotResetInv'
    BY <2>5, GetStep
  <2>6. ASSUME NEW u \in Users,
               GetGroupFails(u) \/ Validate(u) \/ Reset(u)
        PROVE  HotResetInv'
    BY <2>6, QuietStep
  <2>7. ASSUME NEW u \in Users, Release(u)
        PROVE  HotResetInv'
    BY <2>7, ReleaseStep
  <2>8. CASE UNCHANGED vars
    <3>1. UNCHANGED <<refs, groups>>
      BY <2>8 DEF vars
    <3>2. ReferencesBalance'
      BY <3>1, BalanceKept
    <3>. QED BY <2>8, <3>2 DEF HotResetInv, BasicOK, ListInv, CallInv,
                               OwnerInv, vars, hostVars
  <2>. QED BY <2>1, <2>2, <2>3, <2>4, <2>5, <2>6, <2>7, <2>8 DEF Next
<1>. QED BY InitHotReset, <1>1, PTL DEF Spec

(* Every group reference that a hot reset took is put exactly once,        *)
(* whichever of its steps fails, with any fds, the same one twice included *)
(* ("while (--group_idx >= 0)", vfio_pci.c:1030).                          *)
THEOREM ReferencesAreBalanced == Spec => []ReferencesBalance
<1>1. HotResetInv => ReferencesBalance
  BY DEF HotResetInv
<1>. QED BY <1>1, HotResetCorrect, PTL

(* Every variable keeps to its values: no group is put more often than it  *)
(* was got, and a list of devices fits the array that was counted for it   *)
(* before the bus changed.                                                 *)
THEOREM TypeCorrect == Spec => []TypeOK
<1>1. HotResetInv => TypeOK
  <2>. SUFFICES ASSUME HotResetInv PROVE TypeOK
    OBVIOUS
  <2>1. refs \in [Groups -> Nat]
    <3>1. \A g \in Groups : refs[g] = Cardinality(Held(g))
      BY DEF HotResetInv, ReferencesBalance
    <3>2. \A g \in Groups : Cardinality(Held(g)) \in Nat
      BY HeldFinite, FS_CardinalityType
    <3>. QED BY <3>1, <3>2 DEF HotResetInv, BasicOK
  <2>2. ASSUME NEW u \in Users
        PROVE  fds[u] \in SeqOf(Groups, MaxFds) /\ IsPrefix(groups[u], fds[u])
    <3>. DEFINE n == Len(groups[u])
                s == SubSeq(groups[u], 1, n)
                t == SubSeq(fds[u], 1, n)
    <3>1. /\ fds[u] \in Seq(Groups) /\ groups[u] \in Seq(Groups)
          /\ n \in Nat /\ Len(fds[u]) \in Nat /\ n <= Len(fds[u])
          /\ Len(fds[u]) <= MaxFds
          /\ \A i \in 1..n : groups[u][i] = fds[u][i]
      BY DEF HotResetInv, CallInv
    <3>2. fds[u] \in SeqOf(Groups, MaxFds)
      BY <3>1, MayBePassed
    <3>3. \A i \in 1..n : groups[u][i] \in Groups /\ fds[u][i] \in Groups
      BY <3>1
    <3>4. /\ t \in Seq(Groups) /\ Len(t) = n
          /\ \A i \in 1..n : t[i] = fds[u][i]
      <4>1. /\ t \in Seq(Groups)
            /\ Len(t) = IF 1 <= n THEN n - 1 + 1 ELSE 0
            /\ \A i \in 1..n - 1 + 1 : t[i] = fds[u][1 + i - 1]
        <5>. HIDE DEF n
        <5>. QED BY <3>1, <3>3, SubSeqProperties
      <4>. QED BY <3>1, <4>1
    <3>5. s = groups[u]
      BY <3>1, SubSeqFull
    <3>6. s = t
      <4>1. groups[u] \in [1..n -> Groups] /\ t \in [1..n -> Groups]
        BY <3>1, <3>4, LenProperties
      <4>. HIDE DEF s, t, n
      <4>. QED BY <3>1, <3>4, <3>5, <4>1
    <3>. QED BY <3>1, <3>2, <3>6 DEF IsPrefix
  <2>. QED BY <2>1, <2>2 DEF HotResetInv, BasicOK, ListInv, TypeOK
<1>. QED BY <1>1, HotResetCorrect, PTL

-----------------------------------------------------------------------------
(* If nothing is plugged in during a hot reset, what was tested still      *)
(* covers the bus when it is reset.                                        *)
LEMMA TestedStep ==
  ASSUME QuietBus, HotResetInv, TestedInv, [Next]_vars
  PROVE  TestedInv'
<1>. SUFFICES ASSUME NEW u \in Users, pc'[u] = "reset"
              PROVE  \A d \in Affected' : GroupOf[d] \in ToSet(groups'[u])
  BY DEF TestedInv
<1>0. pc \in [Users -> {"idle", "fill", "copy", "get", "validate", "reset",
                       "release"}]
      /\ groups \in [Users -> Seq(Groups)]
  BY DEF HotResetInv, BasicOK, CallInv
<1>1. ASSUME NEW d \in Devs, Plug(d)
      PROVE  FALSE
  BY <1>1 DEF Plug
<1>2. ASSUME Affected' \subseteq Affected, pc[u] = "reset",
             groups'[u] = groups[u]
      PROVE  \A d \in Affected' : GroupOf[d] \in ToSet(groups'[u])
  BY <1>2 DEF TestedInv
<1>3. ASSUME NEW d \in Devs, Unplug(d)
      PROVE  \A e \in Affected' : GroupOf[e] \in ToSet(groups'[u])
  <2>1. Affected' \subseteq Affected
    BY <1>3 DEF Unplug, Affected
  <2>. QED BY <1>2, <1>3, <2>1 DEF Unplug
<1>4. ASSUME UNCHANGED <<present, slot>>
      PROVE  Affected' = Affected
  BY <1>4 DEF Affected
<1>5. ASSUME NEW g \in Groups,
             CloseGroup(g) \/ \E v \in Users : OpenGroup(v, g)
      PROVE  \A d \in Affected' : GroupOf[d] \in ToSet(groups'[u])
  BY <1>2, <1>4, <1>5 DEF CloseGroup, OpenGroup
<1>6. ASSUME NEW v \in Users,
             \/ InfoCount(v) \/ InfoFill(v) \/ InfoFillFails(v) \/ InfoCopy(v)
             \/ \E gs \in SeqOf(Groups, MaxFds) : Start(v, gs)
             \/ GetGroup(v) \/ GetGroupFails(v) \/ Reset(v) \/ Release(v)
      PROVE  \A d \in Affected' : GroupOf[d] \in ToSet(groups'[u])
  <2>1. UNCHANGED <<present, slot>>
    BY <1>6 DEF InfoCount, InfoFill, InfoFillFails, InfoCopy, Start, GetGroup,
                GetGroupFails, Reset, Release, hostVars
  <2>2. v # u /\ pc[u] = "reset"
    BY <1>0, <1>6 DEF InfoCount, InfoFill, InfoFillFails, InfoCopy, Start,
                      GetGroup, GetGroupFails, Reset, Release, Go
  <2>3. groups'[u] = groups[u]
    BY <1>0, <1>6, <2>2 DEF InfoCount, InfoFill, InfoFillFails, InfoCopy,
                            Start, GetGroup, GetGroupFails, Reset, Release
  <2>. QED BY <1>2, <1>4, <2>1, <2>2, <2>3
<1>7. ASSUME NEW v \in Users, Validate(v)
      PROVE  \A d \in Affected' : GroupOf[d] \in ToSet(groups'[u])
  <2>1. UNCHANGED <<present, slot>> /\ groups' = groups
    BY <1>0, <1>7 DEF Validate, HeldOn, hostVars
  <2>2. CASE v = u
    <3>1. AllContained(u)
      BY <1>0, <1>7, <2>2 DEF Validate, Go
    <3>. QED BY <1>4, <2>1, <3>1 DEF AllContained
  <2>3. CASE v # u
    <3>1. pc[u] = "reset"
      BY <1>0, <1>7, <2>3 DEF Validate, Go
    <3>. QED BY <1>2, <1>4, <2>1, <3>1
  <2>. QED BY <2>2, <2>3
<1>8. CASE UNCHANGED vars
  BY <1>2, <1>4, <1>8 DEF vars, hostVars
<1>. QED BY <1>1, <1>3, <1>5, <1>6, <1>7, <1>8 DEF Next

(* So it always does. *)
LEMMA TestedHolds == QuietBus => (Spec => []TestedInv)
<1>. SUFFICES ASSUME QuietBus PROVE Spec => []TestedInv
  OBVIOUS
<1>1. Init => TestedInv
  BY DEF Init, TestedInv
<1>2. HotResetInv /\ TestedInv /\ [Next]_vars => TestedInv'
  BY TestedStep
<1>. QED BY <1>1, <1>2, HotResetCorrect, PTL DEF Spec

Up(d) == Bridge[BusOf[d]]

(* The bridge to its bus and what is above that, is what is above a device *)
(* beside itself.                                                          *)
LEMMA AboveUnfolds ==
  ASSUME NEW d \in Devs
  PROVE  /\ d \in Above(d)
         /\ Up(d) = NoDev => Above(d) = {d}
         /\ Up(d) # NoDev => /\ Up(d) \in Devs
                             /\ Above(d) = {d} \union Above(Up(d))
<1>1. \A e \in Devs : Up(e) \in Devs \union {NoDev}
  BY HotResetAssumption DEF Buses, Up
<1>2. d \in Above(d)
  BY DEF Above
<1>3. ASSUME Up(d) = NoDev
      PROVE  Above(d) = {d}
  <2>1. {d} \in SUBSET Devs /\ d \in {d} /\ UpClosed({d})
    BY <1>3 DEF UpClosed, Up
  <2>2. Above(d) \subseteq {d}
    BY <2>1 DEF Above
  <2>. QED BY <1>2, <2>2
<1>4. ASSUME Up(d) # NoDev
      PROVE  Up(d) \in Devs /\ Above(d) = {d} \union Above(Up(d))
  <2>. DEFINE p == Up(d)
              T == {d} \union Above(p)
  <2>1. p \in Devs /\ p \in Above(p)
    BY <1>1, <1>4 DEF Above
  <2>2. UpClosed(Above(p))
    <3>. SUFFICES ASSUME NEW e \in Above(p), Up(e) # NoDev
                  PROVE  Up(e) \in Above(p)
      BY DEF UpClosed, Up
    <3>1. Up(e) \in Devs /\ e \in Devs
      BY <1>1 DEF Above
    <3>2. ASSUME NEW S \in SUBSET Devs, p \in S, UpClosed(S)
          PROVE  Up(e) \in S
      <4>1. e \in S
        BY <3>2 DEF Above
      <4>. QED BY <3>2, <4>1 DEF UpClosed, Up
    <3>. QED BY <3>1, <3>2 DEF Above
  <2>3. UpClosed(T) /\ T \in SUBSET Devs /\ d \in T
    <3>1. Above(p) \subseteq Devs
      BY DEF Above
    <3>. QED BY <2>1, <2>2, <3>1 DEF UpClosed, Up
  <2>4. Above(d) \subseteq T
    BY <2>3 DEF Above
  <2>5. ASSUME NEW f \in Above(p)
        PROVE  f \in Above(d)
    <3>1. f \in Devs
      BY DEF Above
    <3>2. ASSUME NEW S \in SUBSET Devs, d \in S, UpClosed(S)
          PROVE  f \in S
      <4>1. p \in S
        BY <1>4, <3>2 DEF UpClosed, Up
      <4>. QED BY <3>2, <4>1 DEF Above
    <3>. QED BY <3>1, <3>2 DEF Above
  <2>. QED BY <1>2, <2>1, <2>4, <2>5
<1>. QED BY <1>2, <1>3, <1>4

(* The walks are computed up the tree.  Their equations have a solution,   *)
(* so that OnTop and BelowSlot are solutions.                              *)
LEMMA OnTopUnfolds ==
  \A d \in Devs :
    OnTop[d] <=> BusOf[d] = "top" \/ (Up(d) # NoDev /\ OnTop[Up(d)])
<1>. DEFINE S == Devs \union {NoDev}
            Solves(g) == g = [d \in S |->
                               d # NoDev /\ (BusOf[d] = "top" \/ g[Up(d)])]
            h == [d \in S |->
                    d # NoDev /\ \E f \in Above(d) : BusOf[f] = "top"]
<1>1. Solves(h)
  <2>1. ASSUME NEW d \in S
        PROVE  h[d] = (d # NoDev /\ (BusOf[d] = "top" \/ h[Up(d)]))
    <3>1. CASE d = NoDev
      BY <3>1
    <3>2. CASE d # NoDev /\ Up(d) = NoDev
      <4>1. d \in Devs /\ Above(d) = {d} /\ h[NoDev] = FALSE
        BY <3>2, AboveUnfolds
      <4>2. h[d] = (BusOf[d] = "top")
        BY <3>2, <4>1
      <4>. QED BY <3>2, <4>1, <4>2
    <3>3. CASE d # NoDev /\ Up(d) # NoDev
      BY <3>3, AboveUnfolds
    <3>. QED BY <3>1, <3>2, <3>3
  <2>. QED BY <2>1
<1>2. OnTop = CHOOSE g : Solves(g)
  BY DEF OnTop, Up
<1>3. Solves(OnTop)
  <2>. HIDE DEF Solves
  <2>. QED BY <1>1, <1>2
<1>4. ASSUME NEW g, Solves(g), NEW d \in S
      PROVE  g[d] = (d # NoDev /\ (BusOf[d] = "top" \/ g[Up(d)]))
  BY <1>4, Zenon
<1>5. \A d \in S : OnTop[d] = (d # NoDev /\ (BusOf[d] = "top" \/ OnTop[Up(d)]))
  BY <1>3, <1>4
<1>6. NoDev \in S /\ \A d \in Devs : d \in S /\ d # NoDev
  BY HotResetAssumption
<1>. QED BY <1>5, <1>6

(* The same of vfio_pci_dev_below_slot, which stops on the bus of the slot *)
LEMMA BelowSlotUnfolds ==
  \A d \in Devs :
    BelowSlot[d] <=> IF BusOf[d] = "top" THEN SlotOf[d] = "s0"
                     ELSE Up(d) # NoDev /\ BelowSlot[Up(d)]
<1>. DEFINE S == Devs \union {NoDev}
            Solves(g) == g = [d \in S |->
                               d # NoDev /\ IF BusOf[d] = "top"
                                            THEN SlotOf[d] = "s0"
                                            ELSE g[Up(d)]]
            h == [d \in S |-> d # NoDev /\ \E f \in Above(d) :
                               BusOf[f] = "top" /\ SlotOf[f] = "s0"]
<1>1. Solves(h)
  <2>1. ASSUME NEW d \in S
        PROVE  h[d] = (d # NoDev /\ IF BusOf[d] = "top" THEN SlotOf[d] = "s0"
                                    ELSE h[Up(d)])
    <3>1. CASE d = NoDev
      BY <3>1
    <3>2. CASE d # NoDev /\ Up(d) = NoDev
      <4>1. d \in Devs /\ Above(d) = {d} /\ h[NoDev] = FALSE
        BY <3>2, AboveUnfolds
      <4>2. h[d] = (BusOf[d] = "top" /\ SlotOf[d] = "s0")
        BY <3>2, <4>1
      <4>. QED BY <3>2, <4>1, <4>2
    <3>3. CASE d # NoDev /\ Up(d) # NoDev
      <4>1. d \in Devs /\ BusOf[d] # "top"
        BY <3>3, HotResetAssumption DEF Up
      <4>. QED BY <3>3, <4>1, AboveUnfolds
    <3>. QED BY <3>1, <3>2, <3>3
  <2>. QED BY <2>1
<1>2. BelowSlot = CHOOSE g : Solves(g)
  BY DEF BelowSlot, Up
<1>3. Solves(BelowSlot)
  <2>. HIDE DEF Solves
  <2>. QED BY <1>1, <1>2
<1>4. ASSUME NEW g, Solves(g), NEW d \in S
      PROVE  g[d] = (d # NoDev /\ IF BusOf[d] = "top" THEN SlotOf[d] = "s0"
                                  ELSE g[Up(d)])
  BY <1>4, Zenon
<1>5. \A d \in S :
        BelowSlot[d] = (d # NoDev /\ IF BusOf[d] = "top" THEN SlotOf[d] = "s0"
                                     ELSE BelowSlot[Up(d)])
  BY <1>3, <1>4
<1>6. NoDev \in S /\ \A d \in Devs : d \in S /\ d # NoDev
  BY HotResetAssumption
<1>. QED BY <1>5, <1>6

(* So they find whatever has a device of the bus, or a function of the     *)
(* slot, above it: with a device, those that it would be found from are    *)
(* closed upwards.                                                         *)
LEMMA WalksReachAbove ==
  ASSUME NEW d \in Devs, NEW f \in Above(d), BusOf[f] = "top"
  PROVE  OnTop[d] /\ (SlotOf[f] = "s0" => BelowSlot[d])
<1>. DEFINE S == {e \in Devs : OnTop[e] => OnTop[d]}
            T == {e \in Devs : BelowSlot[e] => BelowSlot[d]}
<1>1. \A e \in Devs : /\ Up(e) \in Devs \union {NoDev}
                      /\ BusOf[e] = "top" => Up(e) = NoDev
  BY HotResetAssumption DEF Buses, Up
<1>2. S \in SUBSET Devs /\ d \in S /\ UpClosed(S)
  BY <1>1, OnTopUnfolds DEF UpClosed, Up
<1>3. T \in SUBSET Devs /\ d \in T /\ UpClosed(T)
  BY <1>1, BelowSlotUnfolds DEF UpClosed, Up
<1>4. f \in Devs /\ f \in S /\ f \in T
  BY <1>2, <1>3 DEF Above
<1>. QED BY <1>4, OnTopUnfolds, BelowSlotUnfolds

(* What is hit is what the walk that tests it finds. *)
LEMMA HitIsAffected ==
  ASSUME present \subseteq Devs
  PROVE  Hit \subseteq Affected
<1>. SUFFICES ASSUME NEW d \in Hit PROVE d \in Affected
  OBVIOUS
<1>1. PICK f \in Above(d) : BusOf[f] = "top" /\ (slot => SlotOf[f] = "s0")
  BY DEF Hit
<1>. QED BY <1>1, WalksReachAbove DEF Hit, Affected

(* On a bus that is quiet during the call, what is reset is what was       *)
(* tested: every device that is hit is in a group the caller has passed    *)
(* and still holds (vfio_pci.c:1017-1020).                                 *)
THEOREM ResetStaysWithinGroups ==
  ASSUME QuietBus
  PROVE  Spec => ResetWithinGroups
<1>1. HotResetInv /\ TestedInv /\ [Next]_vars =>
        [\A u \in Users : Reset(u) =>
           \A d \in Hit : GroupOf[d] \in ToSet(groups[u])]_vars
  <2>. SUFFICES ASSUME HotResetInv, TestedInv, NEW u \in Users, Reset(u),
                       NEW d \in Hit
                PROVE  GroupOf[d] \in ToSet(groups[u])
    OBVIOUS
  <2>1. pc[u] = "reset"
    BY DEF Reset, Go
  <2>2. d \in Affected
    BY HitIsAffected DEF HotResetInv, BasicOK
  <2>. QED BY <2>1, <2>2 DEF TestedInv
<1>. QED BY <1>1, TestedHolds, HotResetCorrect, PTL
         DEF Spec, ResetWithinGroups

(* Then a hot reset never hits a device that another user owns, although   *)
(* groups are closed and opened during the call: those that the caller     *)
(* holds are not handed on (vfio_pci.c:985-987).                           *)
THEOREM ResetSparesOtherUsers ==
  ASSUME QuietBus
  PROVE  Spec => ResetSparesOthers
<1>1. HotResetInv /\ TestedInv /\ [Next]_vars =>
        [\A u \in Users : Reset(u) =>
           \A d \in Hit : GroupOf[d] \in Groups
                            => owner[GroupOf[d]] \in {u, Nobody}]_vars
  <2>. SUFFICES ASSUME HotResetInv, TestedInv, NEW u \in Users, Reset(u),
                       NEW d \in Hit
                PROVE  owner[GroupOf[d]] \in {u, Nobody}
    OBVIOUS
  <2>1. pc[u] = "reset"
    BY DEF Reset, Go
  <2>2. d \in Affected
    BY HitIsAffected DEF HotResetInv, BasicOK
  <2>3. GroupOf[d] \in ToSet(groups[u])
    BY <2>1, <2>2 DEF TestedInv
  <2>4. groups[u] \in Seq(Groups)
    BY DEF HotResetInv, CallInv
  <2>5. PICK i \in 1..Len(groups[u]) : groups[u][i] = GroupOf[d]
    BY <2>3, <2>4, LenProperties DEF ToSet
  <2>. QED BY <2>5 DEF HotResetInv, OwnerInv
<1>. QED BY <1>1, TestedHolds, HotResetCorrect, PTL
         DEF Spec, ResetSparesOthers

-----------------------------------------------------------------------------
(* VGA arbitration, which VfioVgaProofs proves right for any set of devices *)
Tree == INSTANCE VfioVgaProofs WITH
  Devs <- Devs \union HostDevs, BusOf <- TreeBusOf, Bridge <- TreeBridge

(* Whatever is plugged in and out, on any bus and among any other devices  *)
(* of the host, legacy VGA decoding is given up exactly by the only VGA    *)
(* device below its bridge, and with VGA support disabled.                 *)
THEOREM VgaDecodeStaysRight == Spec => []VgaDecodeRight
<1>1. TypeOK => VgaDecodeRight
  <2>. SUFFICES ASSUME TypeOK PROVE VgaDecodeRight
    OBVIOUS
  <2>1. present \union HostDevs \in SUBSET (Devs \union HostDevs)
    BY DEF TypeOK
  <2>2. Tree!Numbered
    BY BusAssumption
       DEF Vga!Numbered, Vga!Buses, Vga!Upstream, Vga!UpClosed, Vga!Within,
           Vga!Apart, Tree!Numbered, Tree!Buses, Tree!Upstream,
           Tree!UpClosed, Tree!Within, Tree!Apart
  <2>3. Tree!VgaDecodeRight(present \union HostDevs)
    BY <2>1, <2>2, Tree!VgaDecodeIsRight
  <2>. QED
    BY <2>3
       DEF VgaDecodeRight, Vga!VgaDecodeRight, Vga!Legacy, Vga!Normal,
           Vga!SetVgaDecode, Vga!IsRootBus, Vga!Below, Vga!MaxBusnr,
           Vga!OnlyVgaBelowBridge, Vga!Buses, Vga!Upstream, Vga!UpClosed,
           Tree!VgaDecodeRight, Tree!Legacy, Tree!Normal,
           Tree!SetVgaDecode, Tree!IsRootBus, Tree!Below, Tree!MaxBusnr,
           Tree!OnlyVgaBelowBridge, Tree!Buses, Tree!Upstream, Tree!UpClosed
<1>. QED BY <1>1, TypeCorrect, PTL
=============================================================================
