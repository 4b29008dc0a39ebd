---------------------------- MODULE MCVfioRegions ----------------------------
(* Instances of VfioRegions for TLC: every naturally aligned BAR in four   *)
(* pages of four units, without and with an MSI-X table in places of it.   *)
EXTENDS VfioRegions

CONSTANTS u1, u2

TwoUsers == {u1, u2}
AnyKind  == {TRUE, FALSE}
Sizes    == {0, 1, 2, 4, 16}

Tables(len) == {NoTable} \union
  {[offset |-> o, size |-> n] : o \in {0, 3, 4, 6, 8, 11, 15}, n \in {1, 5}}

AllLayouts ==
  {b \in UNION {[mem : BOOLEAN, start : {0, 1, 2, 4}, len : {n},
                 table : Tables(n)] : n \in Sizes} :
     /\ b.len # 0 /\ b.len <= 4 => b.start % b.len = 0
     /\ Layout(b)}
=============================================================================
