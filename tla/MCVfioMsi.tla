------------------------------ MODULE MCVfioMsi ------------------------------
(* Instances of VfioMsi for TLC. *)
EXTENDS VfioMsi

AnyKind    == {TRUE, FALSE}
IntxHidden == {TRUE}
IntxShown  == {FALSE}
=============================================================================
