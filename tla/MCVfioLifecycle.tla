--------------------------- MODULE MCVfioLifecycle ---------------------------
(* Instances of VfioLifecycle for TLC. *)
EXTENDS VfioLifecycle, TLC

AnyFlr  == {TRUE, FALSE}
WithFlr == {TRUE}
DevSymmetry == Permutations(Devs)
=============================================================================
