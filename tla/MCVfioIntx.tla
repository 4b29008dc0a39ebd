----------------------------- MODULE MCVfioIntx -----------------------------
(* Instances of VfioIntx for TLC. *)
EXTENDS VfioIntx

BothKinds == {TRUE, FALSE}
DisIntx   == {TRUE}
NoDisIntx == {FALSE}
=============================================================================
