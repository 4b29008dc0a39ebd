--------------------------- MODULE MCVfioSetIrqs ---------------------------
(* Instances of VfioSetIrqs for TLC. *)
EXTENDS VfioSetIrqs, TLC

CONSTANTS u1, u2, fd1, fd2, fd3

TwoUsers  == {u1, u2}
AllFds    == {fd1, fd2, fd3}
Owners    == (fd1 :> u1) @@ (fd2 :> u1) @@ (fd3 :> u2)
AnyKind   == {TRUE, FALSE}
=============================================================================
