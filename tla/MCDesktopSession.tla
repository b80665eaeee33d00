-------------------------- MODULE MCDesktopSession --------------------------
(* The desktop session on small instances. *)
EXTENDS DesktopSession, TLC

(* Paths of the same kind are only compared and stored. *)
Symmetry == Permutations(Disks) \cup Permutations(Images)
=============================================================================
