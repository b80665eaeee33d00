------------------------- MODULE MCPrivilegedHelper -------------------------
(* The helper on small instances. *)
EXTENDS PrivilegedHelper, TLC

(* Run ids and pids are only compared, stored and drawn: permuting them permutes behaviours. *)
Symmetry == Permutations(Runs) \cup Permutations(Pids)
=============================================================================
