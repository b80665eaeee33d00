------------------------------- MODULE UnitMap -------------------------------
(***************************************************************************)
(* What the allocation map of the desktop promises: every cell counts the  *)
(* free and the used units among its own, exactly, for as long as what it  *)
(* was told is true; a complete and true report makes it exact again.      *)
(***************************************************************************)
EXTENDS Integers, Sequences, FiniteSets

CONSTANT Units      \* the allocation units of the volume

VARIABLES
  used,      \* the units in use
  bounds,    \* the units of each cell, first and last
  view,      \* what each cell shows
  trusted    \* everything since the last complete report was true

vars == <<used, bounds, view, trusted>>

Covered(b) == {u \in Units : b[1] <= u /\ u <= b[2]}
Counts(b, taken) ==
  [free |-> Cardinality(Covered(b) \ taken), used |-> Cardinality(Covered(b) \cap taken)]
Exact(bs, taken) == [k \in DOMAIN bs |-> Counts(bs[k], taken)]

Init == used \subseteq Units /\ bounds = <<>> /\ view = <<>> /\ ~trusted

(* A true report of the whole volume: the first one, or one that ends a doubt. *)
Report ==
  /\ trusted' /\ UNCHANGED used /\ view' = Exact(bounds', used)
  /\ bounds # <<>> => UNCHANGED bounds

(* A true change of some units. *)
Change ==
  /\ trusted /\ trusted' /\ UNCHANGED bounds
  /\ used' \subseteq Units /\ view' = Exact(bounds, used')

(* Something that was not true: the counts may be anything, the cells stay. *)
Doubt ==
  /\ ~trusted' /\ UNCHANGED used
  /\ bounds' # <<>> /\ (bounds # <<>> => Len(bounds') = Len(bounds))

Next == Report \/ Change \/ Doubt

Spec == Init /\ [][Next]_vars
=============================================================================
