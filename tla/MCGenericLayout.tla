-------------------------- MODULE MCGenericLayout --------------------------
(* The planners over small and extreme arguments. *)
EXTENDS GenericLayout

O(id, units, alignment, flags) ==
  [object_id |-> id, allocated_units |-> units, alignment_units |-> alignment, flags |-> flags]
R(first, units) == [first_unit |-> first, allocated_units |-> units]

Layout(objects, first, limit, percent) ==
  [kind |-> "layout", objects |-> objects, first_unit |-> first, limit_unit |-> limit,
   object |-> O(0, 0, 0, 0), free |-> <<>>, capacity |-> 0, growth_percent |-> percent]
Extents1(object, free, capacity, percent) ==
  [kind |-> "extents", objects |-> <<>>, first_unit |-> 0, limit_unit |-> 0,
   object |-> object, free |-> free, capacity |-> capacity, growth_percent |-> percent]

Width == 1100

Movable == {O(id, units, alignment, 0) :
              id \in {1, 2}, units \in {1, 10, 11, Width - 5}, alignment \in {1, 4}}
Refused == {O(0, 1, 1, 0), O(1, 0, 1, 0), O(2, 1, 0, 0), O(2, 1, 1, 1)}
Regions == {<<0, 16>>, <<3, 40>>, <<Width - 4, Width>>, <<0, Width>>, <<9, 3>>, <<5, Width>>}
LayoutCalls ==
  {Layout(objects, region[1], region[2], percent) :
     objects \in {<<>>} \cup UNION {[1 .. n -> Movable \cup Refused] : n \in 1 .. 2}
                 \cup {<<O(1, a, 4, 0), O(2, b, 3, 0), O(3, c, 1, 0)>> : a, b, c \in {1, 4, 10, 11}},
     region \in Regions, percent \in {0, 7, 10}}

Places == {R(0, 3), R(1, 2), R(3, 1), R(3, 5), R(5, 3), R(8, 2), R(8, 12), R(11, 3), R(14, 6),
           R(20, 30), R(Width - 3, 3), R(Width - 2, 4), R(9, 0)}
ExtentCalls ==
  {Extents1(object, free, capacity, percent) :
     object \in {O(1, units, alignment, 0) : units \in {1, 2, 4, 9, 11}, alignment \in {1, 4}}
                \cup Refused,
     free \in {<<>>} \cup UNION {[1 .. n -> Places] : n \in 1 .. 2}
              \cup {f \in [1 .. 3 -> Places] : check_free_ranges(f)},
     capacity \in {0, 1, 3}, percent \in {0, 10}}
MCCalls == LayoutCalls \cup ExtentCalls

=============================================================================
