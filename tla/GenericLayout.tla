---------------------------- MODULE GenericLayout ----------------------------
(***************************************************************************)
(* The placement planner of src/core/ld_generic_layout.c, which filesystem *)
(* modules call through the host.  ld_generic_layout_plan packs whole      *)
(* files into one region; ld_generic_layout_plan_file_extents places one   *)
(* file in a list of free ranges, whole if it can, split if it must.       *)
(* Both plan twice: the first pass only decides, the second writes the     *)
(* caller's array.  An action is one turn of a loop.  Numbers are uint64_t *)
(* values, 0 .. MaxU.                                                      *)
(***************************************************************************)
EXTENDS Integers, Sequences, FiniteSets

CONSTANTS
  MaxU,    \* UINT64_MAX
  Calls    \* the calls to be planned

U == 0 .. MaxU
Object == [object_id : U, allocated_units : U, alignment_units : U, flags : U]
FreeRange == [first_unit : U, allocated_units : U]
Call == [kind : {"layout", "extents"},
         objects : Seq(Object), first_unit : U, limit_unit : U,   \* layout
         object : Object, free : Seq(FreeRange), capacity : U,        \* extents
         growth_percent : U]

(* The intermediate products of reserve_units are at most 99 * 10 + 99. *)
ASSUME WidthAssumption == MaxU \in Nat /\ MaxU >= 1089
ASSUME CallsAssumption == Calls \subseteq Call

VARIABLES
  call,       \* the arguments
  pc, pass,
  i,          \* the loop index, from 1
  cursor, previous,    \* layout_pass
  remaining, count,    \* plan_file_extent_pass
  required,   \* extents the first pass counted
  out, written,        \* the caller's array and *written
  status

vars == <<call, pc, pass, i, cursor, previous, remaining, count, required, out, written,
          status>>
locals == <<cursor, previous, remaining, count>>

Untouched == [object_id |-> 0, first_unit |-> 0, allocated_units |-> 0, gap_after_units |-> 0]
Unrepresentable == -1

-----------------------------------------------------------------------------
(* Mutant: the reserve is rounded down. *)
reserve_units_floor(units, percent) == (units * percent) \div 100

(* reserve_units: the remainder route, with its overflow checks. *)
reserve_units(units, percent) ==
  LET whole == units \div 100
      first == whole * percent
      last == ((units % 100) * percent + 99) \div 100
  IN IF whole > MaxU \div percent \/ first > MaxU - last THEN Unrepresentable ELSE first + last

Reserve(o) == IF call.growth_percent = 0 THEN 0
              ELSE reserve_units(o.allocated_units, call.growth_percent)

Padding(unit, alignment) ==
  IF unit % alignment = 0 THEN 0 ELSE alignment - (unit % alignment)

(* check_free_ranges: not empty, representable, ascending and disjoint. *)
check_free_ranges(free) ==
  \A k \in DOMAIN free :
    /\ free[k].allocated_units # 0
    /\ free[k].first_unit <= MaxU - free[k].allocated_units
    /\ k > 1 => free[k].first_unit >= free[k - 1].first_unit + free[k - 1].allocated_units

(* usable_range: what is left behind the padding. *)
UsableFirst(r, alignment) ==
  IF Padding(r.first_unit, alignment) > r.allocated_units THEN r.first_unit
  ELSE r.first_unit + Padding(r.first_unit, alignment)

UsableCapacity(r, alignment) ==
  IF Padding(r.first_unit, alignment) > r.allocated_units THEN 0
  ELSE r.allocated_units - Padding(r.first_unit, alignment)

-----------------------------------------------------------------------------
Stop(s) == pc' = "done" /\ status' = s

(* ld_generic_layout_plan: the argument checks. *)
StartLayout ==
  /\ pc = "start" /\ call.kind = "layout"
  /\ IF call.first_unit > call.limit_unit \/ call.growth_percent \notin {0, 10}
       THEN Stop("INVALID") /\ UNCHANGED <<cursor, i>>
       ELSE pc' = "layout" /\ cursor' = call.first_unit /\ i' = 1 /\ UNCHANGED status
  /\ UNCHANGED <<call, pass, previous, remaining, count, required, out, written>>

(* The placement of object o from the cursor. *)
Start(o) == cursor + Padding(cursor, o.alignment_units)
Place(o) == [object_id |-> o.object_id, first_unit |-> Start(o),
             allocated_units |-> o.allocated_units, gap_after_units |-> Reserve(o)]

(* layout_pass up to the output: what refuses the object. *)
Refusal(o) ==
  CASE o.object_id = 0 \/ o.object_id <= previous \/ o.allocated_units = 0
         \/ o.alignment_units = 0 -> "INVALID"
    [] o.flags # 0 -> "UNSUPPORTED"
    [] cursor > call.limit_unit
         \/ Padding(cursor, o.alignment_units) > call.limit_unit - cursor -> "NO_SPACE"
    [] o.allocated_units > call.limit_unit - Start(o) -> "NO_SPACE"
    [] Reserve(o) = Unrepresentable -> "INVALID"
    [] OTHER -> "OK"

(* Mutant: the second pass does not wait for the first. *)
WritesAtOnce == TRUE

Writes == pass = 2

(* One turn; the reserve is compared with the limit only after the output. *)
LayoutTurn ==
  /\ pc = "layout" /\ i \in DOMAIN call.objects
  /\ LET o == call.objects[i]
         after == Start(o) + o.allocated_units
     IN /\ out' = IF Writes /\ Refusal(o) = "OK" THEN [out EXCEPT ![i] = Place(o)] ELSE out
        /\ CASE Refusal(o) # "OK" -> Stop(Refusal(o)) /\ UNCHANGED <<i, cursor, previous>>
             [] Refusal(o) = "OK" /\ Reserve(o) > call.limit_unit - after ->
                  Stop("NO_SPACE") /\ UNCHANGED <<i, cursor, previous>>
             [] OTHER -> /\ i' = i + 1 /\ cursor' = after + Reserve(o)
                         /\ previous' = o.object_id
                         /\ UNCHANGED <<pc, status>>
  /\ UNCHANGED <<call, pass, remaining, count, required, written>>

LayoutPassEnds ==
  /\ pc = "layout" /\ i = Len(call.objects) + 1
  /\ IF pass = 1
       THEN /\ pass' = 2 /\ i' = 1 /\ cursor' = call.first_unit /\ previous' = 0
            /\ UNCHANGED <<pc, status>>
       ELSE Stop("OK") /\ UNCHANGED <<pass, i, cursor, previous>>
  /\ UNCHANGED <<call, remaining, count, required, out, written>>

-----------------------------------------------------------------------------
(* ld_generic_layout_plan_file_extents: the argument checks. *)
Unplannable ==
  CASE \/ call.growth_percent \notin {0, 10}
       \/ call.object.object_id = 0 \/ call.object.allocated_units = 0
       \/ call.object.alignment_units = 0 -> "INVALID"
    [] call.object.flags # 0 -> "UNSUPPORTED"
    [] ~check_free_ranges(call.free) -> "INVALID"
    [] Reserve(call.object) = Unrepresentable -> "INVALID"
    [] OTHER -> "OK"

StartExtents ==
  /\ pc = "start" /\ call.kind = "extents"
  /\ IF Unplannable # "OK" THEN Stop(Unplannable) /\ UNCHANGED i
                           ELSE pc' = "single" /\ i' = 1 /\ UNCHANGED status
  /\ UNCHANGED <<call, pass, locals, required, out, written>>

Gap == Reserve(call.object)
First(k) == UsableFirst(call.free[k], call.object.alignment_units)
Capacity(k) == UsableCapacity(call.free[k], call.object.alignment_units)

(* Mutant: a range that fits exactly is passed over. *)
HoldsStrict(k, units) == units < Capacity(k) /\ Gap < Capacity(k) - units

Holds(k, units) == units <= Capacity(k) /\ Gap <= Capacity(k) - units
Extent(k, units, gap) == [object_id |-> 0, first_unit |-> First(k),   \* no id in an extent
                          allocated_units |-> units, gap_after_units |-> gap]

(* Mutant: the number of extents is not compared with the caller's array. *)
ExtentPassEndsUnbounded(n) ==
  IF pass = 1
    THEN /\ pass' = 2 /\ required' = n /\ pc' = "single" /\ i' = 1 /\ UNCHANGED <<status, written>>
    ELSE /\ Stop("OK") /\ written' = n /\ UNCHANGED <<pass, required, i>>

(* The pass succeeds with n extents. *)
ExtentPassEnds(n) ==
  IF pass = 1
    THEN IF n > call.capacity
           THEN Stop("OUTPUT_TOO_SMALL") /\ UNCHANGED <<pass, required, i, written>>
           ELSE /\ pass' = 2 /\ required' = n /\ pc' = "single" /\ i' = 1
                /\ UNCHANGED <<status, written>>
    ELSE IF n # required
           THEN Stop("INVALID") /\ UNCHANGED <<pass, required, i, written>>
           ELSE Stop("OK") /\ written' = n /\ UNCHANGED <<pass, required, i>>

(* The search for one range that holds the file and its reserve. *)
SingleTurn ==
  /\ pc = "single" /\ i \in DOMAIN call.free
  /\ IF Holds(i, call.object.allocated_units)
       THEN /\ out' = IF Writes THEN [out EXCEPT ![1] = Extent(i, call.object.allocated_units, Gap)]
                      ELSE out
            /\ ExtentPassEnds(1)
       ELSE i' = i + 1 /\ UNCHANGED <<pc, pass, required, out, written, status>>
  /\ UNCHANGED <<call, locals>>

SingleEnds ==
  /\ pc = "single" /\ i = Len(call.free) + 1
  /\ pc' = "split" /\ i' = 1 /\ remaining' = call.object.allocated_units /\ count' = 0
  /\ UNCHANGED <<call, pass, cursor, previous, required, out, written, status>>

(* Mutant: nothing is kept for the extent that carries the reserve. *)
TakeAll(k) == IF Capacity(k) < remaining THEN Capacity(k) ELSE remaining

(* Data units the split takes from range k: all it holds, but never the last  *)
(* unit without room for the reserve.                                         *)
Take(k) == IF Capacity(k) < remaining THEN Capacity(k)
           ELSE IF Holds(k, remaining) THEN remaining ELSE remaining - 1

SplitTurn ==
  /\ pc = "split" /\ i \in DOMAIN call.free
  /\ IF Take(i) = 0
       THEN i' = i + 1 /\ UNCHANGED <<pc, pass, remaining, count, required, out, written, status>>
       ELSE /\ out' = IF Writes
                        THEN [out EXCEPT ![count + 1] =
                                Extent(i, Take(i), IF Holds(i, remaining) THEN Gap ELSE 0)]
                        ELSE out
            /\ count' = count + 1 /\ remaining' = remaining - Take(i)
            /\ IF Holds(i, remaining) THEN ExtentPassEnds(count + 1)
               ELSE i' = i + 1 /\ UNCHANGED <<pc, pass, required, written, status>>
  /\ UNCHANGED <<call, cursor, previous>>

SplitEnds ==
  /\ pc = "split" /\ i = Len(call.free) + 1
  /\ Stop(IF pass = 1 THEN "NO_SPACE" ELSE "INVALID")
  /\ UNCHANGED <<call, pass, i, locals, required, out, written>>

-----------------------------------------------------------------------------
Returned == pc = "done" /\ UNCHANGED vars

Init ==
  /\ call \in Calls /\ pc = "start" /\ pass = 1 /\ i = 1
  /\ cursor = 0 /\ previous = 0 /\ remaining = 0 /\ count = 0 /\ required = 0
  /\ out = [k \in 1 .. (IF call.kind = "layout" THEN Len(call.objects) ELSE call.capacity) |->
              Untouched]
  /\ written = 0 /\ status = "none"

Next == \/ StartLayout \/ LayoutTurn \/ LayoutPassEnds
        \/ StartExtents \/ SingleTurn \/ SingleEnds \/ SplitTurn \/ SplitEnds
        \/ Returned

Spec == Init /\ [][Next]_vars

-----------------------------------------------------------------------------
(* Properties *)

(* Every local of the two planners stays a uint64_t value, no matter how near *)
(* the arguments are to UINT64_MAX, and the second pass never writes past the *)
(* caller's array.                                                            *)
TypeOK ==
  /\ pc \in {"start", "layout", "single", "split", "done"} /\ pass \in {1, 2}
  /\ cursor \in U /\ previous \in U /\ remaining \in U
  /\ count \in Nat /\ (Writes /\ pc # "start" => count <= Len(out))
  /\ \A k \in DOMAIN out : out[k].first_unit \in U /\ out[k].gap_after_units \in U

(* "Failure leaves every output element unchanged": nothing that can fail is  *)
(* left for the second pass, in either planner.                               *)
FailureUntouched ==
  pc = "done" /\ status # "OK" => written = 0 /\ \A k \in DOMAIN out : out[k] = Untouched

(* The reserve is 10% of the file, rounded up. *)
IsReserve(gap, units) ==
  IF call.growth_percent = 0 THEN gap = 0 ELSE 10 * gap >= units /\ 10 * gap < units + 10
Aligned(unit, alignment) == \E k \in U : unit = k * alignment

(* A layout that is returned places every object, aligned, in input order,    *)
(* inside the region and disjoint, each followed by its whole reserve.        *)
LayoutSound ==
  pc = "done" /\ status = "OK" /\ call.kind = "layout" =>
    \A k \in DOMAIN out :
      /\ out[k].object_id = call.objects[k].object_id
      /\ out[k].allocated_units = call.objects[k].allocated_units
      /\ Aligned(out[k].first_unit, call.objects[k].alignment_units)
      /\ IsReserve(out[k].gap_after_units, out[k].allocated_units)
      /\ out[k].first_unit >= call.first_unit
      /\ out[k].first_unit + out[k].allocated_units + out[k].gap_after_units <= call.limit_unit
      /\ k > 1 => out[k - 1].first_unit + out[k - 1].allocated_units
                    + out[k - 1].gap_after_units <= out[k].first_unit

(* Extents that are returned hold the whole file in ascending free ranges,    *)
(* one extent to a range, each aligned; the reserve follows the last one in   *)
(* the same range and no other.                                               *)
In(e, r) == /\ e.first_unit >= r.first_unit
            /\ e.first_unit + e.allocated_units + e.gap_after_units
                 <= r.first_unit + r.allocated_units
Extents == 1 .. written
ExtentsSound ==
  pc = "done" /\ status = "OK" /\ call.kind = "extents" =>
    /\ written \in 1 .. call.capacity
    /\ \A k \in Extents :
         /\ out[k].allocated_units > 0
         /\ Aligned(out[k].first_unit, call.object.alignment_units)
         /\ \E j \in DOMAIN call.free : In(out[k], call.free[j])
         /\ k < written => /\ out[k].gap_after_units = 0
                           /\ out[k].first_unit + out[k].allocated_units <= out[k + 1].first_unit
    /\ IsReserve(out[written].gap_after_units, call.object.allocated_units)

(* Whatever either planner returns can be carried out: disjoint, aligned,     *)
(* inside the free space, in order and with the reserve where it belongs.     *)
PlanSound == LayoutSound /\ ExtentsSound

(* The sum of size[1] .. size[n]: the units of n numbered heaps, counted. *)
Together(size, n) == Cardinality(UNION {{k} \X (1 .. size[k]) : k \in 1 .. n})

(* ld_generic_layout_plan_file_extents returns extents for exactly the units  *)
(* of the file, and one extent, the earliest that will do, whenever one free  *)
(* range holds the file with its reserve.                                     *)
WholeFile ==
  pc = "done" /\ status = "OK" /\ call.kind = "extents" =>
    LET whole == {k \in DOMAIN call.free : call.object.allocated_units + Gap <= Capacity(k)} IN
    /\ Together([k \in Extents |-> out[k].allocated_units], written) = call.object.allocated_units
    /\ \A k \in whole : (\A j \in whole : k <= j) => written = 1 /\ out[1].first_unit = First(k)

(* NO_SPACE is never a false alarm: no choice of ascending ranges, with at    *)
(* least one unit of data and the whole reserve in the last, holds the file.  *)
NoSpaceIsTrue ==
  pc = "done" /\ status = "NO_SPACE" /\ call.kind = "extents" =>
    ~ \E last \in DOMAIN call.free, units \in 1 .. call.object.allocated_units :
        /\ units + Gap <= Capacity(last)
        /\ call.object.allocated_units - units
             <= Together([k \in DOMAIN call.free |-> Capacity(k)], last - 1)
=============================================================================
