------------------------ MODULE GenericLayoutProofs ------------------------
(***************************************************************************)
(* Proofs about the planners of GenericLayout, for every width MaxU, every *)
(* list of objects, every list of free ranges and every capacity.          *)
(*                                                                         *)
(* The second pass of a planner succeeds because it repeats the first one. *)
(* What a pass went through is written down as a trail: a function from    *)
(* the loop index to the value of the locals at that turn.  The first pass *)
(* extends a trail by one turn at a time; the second pass follows it.      *)
(* How many units are planned, and that NO_SPACE is true, needs sums over  *)
(* ranges: they are counted as the cardinality of a set of numbered units. *)
(***************************************************************************)
EXTENDS GenericLayout, FiniteSetTheorems, TLAPS

-----------------------------------------------------------------------------
(* Arithmetic *)

LEMMA Division ==
  ASSUME NEW a \in Nat, NEW b \in Nat \ {0}
  PROVE  /\ a % b \in 0 .. b - 1 /\ a \div b \in Nat
         /\ a = b * (a \div b) + (a % b)
OBVIOUS

LEMMA UnitsAreNat == U \subseteq Nat /\ MaxU \in Nat /\ 0 \in U
  BY WidthAssumption DEF U

(* align_up: the padding is less than the alignment and ends on it. *)
LEMMA PaddingAligns ==
  ASSUME NEW unit \in Nat, NEW alignment \in Nat \ {0}
  PROVE  /\ Padding(unit, alignment) \in Nat /\ Padding(unit, alignment) < alignment
         /\ \E k \in Nat : unit + Padding(unit, alignment) = k * alignment
<1>1. unit % alignment \in 0 .. alignment - 1 /\ unit \div alignment \in Nat
      /\ unit = alignment * (unit \div alignment) + (unit % alignment)
  BY Division
<1>2. CASE unit % alignment = 0
  <2>1. unit + Padding(unit, alignment) = (unit \div alignment) * alignment
    BY <1>1, <1>2 DEF Padding
  <2> QED
    BY <1>1, <1>2, <2>1 DEF Padding
<1>3. CASE unit % alignment # 0
  <2>1. unit + Padding(unit, alignment) = (unit \div alignment + 1) * alignment
    BY <1>1, <1>3 DEF Padding
  <2>2. unit \div alignment + 1 \in Nat
    BY <1>1
  <2>3. Padding(unit, alignment) \in Nat /\ Padding(unit, alignment) < alignment
    BY <1>1, <1>3 DEF Padding
  <2> QED
    BY <2>1, <2>2, <2>3
<1> QED
  BY <1>2, <1>3

(* A place in U behind its padding is Aligned. *)
LEMMA PaddedAligned ==
  ASSUME NEW unit \in U, NEW alignment \in U \ {0}, unit + Padding(unit, alignment) \in U
  PROVE  Aligned(unit + Padding(unit, alignment), alignment)
<1> DEFINE at == unit + Padding(unit, alignment)
<1>0. unit \in Nat /\ alignment \in Nat \ {0} /\ MaxU \in Nat
  BY WidthAssumption DEF U
<1>1. PICK k \in Nat : at = k * alignment
  BY <1>0, PaddingAligns
<1>2. k <= k * alignment
  BY <1>0
<1>3. k \in U
  BY <1>0, <1>1, <1>2 DEF U
<1> QED
  BY <1>1, <1>3 DEF Aligned

(* reserve_units gives 10 percent, rounded up, or says that it cannot. *)
LEMMA ReserveRounds ==
  ASSUME NEW units \in U
  PROVE  LET gap == reserve_units(units, 10) IN
         \/ gap = Unrepresentable
         \/ gap \in U /\ 10 * gap >= units /\ 10 * gap < units + 10
<1> DEFINE whole == units \div 100
           rest == units % 100
           last == (rest * 10 + 99) \div 100
<1>0. units \in Nat /\ MaxU \in Nat
  BY WidthAssumption DEF U
<1>1. whole \in Nat /\ rest \in 0 .. 99 /\ units = 100 * whole + rest
  BY <1>0
<1>2. last \in Nat /\ 10 * last >= rest /\ 10 * last < rest + 10
  BY <1>1
<1>3. reserve_units(units, 10) \in {Unrepresentable, whole * 10 + last}
  BY DEF reserve_units
<1>4. reserve_units(units, 10) # Unrepresentable => whole * 10 <= MaxU - last
  BY <1>0, <1>1, <1>2 DEF reserve_units
<1> QED
  BY <1>0, <1>1, <1>2, <1>3, <1>4 DEF U

-----------------------------------------------------------------------------
(* The trail of layout_pass in the call c: C[k] is the cursor before turn k. *)

ReserveOf(c, o) == IF c.growth_percent = 0 THEN 0 ELSE reserve_units(o.allocated_units, c.growth_percent)
StartAt(at, o) == at + Padding(at, o.alignment_units)
After(c, at, o) == StartAt(at, o) + o.allocated_units + ReserveOf(c, o)

(* The turn for object k passes every test when it begins at the cursor at. *)
Passes(c, k, at) ==
  LET o == c.objects[k] IN
  /\ o.object_id # 0 /\ (k > 1 => o.object_id > c.objects[k - 1].object_id)
  /\ o.allocated_units # 0 /\ o.alignment_units # 0 /\ o.flags = 0
  /\ ReserveOf(c, o) \in U /\ After(c, at, o) <= c.limit_unit

Trail(c, C, n) ==
  /\ C \in [1 .. n -> U] /\ C[1] = c.first_unit
  /\ \A k \in 1 .. n : c.first_unit <= C[k] /\ C[k] <= c.limit_unit
  /\ \A k \in 1 .. n - 1 : Passes(c, k, C[k]) /\ C[k + 1] = After(c, C[k], c.objects[k])

(* What the second pass writes for object k. *)
Placed(c, k, at) ==
  [object_id |-> c.objects[k].object_id, first_unit |-> StartAt(at, c.objects[k]),
   allocated_units |-> c.objects[k].allocated_units, gap_after_units |-> ReserveOf(c, c.objects[k])]

(* The arguments have passed the checks of ld_generic_layout_plan. *)
Admissible(c) == c \in Call /\ c.growth_percent \in {0, 10} /\ c.first_unit <= c.limit_unit

(* The reserve is a number or unrepresentable, and is the one asked for. *)
LEMMA ReserveOfObject ==
  ASSUME NEW c, c.growth_percent \in {0, 10}, NEW o \in Object
  PROVE  \/ ReserveOf(c, o) = Unrepresentable
         \/ /\ ReserveOf(c, o) \in U
            /\ IF c.growth_percent = 0 THEN ReserveOf(c, o) = 0
               ELSE 10 * ReserveOf(c, o) >= o.allocated_units /\ 10 * ReserveOf(c, o) < o.allocated_units + 10
<1>0. o.allocated_units \in U /\ 0 \in U
  BY WidthAssumption DEF Object, U
<1>1. CASE c.growth_percent = 0
  BY <1>0, <1>1 DEF ReserveOf
<1>2. CASE c.growth_percent = 10
  BY <1>0, <1>2, ReserveRounds DEF ReserveOf
<1> QED
  BY <1>1, <1>2

(* The components of an object are uint64_t values. *)
LEMMA ObjectTypes ==
  ASSUME NEW c \in Call, NEW k \in DOMAIN c.objects
  PROVE  /\ c.objects[k] \in Object
         /\ c.objects[k].object_id \in Nat /\ c.objects[k].allocated_units \in Nat
         /\ c.objects[k].alignment_units \in Nat /\ c.objects[k].flags \in Nat
         /\ k \in 1 .. Len(c.objects) /\ c.objects[k].alignment_units \in U
         /\ c.first_unit \in U /\ c.limit_unit \in U /\ MaxU \in Nat
<1>1. c.objects \in Seq(Object) /\ c.first_unit \in U /\ c.limit_unit \in U
  BY DEF Call
<1>2. c.objects[k] \in Object /\ k \in 1 .. Len(c.objects)
  BY <1>1
<1>3. /\ c.objects[k].object_id \in U /\ c.objects[k].allocated_units \in U
      /\ c.objects[k].alignment_units \in U /\ c.objects[k].flags \in U
  BY <1>2 DEF Object
<1> QED
  BY <1>1, <1>2, <1>3, UnitsAreNat

(* A turn that passes leaves the cursor inside the region, behind the object. *)
LEMMA PassesAdvance ==
  ASSUME NEW c, Admissible(c), NEW k \in DOMAIN c.objects, NEW at \in U, Passes(c, k, at)
  PROVE  /\ StartAt(at, c.objects[k]) \in U /\ After(c, at, c.objects[k]) \in U
         /\ at <= StartAt(at, c.objects[k]) /\ at <= After(c, at, c.objects[k])
         /\ StartAt(at, c.objects[k]) <= After(c, at, c.objects[k])
<1> DEFINE o == c.objects[k]
<1>1. /\ o \in Object /\ o.allocated_units \in Nat /\ o.alignment_units \in Nat \ {0}
      /\ c.limit_unit \in U /\ MaxU \in Nat
  BY ObjectTypes DEF Admissible, Passes
<1>2. Padding(at, o.alignment_units) \in Nat
  BY <1>1, PaddingAligns, UnitsAreNat
<1>3. ReserveOf(c, o) \in Nat /\ After(c, at, o) <= c.limit_unit
  BY <1>1 DEF Passes, U
<1> QED
  BY <1>1, <1>2, <1>3 DEF StartAt, After, U

(* layout_pass accepts an object when none of its tests refuses it. *)
LEMMA RefusalCases ==
  ASSUME NEW o
  PROVE  Refusal(o) = "OK"
           <=> /\ ~(o.object_id = 0 \/ o.object_id <= previous \/ o.allocated_units = 0
                     \/ o.alignment_units = 0)
               /\ o.flags = 0
               /\ ~(cursor > call.limit_unit \/ Padding(cursor, o.alignment_units) > call.limit_unit - cursor)
               /\ ~(o.allocated_units > call.limit_unit - Start(o))
               /\ Reserve(o) # Unrepresentable
  BY Zenon DEF Refusal

(* The arithmetic of layout_pass never subtracts past zero, and its tests are  *)
(* together the ones that Passes states.                                       *)
LEMMA TurnPasses ==
  ASSUME Admissible(call), NEW k \in DOMAIN call.objects, cursor \in U,
         cursor <= call.limit_unit,
         previous = IF k = 1 THEN 0 ELSE call.objects[k - 1].object_id
  PROVE  Passes(call, k, cursor)
           <=> /\ Refusal(call.objects[k]) = "OK"
               /\ ~(Reserve(call.objects[k]) > call.limit_unit
                                               - (Start(call.objects[k]) + call.objects[k].allocated_units))
<1> DEFINE o == call.objects[k]
           r == Reserve(o)
           pad == Padding(cursor, o.alignment_units)
<1>1. /\ o \in Object /\ o.object_id \in Nat /\ o.allocated_units \in Nat
      /\ o.alignment_units \in Nat /\ o.flags \in Nat /\ k \in 1 .. Len(call.objects)
      /\ call.limit_unit \in Nat /\ cursor \in Nat /\ MaxU \in Nat
  BY ObjectTypes DEF Admissible, U
<1>2. r = ReserveOf(call, o) /\ Start(o) = StartAt(cursor, o) /\ Start(o) = cursor + pad
  BY DEF Reserve, ReserveOf, Start, StartAt
<1>3. r = Unrepresentable \/ r \in U
  BY <1>1, <1>2, ReserveOfObject DEF Admissible
<1>4. o.object_id > 0 => (o.object_id > previous <=> (k > 1 => o.object_id > call.objects[k - 1].object_id))
  <2>1. CASE k = 1
    BY <1>1, <2>1
  <2>2. CASE k # 1
    BY <1>1, <2>2
  <2> QED
    BY <2>1, <2>2
<1>5. CASE o.object_id = 0 \/ o.object_id <= previous \/ o.allocated_units = 0 \/ o.alignment_units = 0
  <2>1. previous \in Nat
    <3>1. k # 1 => k - 1 \in DOMAIN call.objects
      BY <1>1 DEF Admissible, Call
    <3> QED
      BY <3>1, ObjectTypes DEF Admissible
  <2>2. Refusal(o) # "OK"
    BY <1>5, RefusalCases
  <2>3. ~Passes(call, k, cursor)
    BY <1>1, <1>4, <1>5, <2>1, SMTT(30) DEF Passes
  <2> QED
    BY <2>2, <2>3
<1>6. CASE ~(o.object_id = 0 \/ o.object_id <= previous \/ o.allocated_units = 0 \/ o.alignment_units = 0)
  <2>1. pad \in Nat
    BY <1>1, <1>6, PaddingAligns
  <2>2. CASE o.flags # 0
    BY <1>6, <2>2 DEF Refusal, Passes
  <2>3. CASE o.flags = 0
    <3>1. Refusal(o) = "OK" <=> /\ ~(pad > call.limit_unit - cursor)
                                /\ ~(o.allocated_units > call.limit_unit - Start(o))
                                /\ r # Unrepresentable
      <4>1. ~(cursor > call.limit_unit)
        BY <1>1
      <4> QED
        BY <1>6, <2>3, <4>1, RefusalCases, Zenon
    <3>2. Passes(call, k, cursor)
            <=> r \in U /\ Start(o) + o.allocated_units + r <= call.limit_unit
      <4>1. o.object_id > 0 /\ (k > 1 => o.object_id > call.objects[k - 1].object_id)
        <5>1. previous \in Nat
          <6>1. k # 1 => k - 1 \in DOMAIN call.objects
            BY <1>1 DEF Admissible, Call
          <6> QED
            BY <6>1, ObjectTypes DEF Admissible
        <5> QED
          BY <1>1, <1>4, <1>6, <5>1
      <4> QED
        BY <1>1, <1>2, <1>6, <2>3, <4>1 DEF Passes, After
    <3>3. Unrepresentable \notin U
      BY DEF Unrepresentable, U
    <3>4. CASE r = Unrepresentable
      BY <3>1, <3>2, <3>3, <3>4
    <3>5. CASE r \in U
      <4>1. r \in Nat
        BY <3>5, UnitsAreNat
      <4>2. Start(o) + o.allocated_units + r <= call.limit_unit
              <=> /\ ~(pad > call.limit_unit - cursor)
                  /\ ~(o.allocated_units > call.limit_unit - Start(o))
                  /\ ~(r > call.limit_unit - (Start(o) + o.allocated_units))
        <5> HIDE DEF r, pad, o
        <5> QED
          BY <1>1, <1>2, <2>1, <4>1, SMTT(30)
      <4> QED
        BY <3>1, <3>2, <3>3, <3>5, <4>2, Zenon
    <3> QED
      BY <1>3, <3>4, <3>5
  <2> QED
    BY <2>2, <2>3
<1> QED
  BY <1>5, <1>6

-----------------------------------------------------------------------------
(* The inductive invariant, its common part and the part of layout_pass. *)

Slots(c) == IF c.kind = "layout" THEN Len(c.objects) ELSE c.capacity
Entry == [object_id : U, first_unit : U, allocated_units : U, gap_after_units : U]

(* Types, and which planner runs. *)
Shape ==
  /\ call \in Calls /\ pass \in {1, 2}
  /\ pc \in IF call.kind = "layout" THEN {"start", "layout", "done"} ELSE {"start", "single", "split", "done"}
  /\ pc = "start" => pass = 1 /\ previous = 0 /\ count = 0
  /\ cursor \in U /\ previous \in U /\ remaining \in U /\ count \in Nat
  /\ out \in [1 .. Slots(call) -> Entry]

(* Only a second pass writes, it cannot fail, and it alone returns OK. *)
Quiet ==
  /\ pass = 1 \/ pc = "single" => out = [k \in 1 .. Slots(call) |-> Untouched]
  /\ pc # "done" \/ status # "OK" => written = 0
  /\ pc = "done" => (status = "OK" <=> pass = 2)

(* A trail to turn n, and the objects before turn m placed along it. *)
Written(c, C, a, m) == \A k \in 1 .. m - 1 : a[k] = Placed(c, k, C[k])

LayoutRuns ==
  pc = "layout" =>
    /\ Admissible(call) /\ i \in 1 .. Len(call.objects) + 1
    /\ previous = IF i = 1 THEN 0 ELSE call.objects[i - 1].object_id
    /\ \E C : /\ Trail(call, C, IF pass = 1 THEN i ELSE Len(call.objects) + 1) /\ C[i] = cursor
              /\ pass = 2 => Written(call, C, out, i)
LayoutDone ==
  pc = "done" /\ status = "OK" /\ call.kind = "layout" =>
    /\ Admissible(call)
    /\ \E C : Trail(call, C, Len(call.objects) + 1) /\ Written(call, C, out, Len(call.objects) + 1)

Common == Shape /\ Quiet

-----------------------------------------------------------------------------
(* layout_pass *)

(* The trail of the first pass grows by the turn that passed. *)
LEMMA TrailGrows ==
  ASSUME NEW c, Admissible(c), NEW C, NEW n \in 1 .. Len(c.objects), Trail(c, C, n), Passes(c, n, C[n])
  PROVE  \E D : Trail(c, D, n + 1) /\ D[n + 1] = After(c, C[n], c.objects[n])
<1> DEFINE D == [k \in 1 .. n + 1 |-> IF k <= n THEN C[k] ELSE After(c, C[n], c.objects[n])]
<1>0. n \in DOMAIN c.objects /\ Len(c.objects) \in Nat /\ n \in Nat
  BY DEF Admissible, Call
<1>1. C[n] \in U /\ c.first_unit <= C[n]
  BY <1>0 DEF Trail
<1>2. After(c, C[n], c.objects[n]) \in U /\ C[n] <= After(c, C[n], c.objects[n])
  BY <1>0, <1>1, PassesAdvance
<1>3. After(c, C[n], c.objects[n]) <= c.limit_unit /\ c.first_unit <= After(c, C[n], c.objects[n])
  <2>1. c.first_unit \in Nat /\ C[n] \in Nat /\ After(c, C[n], c.objects[n]) \in Nat
    BY <1>0, <1>1, <1>2, ObjectTypes, UnitsAreNat DEF Admissible
  <2> QED
    BY <1>1, <1>2, <2>1 DEF Passes
<1>4. D \in [1 .. n + 1 -> U] /\ D[1] = c.first_unit
  BY <1>0, <1>2 DEF Trail
<1>5. ASSUME NEW k \in 1 .. n + 1 PROVE c.first_unit <= D[k] /\ D[k] <= c.limit_unit
  BY <1>0, <1>3 DEF Trail
<1>6. ASSUME NEW k \in 1 .. (n + 1) - 1 PROVE Passes(c, k, D[k]) /\ D[k + 1] = After(c, D[k], c.objects[k])
  <2>1. CASE k = n
    BY <1>0, <2>1
  <2>2. CASE k # n
    <3>1. k \in 1 .. n - 1 /\ k + 1 \in 1 .. n
      BY <1>0, <2>2
    <3>2. D[k] = C[k] /\ D[k + 1] = C[k + 1]
      BY <1>0, <3>1
    <3> QED
      BY <3>1, <3>2 DEF Trail
  <2> QED
    BY <2>1, <2>2
<1>7. Trail(c, D, n + 1)
  BY <1>4, <1>5, <1>6 DEF Trail
<1>8. D[n + 1] = After(c, C[n], c.objects[n])
  BY <1>0
<1> QED
  BY <1>7, <1>8

LEMMA CallTypes ==
  ASSUME Shape
  PROVE  call \in Call /\ Len(call.objects) \in Nat /\ DOMAIN call.objects = 1 .. Len(call.objects)
         /\ Len(call.free) \in Nat /\ DOMAIN call.free = 1 .. Len(call.free)
         /\ call.capacity \in Nat /\ call.kind \in {"layout", "extents"} /\ call.growth_percent \in U
         /\ call.first_unit \in U /\ call.limit_unit \in U
<1>1. call \in Call
  BY CallsAssumption DEF Shape
<1>2. /\ call.objects \in Seq(Object) /\ call.free \in Seq(FreeRange) /\ call.capacity \in U
      /\ call.kind \in {"layout", "extents"} /\ call.growth_percent \in U
      /\ call.first_unit \in U /\ call.limit_unit \in U
  BY <1>1 DEF Call
<1>3. /\ Len(call.objects) \in Nat /\ DOMAIN call.objects = 1 .. Len(call.objects)
      /\ Len(call.free) \in Nat /\ DOMAIN call.free = 1 .. Len(call.free)
  BY <1>2
<1>4. call.capacity \in Nat
  BY <1>2, UnitsAreNat
<1> QED
  BY <1>1, <1>2, <1>3, <1>4

LEMMA LayoutStarts ==
  ASSUME Common, LayoutRuns, StartLayout
  PROVE  Common' /\ LayoutRuns' /\ LayoutDone'
<1>0. /\ call' = call /\ pass' = pass /\ previous' = previous /\ remaining' = remaining /\ count' = count
      /\ out' = out /\ written' = written /\ pc = "start" /\ call.kind = "layout" /\ pass = 1
  BY DEF StartLayout, Common, Shape
<1>1. CASE call.first_unit > call.limit_unit \/ call.growth_percent \notin {0, 10}
  <2>1. pc' = "done" /\ status' = "INVALID" /\ cursor' = cursor
    BY <1>1, Zenon DEF StartLayout, Stop
  <2>2. Shape'
    BY <1>0, <2>1 DEF Common, Shape
  <2>3. Quiet'
    BY <1>0, <2>1 DEF Common, Quiet
  <2> QED
    BY <2>1, <2>2, <2>3 DEF Common, LayoutRuns, LayoutDone
<1>2. CASE ~(call.first_unit > call.limit_unit \/ call.growth_percent \notin {0, 10})
  <2>1. pc' = "layout" /\ cursor' = call.first_unit /\ i' = 1
    BY <1>2, Zenon DEF StartLayout
  <2>2. Shape'
    BY <1>0, <2>1, CallTypes DEF Common, Shape
  <2>3. Quiet'
    BY <1>0, <2>1 DEF Common, Quiet
  <2>4. Admissible(call)
    <3>1. call.first_unit \in Nat /\ call.limit_unit \in Nat /\ call \in Call
      BY CallTypes, UnitsAreNat DEF Common
    <3> QED
      BY <1>2, <3>1 DEF Admissible
  <2>5. previous' = 0 /\ Len(call.objects) \in Nat /\ call.first_unit \in U
    BY <1>0, CallTypes DEF Common, Shape
  <2>6. Trail(call, [k \in 1 .. 1 |-> call.first_unit], 1)
    <3> DEFINE C == [k \in 1 .. 1 |-> call.first_unit]
    <3>1. C \in [1 .. 1 -> U] /\ C[1] = call.first_unit /\ \A k \in 1 .. 1 : C[k] = call.first_unit
      BY <2>5
    <3>2. call.first_unit <= call.first_unit /\ call.first_unit <= call.limit_unit
      <4>1. call.first_unit \in Nat
        BY <2>5, UnitsAreNat
      <4> QED
        BY <2>4, <4>1 DEF Admissible
    <3>3. 1 .. 1 - 1 = {}
      OBVIOUS
    <3> HIDE DEF C
    <3> QED
      BY <3>1, <3>2, <3>3 DEF Trail
  <2>7. LayoutRuns'
    BY <1>0, <2>1, <2>4, <2>5, <2>6 DEF LayoutRuns
  <2> QED
    BY <2>1, <2>2, <2>3, <2>7 DEF Common, LayoutDone
<1> QED
  BY <1>1, <1>2

(* What is placed is an entry of the caller's array. *)
LEMMA PlacedIsEntry ==
  ASSUME NEW c, Admissible(c), NEW k \in DOMAIN c.objects, NEW at \in U, Passes(c, k, at)
  PROVE  Placed(c, k, at) \in Entry
<1>1. c.objects[k].object_id \in U /\ c.objects[k].allocated_units \in U
  BY ObjectTypes DEF Admissible, Object
<1>2. StartAt(at, c.objects[k]) \in U /\ ReserveOf(c, c.objects[k]) \in U
  BY PassesAdvance DEF Passes
<1> QED
  BY <1>1, <1>2 DEF Placed, Entry

(* A turn of either pass: the first may stop, the second finds what the first  *)
(* one found at that turn and writes the object.                               *)
LEMMA LayoutTurns ==
  ASSUME Common, LayoutRuns, LayoutTurn
  PROVE  Common' /\ LayoutRuns' /\ LayoutDone'
<1> DEFINE o == call.objects[i]
           n == Len(call.objects)
           tight == Reserve(o) > call.limit_unit - (Start(o) + o.allocated_units)
<1>0. /\ call' = call /\ pass' = pass /\ remaining' = remaining /\ count' = count /\ written' = written
      /\ pc = "layout" /\ i \in DOMAIN call.objects
  BY DEF LayoutTurn
<1>1. /\ Admissible(call) /\ i \in 1 .. n + 1 /\ previous = IF i = 1 THEN 0 ELSE call.objects[i - 1].object_id
  BY <1>0, Zenon DEF LayoutRuns
<1>2. PICK C : /\ Trail(call, C, IF pass = 1 THEN i ELSE n + 1) /\ C[i] = cursor
               /\ pass = 2 => Written(call, C, out, i)
  BY <1>0, Zenon DEF LayoutRuns
<1>3. /\ call \in Call /\ n \in Nat /\ DOMAIN call.objects = 1 .. n /\ call.kind = "layout" /\ pass \in {1, 2}
      /\ i \in 1 .. n /\ cursor \in U
  <2>1. call.kind \in {"layout", "extents"} /\ (call.kind # "layout" => pc # "layout") /\ pass \in {1, 2} /\ cursor \in U
    BY CallTypes DEF Common, Shape
  <2> QED
    BY <1>0, <2>1, CallTypes DEF Common
<1>4. cursor <= call.limit_unit
  <2>1. i \in 1 .. (IF pass = 1 THEN i ELSE n + 1)
    BY <1>3
  <2> QED
    BY <1>2, <2>1 DEF Trail
<1>5. Passes(call, i, cursor) <=> Refusal(o) = "OK" /\ ~tight
  BY <1>0, <1>1, <1>3, <1>4, TurnPasses
<1>6. CASE ~Passes(call, i, cursor)
  <2>1. pass = 1
    <3>1. ASSUME pass = 2 PROVE FALSE
      <4>1. i \in 1 .. (n + 1) - 1 /\ pass # 1
        BY <1>3, <3>1
      <4>2. Passes(call, i, C[i])
        BY <1>2, <4>1 DEF Trail
      <4> QED
        BY <1>2, <1>6, <4>2
    <3> QED
      BY <1>3, <3>1
  <2>2. out' = out
    BY <2>1 DEF LayoutTurn, Writes
  <2>3. /\ pc' = "done" /\ status' # "OK" /\ i' = i /\ cursor' = cursor /\ previous' = previous
    <3>1. CASE Refusal(o) # "OK"
      BY <3>1, Zenon DEF LayoutTurn, Stop
    <3>2. CASE Refusal(o) = "OK" /\ tight
      <4>1. pc' = "done" /\ status' = "NO_SPACE" /\ i' = i /\ cursor' = cursor /\ previous' = previous
        BY <3>2, Zenon DEF LayoutTurn, Stop
      <4> QED
        BY <4>1
    <3> QED
      BY <1>5, <1>6, <3>1, <3>2, Zenon
  <2>4. Shape'
    BY <1>0, <1>3, <2>2, <2>3 DEF Common, Shape
  <2>5. Quiet'
    BY <1>0, <2>1, <2>2, <2>3 DEF Common, Quiet
  <2> QED
    BY <2>3, <2>4, <2>5 DEF Common, LayoutRuns, LayoutDone
<1>7. CASE Passes(call, i, cursor)
  <2>0. Refusal(o) = "OK" /\ ~tight
    BY <1>5, <1>7
  <2>1. /\ pc' = pc /\ status' = status /\ i' = i + 1 /\ previous' = o.object_id
        /\ cursor' = Start(o) + o.allocated_units + Reserve(o)
        /\ out' = IF Writes THEN [out EXCEPT ![i] = Place(o)] ELSE out
    BY <2>0, Zenon DEF LayoutTurn
  <2>2. cursor' = After(call, cursor, o) /\ Place(o) = Placed(call, i, cursor)
    BY <2>1 DEF After, Start, StartAt, Reserve, ReserveOf, Place, Placed
  <2>3. cursor' \in U /\ previous' \in U /\ Placed(call, i, cursor) \in Entry
    BY <1>0, <1>1, <1>3, <1>7, <2>1, <2>2, PassesAdvance, PlacedIsEntry, ObjectTypes DEF Object
  <2>4. Slots(call) = n /\ out \in [1 .. n -> Entry]
    BY <1>3 DEF Slots, Common, Shape
  <2>5. Shape'
    <3>1. out' \in [1 .. n -> Entry]
      BY <2>1, <2>2, <2>3, <2>4
    <3> QED
      BY <1>0, <1>3, <2>1, <2>3, <2>4, <3>1 DEF Common, Shape
  <2>6. Quiet'
    <3>1. pass = 1 => out' = out
      BY <2>1 DEF Writes
    <3>2. Quiet /\ pc' = pc /\ pc # "done" /\ pc # "single" /\ call' = call /\ pass' = pass /\ written' = written
      BY <1>0, <2>1 DEF Common
    <3> QED
      BY <3>1, <3>2 DEF Quiet
  <2>7. i' \in 1 .. n + 1 /\ previous' = (IF i' = 1 THEN 0 ELSE call.objects[i' - 1].object_id)
    <3>1. i' # 1 /\ i' - 1 = i
      BY <1>3, <2>1
    <3> QED
      BY <1>3, <2>1, <3>1
  <2>8. CASE pass = 1
    <3>1. Trail(call, C, i) /\ Passes(call, i, C[i])
      BY <1>2, <1>7, <2>8
    <3>2. \E D : Trail(call, D, i + 1) /\ D[i + 1] = cursor'
      BY <1>1, <1>2, <1>3, <2>2, <3>1, TrailGrows
    <3>3. LayoutRuns'
      BY <1>0, <1>1, <2>1, <2>7, <2>8, <3>2 DEF LayoutRuns
    <3> QED
      BY <1>0, <2>1, <2>5, <2>6, <3>3 DEF Common, LayoutDone
  <2>9. CASE pass = 2
    <3>1. Trail(call, C, n + 1) /\ Written(call, C, out, i)
      BY <1>2, <2>9
    <3>2. C[i + 1] = cursor'
      <4>1. i \in 1 .. (n + 1) - 1
        BY <1>3
      <4> QED
        BY <1>2, <2>2, <3>1, <4>1 DEF Trail
    <3>3. Written(call, C, out', i + 1)
      <4> SUFFICES ASSUME NEW k \in 1 .. (i + 1) - 1 PROVE out'[k] = Placed(call, k, C[k])
        BY DEF Written
      <4>1. out' = [out EXCEPT ![i] = Placed(call, i, cursor)]
        BY <2>1, <2>2, <2>9 DEF Writes
      <4>2. CASE k = i
        BY <1>2, <1>3, <2>4, <4>1, <4>2
      <4>3. CASE k # i
        <5>1. k \in 1 .. i - 1 /\ k \in 1 .. n
          BY <1>3, <4>3
        <5> QED
          BY <2>4, <3>1, <4>1, <4>3, <5>1 DEF Written
      <4> QED
        BY <4>2, <4>3
    <3>4. LayoutRuns'
      BY <1>0, <1>1, <2>1, <2>7, <2>9, <3>1, <3>2, <3>3 DEF LayoutRuns
    <3> QED
      BY <1>0, <2>1, <2>5, <2>6, <3>4 DEF Common, LayoutDone
  <2> QED
    BY <1>3, <2>8, <2>9
<1> QED
  BY <1>6, <1>7

LEMMA LayoutEnds ==
  ASSUME Common, LayoutRuns, LayoutPassEnds
  PROVE  Common' /\ LayoutRuns' /\ LayoutDone'
<1> DEFINE n == Len(call.objects)
<1>0. /\ call' = call /\ remaining' = remaining /\ count' = count /\ written' = written /\ out' = out
      /\ pc = "layout" /\ i = n + 1
  BY DEF LayoutPassEnds
<1>1. Admissible(call)
  BY <1>0, Zenon DEF LayoutRuns
<1>2. PICK C : /\ Trail(call, C, IF pass = 1 THEN i ELSE n + 1) /\ C[i] = cursor
               /\ pass = 2 => Written(call, C, out, i)
  BY <1>0, Zenon DEF LayoutRuns
<1>3. /\ call \in Call /\ n \in Nat /\ call.kind = "layout" /\ pass \in {1, 2} /\ call.first_unit \in U
  <2>1. call.kind \in {"layout", "extents"} /\ (call.kind # "layout" => pc # "layout") /\ pass \in {1, 2}
    BY CallTypes DEF Common, Shape
  <2> QED
    BY <1>0, <2>1, CallTypes DEF Common
<1>4. Trail(call, C, n + 1)
  BY <1>0, <1>2
<1>5. CASE pass = 1
  <2>1. pass' = 2 /\ i' = 1 /\ cursor' = call.first_unit /\ previous' = 0 /\ pc' = pc /\ status' = status
    BY <1>5 DEF LayoutPassEnds
  <2>2. Shape'
    BY <1>0, <1>3, <2>1, UnitsAreNat DEF Common, Shape
  <2>3. Quiet'
    BY <1>0, <2>1 DEF Common, Quiet
  <2>4. C[1] = call.first_unit /\ 1 \in 1 .. n + 1 /\ 1 .. 1 - 1 = {}
    BY <1>3, <1>4 DEF Trail
  <2>5. LayoutRuns'
    BY <1>0, <1>1, <1>4, <2>1, <2>4 DEF LayoutRuns, Written
  <2> QED
    BY <1>0, <2>1, <2>2, <2>3, <2>5 DEF Common, LayoutDone
<1>6. CASE pass = 2
  <2>1. pass' = 2 /\ pc' = "done" /\ status' = "OK" /\ i' = i /\ cursor' = cursor /\ previous' = previous
    BY <1>6 DEF LayoutPassEnds, Stop
  <2>2. Shape'
    BY <1>0, <1>3, <2>1 DEF Common, Shape
  <2>3. Quiet'
    BY <1>0, <1>6, <2>1 DEF Common, Quiet
  <2>4. LayoutDone'
    BY <1>0, <1>1, <1>2, <1>4, <1>6, <2>1 DEF LayoutDone
  <2> QED
    BY <2>1, <2>2, <2>3, <2>4 DEF Common, LayoutRuns
<1> QED
  BY <1>3, <1>5, <1>6

-----------------------------------------------------------------------------
(* plan_file_extent_pass.  The trail of the split search in the call c: R[k]   *)
(* units remain and N[k] extents are counted before range k.                   *)

GapOf(c) == ReserveOf(c, c.object)
FirstOf(c, k) == UsableFirst(c.free[k], c.object.alignment_units)
CapacityOf(c, k) == UsableCapacity(c.free[k], c.object.alignment_units)
HoldsIn(c, k, units) == units <= CapacityOf(c, k) /\ GapOf(c) <= CapacityOf(c, k) - units
TakeIn(c, k, units) == IF CapacityOf(c, k) < units THEN CapacityOf(c, k)
                       ELSE IF HoldsIn(c, k, units) THEN units ELSE units - 1
ExtentIn(c, k, units, gap) == [object_id |-> 0, first_unit |-> FirstOf(c, k),
                               allocated_units |-> units, gap_after_units |-> gap]

SplitTrail(c, R, N, m) ==
  /\ R \in [1 .. m -> U] /\ N \in [1 .. m -> Nat]
  /\ R[1] = c.object.allocated_units /\ N[1] = 0
  /\ \A k \in 1 .. m : R[k] # 0 /\ N[k] <= N[m]
  /\ \A k \in 1 .. m - 1 :
       /\ ~HoldsIn(c, k, R[k]) /\ R[k + 1] = R[k] - TakeIn(c, k, R[k])
       /\ N[k + 1] = N[k] + (IF TakeIn(c, k, R[k]) = 0 THEN 0 ELSE 1)

(* The arguments have passed the checks of ld_generic_layout_plan_file_extents. *)
Plannable(c) ==
  /\ c \in Call /\ c.growth_percent \in {0, 10}
  /\ c.object.object_id # 0 /\ c.object.allocated_units # 0 /\ c.object.alignment_units # 0
  /\ c.object.flags = 0 /\ check_free_ranges(c.free) /\ GapOf(c) \in U

(* The file with its reserve fits into no single range before range m. *)
NoneHolds(c, m) == \A k \in 1 .. m - 1 : ~HoldsIn(c, k, c.object.allocated_units)

(* The first pass found n extents: one that holds the file whole, or the split *)
(* search went along R, N to the range m.                                      *)
Whole(c, n) == n = 1 /\ \E k \in DOMAIN c.free : HoldsIn(c, k, c.object.allocated_units)
Split(c, R, N, m, n) ==
  /\ NoneHolds(c, Len(c.free) + 1) /\ m \in DOMAIN c.free
  /\ SplitTrail(c, R, N, m) /\ HoldsIn(c, m, R[m]) /\ n = N[m] + 1

End(e) == e.first_unit + e.allocated_units

(* The first n entries of a are extents of c before range m that carry no reserve. *)
Data(c, e) == /\ e.allocated_units > 0 /\ e.gap_after_units = 0
              /\ Aligned(e.first_unit, c.object.alignment_units)
              /\ \E j \in DOMAIN c.free : In(e, c.free[j])
Ordered(c, a, n, m) ==
  /\ \A k \in 1 .. n : Data(c, a[k]) /\ (k < n => End(a[k]) <= a[k + 1].first_unit)
  /\ n > 0 => m > 1 /\ End(a[n]) <= End(c.free[m - 1])

ExtentsRun ==
  pc \in {"single", "split"} =>
    /\ Plannable(call) /\ i \in 1 .. Len(call.free) + 1
    /\ pass = 2 => required \in 1 .. call.capacity
SingleRuns ==
  pc = "single" =>
    /\ NoneHolds(call, i) /\ (pass = 1 => count = 0)
    /\ pass = 2 => Whole(call, required) \/ \E R, N, m : Split(call, R, N, m, required)
SplitRuns ==
  pc = "split" =>
    /\ NoneHolds(call, Len(call.free) + 1) /\ remaining # 0
    /\ pass = 1 => \E R, N : SplitTrail(call, R, N, i) /\ R[i] = remaining /\ N[i] = count
    /\ pass = 2 => \E R, N, m : /\ Split(call, R, N, m, required)
                                /\ i <= m /\ R[i] = remaining /\ N[i] = count
    /\ pass = 2 => Ordered(call, out, count, i)

(* count never passes the caller's array in the second pass. *)
Counted == /\ call.kind = "layout" => count = 0
           /\ pass = 2 => count <= Slots(call)

LayoutPart == LayoutRuns /\ LayoutDone
ExtentsPart == ExtentsRun /\ SingleRuns /\ SplitRuns /\ ExtentsSound
Inductive == Common /\ LayoutPart /\ ExtentsPart /\ Counted

(* The operators of the model are the ones of its call. *)
LEMMA OfTheCall ==
  /\ Gap = GapOf(call)
  /\ \A k, u : Holds(k, u) <=> HoldsIn(call, k, u)
  /\ \A k : Take(k) = TakeIn(call, k, remaining)
  /\ \A k, u, g : Extent(k, u, g) = ExtentIn(call, k, u, g)
<1>1. Gap = GapOf(call)
  BY DEF Gap, GapOf, Reserve, ReserveOf
<1>2. \A k : Capacity(k) = CapacityOf(call, k) /\ First(k) = FirstOf(call, k)
  BY DEF Capacity, CapacityOf, First, FirstOf
<1>3. \A k, u : Holds(k, u) <=> HoldsIn(call, k, u)
  BY <1>1, <1>2, Zenon DEF Holds, HoldsIn
<1>4. \A k : Take(k) = TakeIn(call, k, remaining)
  BY <1>2, <1>3, Zenon DEF Take, TakeIn
<1>5. \A k, u, g : Extent(k, u, g) = ExtentIn(call, k, u, g)
  BY <1>2, Zenon DEF Extent, ExtentIn
<1> QED
  BY <1>1, <1>3, <1>4, <1>5

LEMMA RangeTypes ==
  ASSUME NEW c, Plannable(c)
  PROVE  /\ DOMAIN c.free = 1 .. Len(c.free) /\ Len(c.free) \in Nat /\ c.capacity \in Nat
         /\ c.object \in Object /\ c.object.allocated_units \in U /\ c.object.alignment_units \in U \ {0}
         /\ GapOf(c) \in Nat
         /\ \A k \in DOMAIN c.free : /\ c.free[k].first_unit \in Nat /\ c.free[k].allocated_units \in Nat
                                      /\ End(c.free[k]) <= MaxU
<1>1. /\ c.free \in Seq(FreeRange) /\ c.object \in Object /\ c.capacity \in U
  BY DEF Plannable, Call
<1>2. DOMAIN c.free = 1 .. Len(c.free) /\ Len(c.free) \in Nat /\ \A k \in DOMAIN c.free : c.free[k] \in FreeRange
  BY <1>1
<1>3. c.object.allocated_units \in U /\ c.object.alignment_units \in U \ {0}
  BY <1>1 DEF Object, Plannable
<1>4. c.capacity \in Nat /\ GapOf(c) \in Nat
  BY <1>1, UnitsAreNat DEF Plannable
<1>5. ASSUME NEW k \in DOMAIN c.free
      PROVE  /\ c.free[k].first_unit \in Nat /\ c.free[k].allocated_units \in Nat
             /\ End(c.free[k]) <= MaxU
  <2>1. c.free[k].first_unit \in U /\ c.free[k].allocated_units \in U
    BY <1>2 DEF FreeRange
  <2>2. c.free[k].first_unit <= MaxU - c.free[k].allocated_units
    BY DEF Plannable, check_free_ranges
  <2>3. c.free[k].first_unit \in Nat /\ c.free[k].allocated_units \in Nat /\ MaxU \in Nat
    BY <2>1, UnitsAreNat
  <2> QED
    BY <2>2, <2>3 DEF End
<1> QED
  BY <1>1, <1>2, <1>3, <1>4, <1>5

(* usable_range: what is usable of a range lies in it and begins aligned. *)
LEMMA RangeUsable ==
  ASSUME NEW c, Plannable(c), NEW k \in DOMAIN c.free
  PROVE  /\ CapacityOf(c, k) \in Nat /\ FirstOf(c, k) \in U
         /\ c.free[k].first_unit <= FirstOf(c, k)
         /\ FirstOf(c, k) + CapacityOf(c, k) <= End(c.free[k])
         /\ CapacityOf(c, k) > 0 => Aligned(FirstOf(c, k), c.object.alignment_units)
<1> DEFINE r == c.free[k]
           al == c.object.alignment_units
           pad == Padding(r.first_unit, al)
<1>1. /\ r.first_unit \in Nat /\ r.allocated_units \in Nat /\ End(r) <= MaxU /\ al \in U \ {0} /\ MaxU \in Nat
  BY RangeTypes, UnitsAreNat
<1>2. pad \in Nat
  BY <1>1, PaddingAligns, UnitsAreNat
<1>3. r.first_unit \in U
  BY <1>1 DEF End, U
<1>4. CASE pad > r.allocated_units
  <2>1. FirstOf(c, k) = r.first_unit /\ CapacityOf(c, k) = 0
    BY <1>4 DEF FirstOf, CapacityOf, UsableFirst, UsableCapacity
  <2> QED
    BY <1>1, <1>3, <2>1 DEF End
<1>5. CASE ~(pad > r.allocated_units)
  <2>1. FirstOf(c, k) = r.first_unit + pad /\ CapacityOf(c, k) = r.allocated_units - pad
    BY <1>5 DEF FirstOf, CapacityOf, UsableFirst, UsableCapacity
  <2>2. /\ CapacityOf(c, k) \in Nat /\ FirstOf(c, k) \in U /\ c.free[k].first_unit <= FirstOf(c, k)
        /\ FirstOf(c, k) + CapacityOf(c, k) <= End(c.free[k])
    <3> HIDE DEF pad, r
    <3> QED
      BY <1>1, <1>2, <1>5, <2>1 DEF End, U, r
  <2>3. Aligned(FirstOf(c, k), al)
    BY <1>1, <1>3, <2>1, <2>2, PaddedAligned
  <2> QED
    BY <2>2, <2>3
<1> QED
  BY <1>4, <1>5

(* What the split search takes: all that remains from a range that holds it    *)
(* with the reserve, and from every other one less, so that something remains. *)
LEMMA TakeFacts ==
  ASSUME NEW c, Plannable(c), NEW k \in DOMAIN c.free, NEW u \in U, u # 0
  PROVE  /\ TakeIn(c, k, u) \in Nat /\ TakeIn(c, k, u) <= CapacityOf(c, k)
         /\ HoldsIn(c, k, u) => TakeIn(c, k, u) = u /\ u + GapOf(c) <= CapacityOf(c, k)
         /\ ~HoldsIn(c, k, u) => u - TakeIn(c, k, u) \in U /\ u - TakeIn(c, k, u) # 0
<1>1. CapacityOf(c, k) \in Nat /\ u \in Nat /\ MaxU \in Nat /\ u <= MaxU /\ GapOf(c) \in Nat
  BY RangeUsable, RangeTypes, UnitsAreNat DEF U
<1>2. CASE CapacityOf(c, k) < u
  BY <1>1, <1>2 DEF TakeIn, HoldsIn, U
<1>3. CASE ~(CapacityOf(c, k) < u) /\ HoldsIn(c, k, u)
  BY <1>1, <1>3 DEF TakeIn, HoldsIn, U
<1>4. CASE ~(CapacityOf(c, k) < u) /\ ~HoldsIn(c, k, u)
  <2>1. TakeIn(c, k, u) = u - 1
    BY <1>4 DEF TakeIn
  <2> QED
    BY <1>1, <1>4, <2>1 DEF U
<1> QED
  BY <1>2, <1>3, <1>4

(* The trail of the split search grows by a range that does not hold the rest. *)
LEMMA SplitTrailGrows ==
  ASSUME NEW c, Plannable(c), NEW R, NEW N, NEW n \in DOMAIN c.free, SplitTrail(c, R, N, n),
         ~HoldsIn(c, n, R[n])
  PROVE  \E P, Q : /\ SplitTrail(c, P, Q, n + 1)
                   /\ P[n + 1] = R[n] - TakeIn(c, n, R[n])
                   /\ Q[n + 1] = N[n] + (IF TakeIn(c, n, R[n]) = 0 THEN 0 ELSE 1)
<1> DEFINE rest == R[n] - TakeIn(c, n, R[n])
           more == N[n] + (IF TakeIn(c, n, R[n]) = 0 THEN 0 ELSE 1)
           P == [k \in 1 .. n + 1 |-> IF k <= n THEN R[k] ELSE rest]
           Q == [k \in 1 .. n + 1 |-> IF k <= n THEN N[k] ELSE more]
<1>0. n \in 1 .. Len(c.free) /\ Len(c.free) \in Nat /\ n \in Nat
  BY RangeTypes
<1>1. R[n] \in U /\ R[n] # 0 /\ N[n] \in Nat
  BY <1>0 DEF SplitTrail
<1>2. rest \in U /\ rest # 0 /\ more \in Nat /\ N[n] <= more
  <2>1. rest \in U /\ rest # 0
    BY <1>1, TakeFacts
  <2>2. more \in Nat /\ N[n] <= more
    BY <1>1
  <2> QED
    BY <2>1, <2>2
<1>3. P[n + 1] = rest /\ Q[n + 1] = more
  BY <1>0
<1>4. \A k \in 1 .. n : P[k] = R[k] /\ Q[k] = N[k]
  BY <1>0
<1>5. P \in [1 .. n + 1 -> U] /\ Q \in [1 .. n + 1 -> Nat]
  <2>1. ASSUME NEW k \in 1 .. n + 1 PROVE (IF k <= n THEN R[k] ELSE rest) \in U
    BY <1>0, <1>2 DEF SplitTrail
  <2>2. ASSUME NEW k \in 1 .. n + 1 PROVE (IF k <= n THEN N[k] ELSE more) \in Nat
    BY <1>0, <1>2 DEF SplitTrail
  <2> QED
    BY <2>1, <2>2
<1> HIDE DEF P, Q, rest, more
<1>6. P[1] = c.object.allocated_units /\ Q[1] = 0
  BY <1>0, <1>4 DEF SplitTrail
<1>7. ASSUME NEW k \in 1 .. n + 1 PROVE P[k] # 0 /\ Q[k] <= Q[n + 1]
  <2>1. CASE k = n + 1
    BY <1>2, <1>3, <2>1
  <2>2. CASE k # n + 1
    <3>1. k \in 1 .. n
      BY <1>0, <2>2
    <3>2. R[k] # 0 /\ N[k] <= N[n] /\ N[k] \in Nat
      BY <3>1 DEF SplitTrail
    <3> QED
      BY <1>1, <1>2, <1>3, <1>4, <3>1, <3>2
  <2> QED
    BY <2>1, <2>2
<1>8. ASSUME NEW k \in 1 .. (n + 1) - 1
      PROVE  /\ ~HoldsIn(c, k, P[k]) /\ P[k + 1] = P[k] - TakeIn(c, k, P[k])
             /\ Q[k + 1] = Q[k] + (IF TakeIn(c, k, P[k]) = 0 THEN 0 ELSE 1)
  <2>1. CASE k = n
    <3>1. P[k] = R[n] /\ Q[k] = N[n] /\ P[k + 1] = rest /\ Q[k + 1] = more
      BY <1>0, <1>3, <1>4, <2>1
    <3> QED
      BY <2>1, <3>1 DEF rest, more
  <2>2. CASE k # n
    <3>1. k \in 1 .. n - 1 /\ k + 1 \in 1 .. n /\ k \in 1 .. n
      BY <1>0, <2>2
    <3>2. P[k] = R[k] /\ P[k + 1] = R[k + 1] /\ Q[k] = N[k] /\ Q[k + 1] = N[k + 1]
      BY <1>4, <3>1
    <3> QED
      BY <3>1, <3>2 DEF SplitTrail
  <2> QED
    BY <2>1, <2>2
<1>9. SplitTrail(c, P, Q, n + 1)
  BY <1>5, <1>6, <1>7, <1>8 DEF SplitTrail
<1> QED
  BY <1>3, <1>9 DEF rest, more

(* An extent that is cut from a range lies in what is usable of it. *)
LEMMA ExtentLies ==
  ASSUME NEW c, Plannable(c), NEW k \in DOMAIN c.free, NEW u \in Nat, u # 0, NEW g \in Nat,
         u + g <= CapacityOf(c, k)
  PROVE  /\ ExtentIn(c, k, u, g) \in Entry
         /\ ExtentIn(c, k, u, g).allocated_units > 0 /\ ExtentIn(c, k, u, g).gap_after_units = g
         /\ Aligned(ExtentIn(c, k, u, g).first_unit, c.object.alignment_units)
         /\ In(ExtentIn(c, k, u, g), c.free[k])
         /\ End(ExtentIn(c, k, u, g)) <= End(c.free[k])
         /\ c.free[k].first_unit <= ExtentIn(c, k, u, g).first_unit
<1> DEFINE e == ExtentIn(c, k, u, g)
           f == FirstOf(c, k)
<1>1. e = [object_id |-> 0, first_unit |-> f, allocated_units |-> u, gap_after_units |-> g]
  BY DEF ExtentIn
<1>2. e.first_unit = f /\ e.allocated_units = u /\ e.gap_after_units = g
  BY <1>1
<1>3. /\ CapacityOf(c, k) \in Nat /\ f \in U /\ f \in Nat /\ c.free[k].first_unit <= f
      /\ f + CapacityOf(c, k) <= End(c.free[k])
      /\ CapacityOf(c, k) > 0 => Aligned(f, c.object.alignment_units)
  BY RangeUsable, UnitsAreNat
<1>4. /\ c.free[k].first_unit \in Nat /\ c.free[k].allocated_units \in Nat /\ End(c.free[k]) <= MaxU
      /\ MaxU \in Nat
  BY RangeTypes, UnitsAreNat
<1>5. f + u + g <= End(c.free[k]) /\ f + u <= End(c.free[k]) /\ CapacityOf(c, k) > 0 /\ End(c.free[k]) \in Nat
  <2>1. End(c.free[k]) \in Nat
    BY <1>4 DEF End
  <2> HIDE DEF f
  <2> QED
    BY <1>3, <2>1
<1>6. u \in U /\ g \in U /\ 0 \in U
  <2> HIDE DEF f
  <2> QED
    BY <1>3, <1>4, <1>5 DEF U
<1>7. e \in Entry
  BY <1>1, <1>3, <1>6 DEF Entry
<1> HIDE DEF e, f
<1> QED
  BY <1>2, <1>3, <1>5, <1>7 DEF In, End, e

-----------------------------------------------------------------------------
(* The actions of plan_file_extent_pass *)

(* Which planner a call is for. *)
LEMMA KindOf ==
  ASSUME Shape
  PROVE  /\ pc = "layout" => call.kind = "layout"
         /\ pc \in {"single", "split"} => call.kind = "extents"
         /\ call.kind = "extents" => call.kind # "layout" /\ Slots(call) = call.capacity
         /\ call.kind = "layout" => call.kind # "extents"
  BY CallTypes DEF Shape, Slots

LEMMA UnplannableCases ==
  Unplannable = "OK"
    => /\ call.growth_percent \in {0, 10}
       /\ call.object.object_id # 0 /\ call.object.allocated_units # 0
       /\ call.object.alignment_units # 0 /\ call.object.flags = 0
       /\ check_free_ranges(call.free) /\ Reserve(call.object) # Unrepresentable
  BY Zenon DEF Unplannable

LEMMA ExtentsStart ==
  ASSUME Common, Counted, StartExtents
  PROVE  Common' /\ ExtentsPart' /\ Counted'
<1>0. /\ call' = call /\ pass' = pass /\ cursor' = cursor /\ previous' = previous /\ remaining' = remaining
      /\ count' = count /\ out' = out /\ written' = written /\ pc = "start" /\ call.kind = "extents"
      /\ pass = 1 /\ count = 0
  BY DEF StartExtents, Common, Shape, locals
<1>1. Counted'
  BY <1>0 DEF Counted
<1>2. CASE Unplannable # "OK"
  <2>1. pc' = "done" /\ status' = Unplannable
    BY <1>2, Zenon DEF StartExtents, Stop
  <2>2. Shape'
    BY <1>0, <2>1, KindOf DEF Common, Shape
  <2>3. Quiet'
    BY <1>0, <1>2, <2>1 DEF Common, Quiet
  <2> QED
    BY <1>1, <1>2, <2>1, <2>2, <2>3
       DEF Common, ExtentsPart, ExtentsRun, SingleRuns, SplitRuns, ExtentsSound
<1>3. CASE Unplannable = "OK"
  <2>1. pc' = "single" /\ i' = 1
    BY <1>3, Zenon DEF StartExtents
  <2>2. Shape'
    BY <1>0, <2>1, KindOf DEF Common, Shape
  <2>3. Quiet'
    BY <1>0, <2>1 DEF Common, Quiet
  <2>4. Plannable(call)
    <3>1. call \in Call /\ call.growth_percent \in {0, 10}
      BY <1>3, CallTypes, UnplannableCases DEF Common
    <3>2. call.object \in Object
      BY <3>1 DEF Call
    <3>3. Reserve(call.object) = GapOf(call)
      BY DEF GapOf, Reserve, ReserveOf
    <3>4. GapOf(call) \in U
      BY <1>3, <3>1, <3>2, <3>3, ReserveOfObject, UnplannableCases DEF GapOf
    <3> QED
      BY <1>3, <3>1, <3>4, UnplannableCases DEF Plannable
  <2>5. 1 \in 1 .. Len(call.free) + 1 /\ NoneHolds(call, 1)
    BY CallTypes DEF Common, NoneHolds
  <2> QED
    BY <1>0, <1>1, <2>1, <2>2, <2>3, <2>4, <2>5
       DEF Common, ExtentsPart, ExtentsRun, SingleRuns, SplitRuns, ExtentsSound
<1> QED
  BY <1>2, <1>3

(* The end of a first pass that found n extents: nothing is written; the array *)
(* is too small, or the second pass begins.                                    *)
LEMMA FirstPassEnds ==
  ASSUME Common, pc \in {"single", "split"}, Plannable(call), pass = 1,
         NEW n \in Nat \ {0}, ExtentPassEnds(n), n >= count',
         Whole(call, n) \/ \E R, N, m : Split(call, R, N, m, n),
         call' = call, cursor' = cursor, previous' = previous, remaining' \in U, count' \in Nat, out' = out
  PROVE  Common' /\ ExtentsPart' /\ Counted'
<1>0. call.kind = "extents" /\ call.kind # "layout" /\ Slots(call) = call.capacity /\ call.capacity \in Nat
  BY KindOf, CallTypes DEF Common
<1>1. pc # "done" /\ pc # "start" /\ written = 0
  BY DEF Common, Quiet
<1>2. CASE n > call.capacity
  <2>1. pc' = "done" /\ status' = "OUTPUT_TOO_SMALL" /\ pass' = pass /\ written' = written
    BY <1>2, Zenon DEF ExtentPassEnds, Stop
  <2>2. Shape'
    BY <1>0, <2>1 DEF Common, Shape
  <2>3. Quiet'
    BY <1>1, <2>1 DEF Common, Quiet
  <2> QED
    BY <1>0, <2>1, <2>2, <2>3
       DEF Common, ExtentsPart, ExtentsRun, SingleRuns, SplitRuns, ExtentsSound, Counted
<1>3. CASE ~(n > call.capacity)
  <2>1. pc' = "single" /\ pass' = 2 /\ required' = n /\ i' = 1 /\ status' = status /\ written' = written
    BY <1>3, Zenon DEF ExtentPassEnds
  <2>2. Shape'
    BY <1>0, <2>1 DEF Common, Shape
  <2>3. Quiet'
    BY <1>1, <2>1 DEF Common, Quiet
  <2>4. 1 \in 1 .. Len(call.free) + 1 /\ NoneHolds(call, 1) /\ n \in 1 .. call.capacity /\ count' <= call.capacity
    BY <1>0, <1>3, CallTypes DEF Common, NoneHolds
  <2>5. ExtentsRun' /\ SplitRuns' /\ ExtentsSound'
    BY <2>1, <2>4 DEF ExtentsRun, SplitRuns, ExtentsSound
  <2>6. SingleRuns'
    BY <2>1, <2>4 DEF SingleRuns
  <2>7. Counted'
    BY <1>0, <2>1, <2>4 DEF Counted
  <2> QED
    BY <2>2, <2>3, <2>5, <2>6, <2>7 DEF Common, ExtentsPart
<1> QED
  BY <1>2, <1>3

(* The end of a second pass that finds the extents of the first. *)
LEMMA SecondPassEnds ==
  ASSUME Common, pc \in {"single", "split"}, Plannable(call), pass = 2, ExtentPassEnds(required),
         required \in 1 .. call.capacity,
         call' = call, cursor' = cursor, previous' = previous, remaining' \in U, count' \in Nat,
         count' <= call.capacity, out' \in [1 .. call.capacity -> Entry],
         \A k \in 1 .. required - 1 : Data(call, out'[k]) /\ End(out'[k]) <= out'[k + 1].first_unit,
         /\ out'[required].allocated_units > 0 /\ out'[required].gap_after_units = GapOf(call)
         /\ Aligned(out'[required].first_unit, call.object.alignment_units)
         /\ \E j \in DOMAIN call.free : In(out'[required], call.free[j])
  PROVE  Common' /\ ExtentsPart' /\ Counted'
<1>0. call.kind = "extents" /\ call.kind # "layout" /\ Slots(call) = call.capacity /\ call.capacity \in Nat
  BY KindOf, CallTypes DEF Common
<1>1. pc' = "done" /\ status' = "OK" /\ written' = required /\ pass' = 2
  <2>1. pass # 1
    OBVIOUS
  <2> QED
    BY <2>1, Zenon DEF ExtentPassEnds, Stop
<1>2. Shape'
  BY <1>0, <1>1 DEF Common, Shape
<1>3. Quiet'
  BY <1>1 DEF Quiet
<1>4. (IF call.growth_percent = 0 THEN GapOf(call) = 0
       ELSE 10 * GapOf(call) >= call.object.allocated_units /\ 10 * GapOf(call) < call.object.allocated_units + 10)
  <2>1. call.object \in Object /\ call.growth_percent \in {0, 10} /\ GapOf(call) \in U /\ Unrepresentable \notin U
    BY RangeTypes DEF Plannable, Unrepresentable, U
  <2> QED
    BY <2>1, ReserveOfObject DEF GapOf
<1>5. ExtentsSound'
  <2>1. ASSUME NEW k \in 1 .. required
        PROVE  /\ out'[k].allocated_units > 0
               /\ Aligned(out'[k].first_unit, call.object.alignment_units)
               /\ \E j \in DOMAIN call.free : In(out'[k], call.free[j])
               /\ k < required => /\ out'[k].gap_after_units = 0
                                  /\ out'[k].first_unit + out'[k].allocated_units <= out'[k + 1].first_unit
    <3>1. CASE k = required
      <4>1. ~(k < required)
        BY <1>0, <3>1
      <4> QED
        BY <3>1, <4>1
    <3>2. CASE k # required
      <4>1. k \in 1 .. required - 1
        BY <1>0, <3>2
      <4> QED
        BY <4>1 DEF Data, End
    <3> QED
      BY <3>1, <3>2
  <2>2. IsReserve(out[written].gap_after_units, call.object.allocated_units)'
    BY <1>1, <1>4 DEF IsReserve
  <2>3. Extents' = 1 .. required
    BY <1>1 DEF Extents
  <2> QED
    BY <1>1, <2>1, <2>2, <2>3 DEF ExtentsSound
<1>6. ExtentsRun' /\ SingleRuns' /\ SplitRuns' /\ Counted'
  BY <1>0, <1>1 DEF ExtentsRun, SingleRuns, SplitRuns, Counted
<1> QED
  BY <1>2, <1>3, <1>5, <1>6 DEF Common, ExtentsPart

(* One range looked at for the whole file. *)
LEMMA SingleTurns ==
  ASSUME Common, ExtentsRun, SingleRuns, Counted, SingleTurn
  PROVE  Common' /\ ExtentsPart' /\ Counted'
<1> DEFINE units == call.object.allocated_units
           n == Len(call.free)
<1>0. /\ call' = call /\ cursor' = cursor /\ previous' = previous /\ remaining' = remaining /\ count' = count
      /\ pc = "single" /\ i \in DOMAIN call.free
  BY DEF SingleTurn, locals
<1>1. /\ Plannable(call) /\ NoneHolds(call, i) /\ (pass = 1 => count = 0)
      /\ pass = 2 => required \in 1 .. call.capacity
  BY <1>0 DEF ExtentsRun, SingleRuns
<1>2. pass = 2 => Whole(call, required) \/ \E R, N, m : Split(call, R, N, m, required)
  BY <1>0, Zenon DEF SingleRuns
<1>3. /\ call.kind = "extents" /\ call.kind # "layout" /\ Slots(call) = call.capacity /\ pass \in {1, 2}
      /\ i \in 1 .. n /\ n \in Nat /\ call.capacity \in Nat
      /\ remaining \in U /\ count \in Nat /\ out \in [1 .. call.capacity -> Entry]
  BY <1>0, <1>1, KindOf, RangeTypes DEF Common, Shape
<1>4. Holds(i, units) <=> HoldsIn(call, i, units)
  BY OfTheCall
<1>5. CASE ~HoldsIn(call, i, units)
  <2>1. i' = i + 1 /\ UNCHANGED <<pc, pass, required, out, written, status>>
    BY <1>4, <1>5, Zenon DEF SingleTurn
  <2>2. Shape' /\ Quiet'
    BY <1>0, <1>3, <2>1 DEF Common, Shape, Quiet
  <2>3. NoneHolds(call, i + 1) /\ i + 1 \in 1 .. n + 1
    BY <1>1, <1>3, <1>5 DEF NoneHolds
  <2>4. ExtentsRun' /\ SplitRuns' /\ ExtentsSound'
    BY <1>0, <1>1, <2>1, <2>3 DEF ExtentsRun, SplitRuns, ExtentsSound
  <2>5. SingleRuns'
    BY <1>0, <1>1, <1>2, <2>1, <2>3 DEF SingleRuns
  <2>6. Counted'
    BY <1>0, <2>1 DEF Counted
  <2> QED
    BY <2>2, <2>4, <2>5, <2>6 DEF Common, ExtentsPart
<1>6. CASE HoldsIn(call, i, units)
  <2>1. /\ ExtentPassEnds(1)
        /\ out' = IF Writes THEN [out EXCEPT ![1] = Extent(i, units, Gap)] ELSE out
    BY <1>4, <1>6, Zenon DEF SingleTurn
  <2>2. Whole(call, 1)
    BY <1>0, <1>6 DEF Whole
  <2>3. CASE pass = 1
    <3>1. out' = out /\ 1 >= count'
      BY <1>0, <1>1, <2>1, <2>3 DEF Writes
    <3> QED
      BY <1>0, <1>1, <1>3, <2>1, <2>2, <2>3, <3>1, FirstPassEnds
  <2>4. CASE pass = 2
    <3>1. required = 1
      <4>1. ASSUME NEW R, NEW N, NEW m, Split(call, R, N, m, required) PROVE FALSE
        <5>1. i \in 1 .. (n + 1) - 1
          BY <1>3
        <5> QED
          BY <1>6, <4>1, <5>1 DEF Split, NoneHolds
      <4> QED
        BY <1>2, <2>4, <4>1 DEF Whole
    <3>2. out' = [out EXCEPT ![1] = ExtentIn(call, i, units, GapOf(call))]
      BY <2>1, <2>4, OfTheCall DEF Writes
    <3>3. units \in Nat /\ units # 0 /\ GapOf(call) \in Nat /\ units + GapOf(call) <= CapacityOf(call, i)
      <4>1. units \in U /\ units # 0 /\ GapOf(call) \in Nat
        BY <1>1, RangeTypes DEF Plannable
      <4> QED
        BY <1>0, <1>1, <1>6, <4>1, TakeFacts, UnitsAreNat
    <3> DEFINE e == ExtentIn(call, i, units, GapOf(call))
    <3>4. /\ e \in Entry /\ e.allocated_units > 0 /\ e.gap_after_units = GapOf(call)
          /\ Aligned(e.first_unit, call.object.alignment_units) /\ In(e, call.free[i])
      BY <1>0, <1>1, <3>3, ExtentLies
    <3> HIDE DEF e, units
    <3>5. 1 \in 1 .. call.capacity
      BY <1>1, <1>3, <2>4, <3>1
    <3>6. out'[1] = e /\ out' \in [1 .. call.capacity -> Entry]
      BY <1>3, <3>2, <3>4, <3>5 DEF e
    <3>7. 1 .. required - 1 = {}
      BY <3>1
    <3>8. count' <= call.capacity
      BY <1>0, <1>3, <2>4 DEF Counted
    <3>9. ExtentPassEnds(required)
      BY <2>1, <3>1
    <3> QED
      BY <1>0, <1>1, <1>3, <2>4, <3>1, <3>4, <3>6, <3>7, <3>8, <3>9, SecondPassEnds
  <2> QED
    BY <1>3, <2>3, <2>4
<1> QED
  BY <1>5, <1>6

(* No range holds the whole file: the split search begins. *)
LEMMA SingleEnd ==
  ASSUME Common, ExtentsRun, SingleRuns, Counted, SingleEnds
  PROVE  Common' /\ ExtentsPart' /\ Counted'
<1> DEFINE units == call.object.allocated_units
           n == Len(call.free)
<1>0. /\ call' = call /\ pass' = pass /\ cursor' = cursor /\ previous' = previous /\ required' = required
      /\ out' = out /\ written' = written /\ status' = status
      /\ pc = "single" /\ pc' = "split" /\ i = n + 1 /\ i' = 1 /\ remaining' = units /\ count' = 0
  BY DEF SingleEnds
<1>1. /\ Plannable(call) /\ NoneHolds(call, n + 1) /\ (pass = 2 => required \in 1 .. call.capacity)
  BY <1>0 DEF ExtentsRun, SingleRuns
<1>2. pass = 2 => Whole(call, required) \/ \E R, N, m : Split(call, R, N, m, required)
  BY <1>0, Zenon DEF SingleRuns
<1>3. /\ call.kind = "extents" /\ call.kind # "layout" /\ Slots(call) = call.capacity /\ pass \in {1, 2}
      /\ n \in Nat /\ DOMAIN call.free = 1 .. n /\ call.capacity \in Nat
      /\ units \in U /\ units # 0
  BY <1>0, <1>1, KindOf, RangeTypes DEF Common, Shape, Plannable
<1>4. Shape' /\ Quiet'
  BY <1>0, <1>3 DEF Common, Shape, Quiet
<1>5. ExtentsRun' /\ SingleRuns' /\ ExtentsSound' /\ Counted'
  BY <1>0, <1>1, <1>3 DEF ExtentsRun, SingleRuns, ExtentsSound, Counted
<1>6. SplitRuns'
  <2>1. CASE pass = 1
    <3> DEFINE R == [k \in 1 .. 1 |-> units]
               N == [k \in 1 .. 1 |-> 0]
    <3>1. R \in [1 .. 1 -> U] /\ N \in [1 .. 1 -> Nat] /\ R[1] = units /\ N[1] = 0 /\ 1 .. 1 - 1 = {}
          /\ \A k \in 1 .. 1 : k = 1
      BY <1>3
    <3> HIDE DEF R, N
    <3>2. SplitTrail(call, R, N, 1)
      BY <1>3, <3>1 DEF SplitTrail
    <3> QED
      BY <1>0, <1>1, <1>3, <2>1, <3>1, <3>2 DEF SplitRuns
  <2>2. CASE pass = 2
    <3>1. ~Whole(call, required)
      BY <1>1, <1>3 DEF Whole, NoneHolds
    <3>2. PICK R, N, m : Split(call, R, N, m, required)
      BY <1>2, <2>2, <3>1
    <3>3. R[1] = units /\ N[1] = 0 /\ 1 <= m
      BY <1>3, <3>2 DEF Split, SplitTrail
    <3>4. Ordered(call, out, 0, 1)
      BY DEF Ordered
    <3> QED
      BY <1>0, <1>1, <1>3, <2>2, <3>2, <3>3, <3>4 DEF SplitRuns
  <2> QED
    BY <1>3, <2>1, <2>2
<1> QED
  BY <1>4, <1>5, <1>6 DEF Common, ExtentsPart

(* Free ranges ascend and do not overlap. *)
LEMMA RangesAscend ==
  ASSUME NEW c, Plannable(c), NEW k \in DOMAIN c.free, k > 1
  PROVE  /\ k - 1 \in DOMAIN c.free /\ End(c.free[k - 1]) <= c.free[k].first_unit
         /\ c.free[k].first_unit <= End(c.free[k]) /\ End(c.free[k - 1]) \in Nat
<1>1. k \in 1 .. Len(c.free) /\ DOMAIN c.free = 1 .. Len(c.free) /\ Len(c.free) \in Nat
  BY RangeTypes
<1>2. k - 1 \in DOMAIN c.free
  BY <1>1
<1>3. c.free[k].first_unit >= c.free[k - 1].first_unit + c.free[k - 1].allocated_units
  BY DEF Plannable, check_free_ranges
<1>4. /\ c.free[k].first_unit \in Nat /\ c.free[k].allocated_units \in Nat
      /\ c.free[k - 1].first_unit \in Nat /\ c.free[k - 1].allocated_units \in Nat
  BY <1>2, RangeTypes
<1> QED
  BY <1>2, <1>3, <1>4 DEF End

(* The extents so far lie before the next range too. *)
LEMMA OrderedSkip ==
  ASSUME NEW c, Plannable(c), NEW k \in DOMAIN c.free, NEW n \in Nat, NEW m \in Nat, NEW a \in [1 .. m -> Entry],
         n <= m, Ordered(c, a, n, k)
  PROVE  Ordered(c, a, n, k + 1)
<1>0. k \in Nat /\ k >= 1 /\ (k + 1) - 1 = k
  BY RangeTypes
<1>1. ASSUME n > 0 PROVE k + 1 > 1 /\ End(a[n]) <= End(c.free[(k + 1) - 1])
  <2>1. k > 1 /\ End(a[n]) <= End(c.free[k - 1])
    BY <1>1 DEF Ordered
  <2>2. /\ End(c.free[k - 1]) <= c.free[k].first_unit /\ c.free[k].first_unit <= End(c.free[k])
        /\ End(c.free[k - 1]) \in Nat /\ c.free[k].first_unit \in Nat /\ c.free[k].allocated_units \in Nat
    BY <2>1, RangesAscend, RangeTypes
  <2>3. End(a[n]) \in Nat /\ End(c.free[k]) \in Nat
    <3>1. a[n] \in Entry
      BY <1>1
    <3>2. a[n].first_unit \in U /\ a[n].allocated_units \in U
      BY <3>1 DEF Entry
    <3>3. a[n].first_unit \in Nat /\ a[n].allocated_units \in Nat
      BY <3>2, UnitsAreNat
    <3>4. End(a[n]) \in Nat
      BY <3>3 DEF End
    <3>5. c.free[k].first_unit \in Nat /\ c.free[k].allocated_units \in Nat
      BY RangeTypes
    <3>6. End(c.free[k]) \in Nat
      BY <3>5 DEF End
    <3> QED
      BY <3>4, <3>6
  <2> QED
    BY <1>0, <2>1, <2>2, <2>3
<1> QED
  BY <1>1 DEF Ordered

(* An extent in the range looked at comes after the extents so far. *)
LEMMA OrderedAppend ==
  ASSUME NEW c, Plannable(c), NEW k \in DOMAIN c.free, NEW n \in Nat, NEW m \in Nat, NEW a \in [1 .. m -> Entry],
         n + 1 <= m, Ordered(c, a, n, k), NEW e \in Entry, c.free[k].first_unit <= e.first_unit,
         NEW b, b[n + 1] = e, \A j \in 1 .. n : b[j] = a[j]
  PROVE  \A j \in 1 .. n : Data(c, b[j]) /\ End(b[j]) <= b[j + 1].first_unit
<1>1. b[n + 1] = e /\ \A j \in 1 .. n : b[j] = a[j]
  OBVIOUS
<1>2. ASSUME NEW j \in 1 .. n PROVE Data(c, b[j]) /\ End(b[j]) <= b[j + 1].first_unit
  <2>1. Data(c, a[j]) /\ (j < n => End(a[j]) <= a[j + 1].first_unit) /\ b[j] = a[j]
    BY <1>1 DEF Ordered
  <2>2. CASE j < n
    <3>1. j + 1 \in 1 .. n
      BY <2>2
    <3> QED
      BY <1>1, <2>1, <2>2, <3>1
  <2>3. CASE ~(j < n)
    <3>1. j = n /\ n > 0
      BY <2>3
    <3>2. k > 1 /\ End(a[n]) <= End(c.free[k - 1])
      BY <3>1 DEF Ordered
    <3>3. End(c.free[k - 1]) <= c.free[k].first_unit /\ End(c.free[k - 1]) \in Nat /\ c.free[k].first_unit \in Nat
      BY <3>2, RangesAscend, RangeTypes
    <3>4. End(a[n]) \in Nat /\ e.first_unit \in Nat
      <4>1. a[n] \in Entry
        BY <3>1
      <4>2. a[n].first_unit \in U /\ a[n].allocated_units \in U /\ e.first_unit \in U
        BY <4>1 DEF Entry
      <4> QED
        BY <4>2, UnitsAreNat DEF End
    <3>5. End(a[n]) <= e.first_unit
      BY <3>2, <3>3, <3>4
    <3> QED
      BY <1>1, <2>1, <3>1, <3>5
  <2> QED
    BY <2>2, <2>3
<1> QED
  BY <1>1, <1>2

(* One range looked at for what remains. *)
LEMMA SplitTurns ==
  ASSUME Common, ExtentsRun, SplitRuns, Counted, SplitTurn
  PROVE  Common' /\ ExtentsPart' /\ Counted'
<1> DEFINE n == Len(call.free)
           take == TakeIn(call, i, remaining)
           last == HoldsIn(call, i, remaining)
<1>0. /\ call' = call /\ cursor' = cursor /\ previous' = previous /\ pc = "split" /\ i \in DOMAIN call.free
  BY DEF SplitTurn
<1>1. /\ Plannable(call) /\ NoneHolds(call, n + 1) /\ remaining # 0
      /\ pass = 2 => required \in 1 .. call.capacity /\ Ordered(call, out, count, i)
  BY <1>0, Zenon DEF ExtentsRun, SplitRuns
<1>2. /\ call.kind = "extents" /\ call.kind # "layout" /\ Slots(call) = call.capacity /\ pass \in {1, 2}
      /\ i \in 1 .. n /\ n \in Nat /\ DOMAIN call.free = 1 .. n /\ call.capacity \in Nat
      /\ remaining \in U /\ count \in Nat /\ out \in [1 .. call.capacity -> Entry]
  BY <1>0, <1>1, KindOf, RangeTypes DEF Common, Shape
<1>3. (Holds(i, remaining) <=> last) /\ Take(i) = take /\ Gap = GapOf(call)
  BY OfTheCall
<1>4. /\ take \in Nat /\ take <= CapacityOf(call, i) /\ (last => take = remaining /\ remaining + GapOf(call) <= CapacityOf(call, i))
      /\ ~last => remaining - take \in U /\ remaining - take # 0
  BY <1>0, <1>1, <1>2, TakeFacts
<1>5. remaining \in Nat /\ remaining - remaining = 0 /\ 0 \in U /\ GapOf(call) \in Nat
  BY <1>1, <1>2, UnitsAreNat, RangeTypes
<1>6. ASSUME take # 0
      PROVE  /\ count' = count + 1 /\ remaining' = remaining - take
             /\ out' = IF Writes THEN [out EXCEPT ![count + 1] = ExtentIn(call, i, take, IF last THEN GapOf(call) ELSE 0)]
                                 ELSE out
             /\ IF last THEN ExtentPassEnds(count + 1) ELSE i' = i + 1 /\ UNCHANGED <<pc, pass, required, written, status>>
  <2>1. Extent(i, take, IF last THEN GapOf(call) ELSE 0) = ExtentIn(call, i, take, IF last THEN GapOf(call) ELSE 0)
    BY OfTheCall
  <2> HIDE DEF take, last
  <2> QED
    BY <1>3, <1>6, <2>1, Zenon DEF SplitTurn
<1>7. ASSUME take = 0 PROVE i' = i + 1 /\ UNCHANGED <<pc, pass, remaining, count, required, out, written, status>>
  BY <1>3, <1>7, Zenon DEF SplitTurn
<1> HIDE DEF take, last
<1>8. CASE ~last
  <2>1. /\ i' = i + 1 /\ UNCHANGED <<pc, pass, required, written, status>>
        /\ remaining' = remaining - take /\ count' = count + (IF take = 0 THEN 0 ELSE 1)
    <3>1. CASE take = 0
      BY <1>2, <1>5, <1>7, <3>1
    <3>2. CASE take # 0
      BY <1>2, <1>6, <1>8, <3>2
    <3> QED
      BY <3>1, <3>2
  <2>2. remaining' \in U /\ remaining' # 0 /\ count' \in Nat /\ i + 1 \in 1 .. n + 1
    BY <1>2, <1>4, <1>8, <2>1
  <2>3. CASE pass = 1
    <3>1. out' = out
      BY <1>6, <1>7, <2>3 DEF Writes
    <3>2. PICK R, N : SplitTrail(call, R, N, i) /\ R[i] = remaining /\ N[i] = count
      BY <1>0, <2>3, Zenon DEF SplitRuns
    <3>3. \E P, Q : SplitTrail(call, P, Q, i + 1) /\ P[i + 1] = remaining' /\ Q[i + 1] = count'
      BY <1>0, <1>1, <1>8, <2>1, <3>2, SplitTrailGrows DEF take, last
    <3>4. Shape' /\ Quiet'
      BY <1>0, <1>2, <2>1, <2>2, <3>1 DEF Common, Shape, Quiet
    <3>5. SplitRuns'
      BY <1>0, <1>1, <2>1, <2>2, <2>3, <3>3 DEF SplitRuns
    <3>6. ExtentsRun' /\ SingleRuns' /\ ExtentsSound' /\ Counted'
      BY <1>0, <1>1, <1>2, <2>1, <2>2, <2>3 DEF ExtentsRun, SingleRuns, ExtentsSound, Counted
    <3> QED
      BY <3>4, <3>5, <3>6 DEF Common, ExtentsPart
  <2>4. CASE pass = 2
    <3>1. PICK R, N, m : Split(call, R, N, m, required) /\ i <= m /\ R[i] = remaining /\ N[i] = count
      BY <1>0, <2>4, Zenon DEF SplitRuns
    <3>2. i # m /\ m \in 1 .. n /\ SplitTrail(call, R, N, m) /\ required = N[m] + 1
      BY <1>2, <1>8, <3>1 DEF Split, last
    <3>3. i \in 1 .. m - 1 /\ i + 1 \in 1 .. m /\ m \in 1 .. m /\ i + 1 <= m
      BY <1>2, <3>1, <3>2
    <3>4. R[i + 1] = remaining' /\ N[i + 1] = count'
      BY <2>1, <3>1, <3>2, <3>3 DEF SplitTrail, take
    <3>5. count' <= N[m] /\ N[m] \in Nat
      BY <3>2, <3>3, <3>4 DEF SplitTrail
    <3>6. count' + 1 <= call.capacity
      BY <1>1, <1>2, <2>2, <2>4, <3>2, <3>5
    <3>7. out' \in [1 .. call.capacity -> Entry] /\ Ordered(call, out', count', i + 1)
      <4>1. CASE take = 0
        <5>1. out' = out /\ count' = count /\ count <= call.capacity
          BY <1>2, <1>7, <3>6, <4>1
        <5> QED
          BY <1>0, <1>1, <1>2, <2>4, <5>1, OrderedSkip
      <4>2. CASE take # 0
        <5> DEFINE e == ExtentIn(call, i, take, 0)
        <5>1. out' = [out EXCEPT ![count + 1] = e] /\ count' = count + 1
          BY <1>6, <1>8, <2>4, <4>2 DEF Writes
        <5>2. take + 0 <= CapacityOf(call, i) /\ 0 \in Nat
          BY <1>4
        <5>3. /\ e \in Entry /\ e.allocated_units > 0 /\ e.gap_after_units = 0
              /\ Aligned(e.first_unit, call.object.alignment_units) /\ In(e, call.free[i])
              /\ End(e) <= End(call.free[i]) /\ call.free[i].first_unit <= e.first_unit
          BY <1>0, <1>1, <1>4, <4>2, <5>2, ExtentLies
        <5> HIDE DEF e
        <5>4. Data(call, e)
          BY <1>0, <5>3 DEF Data
        <5>5. count + 1 <= call.capacity
          BY <1>2, <3>6, <5>1
        <5>6. /\ out' \in [1 .. call.capacity -> Entry] /\ out'[count + 1] = e
              /\ \A j \in 1 .. count : Data(call, out'[j]) /\ End(out'[j]) <= out'[j + 1].first_unit
          <6>1. Plannable(call) /\ i \in DOMAIN call.free /\ Ordered(call, out, count, i)
            BY <1>0, <1>1, <2>4
          <6>2. count \in Nat /\ call.capacity \in Nat /\ out \in [1 .. call.capacity -> Entry]
            BY <1>2
          <6>3. /\ out' \in [1 .. call.capacity -> Entry] /\ out'[count + 1] = e
                /\ \A j \in 1 .. count : out'[j] = out[j]
            BY <5>1, <5>3, <5>5, <6>2
          <6>4. e \in Entry /\ call.free[i].first_unit <= e.first_unit
            BY <5>3
          <6> QED
            BY <5>5, <6>1, <6>2, <6>3, <6>4, OrderedAppend, ZenonT(60)
        <5>7. Ordered(call, out', count + 1, i + 1)
          <6>1. ASSUME NEW k \in 1 .. count + 1
                PROVE  Data(call, out'[k]) /\ (k < count + 1 => End(out'[k]) <= out'[k + 1].first_unit)
            <7>1. CASE k = count + 1
              BY <1>2, <5>4, <5>6, <7>1
            <7>2. CASE k # count + 1
              <8>1. k \in 1 .. count
                BY <1>2, <7>2
              <8> QED
                BY <5>6, <8>1
            <7> QED
              BY <7>1, <7>2
          <6>2. i + 1 > 1 /\ (i + 1) - 1 = i
            BY <1>2
          <6> QED
            BY <5>3, <5>6, <6>1, <6>2 DEF Ordered
        <5> QED
          BY <5>1, <5>6, <5>7
      <4> QED
        BY <4>1, <4>2
    <3>8. Shape'
      BY <1>0, <1>2, <2>1, <2>2, <3>7 DEF Common, Shape
    <3>9. Quiet'
      BY <1>0, <2>1, <2>4 DEF Common, Quiet
    <3>10. SplitRuns'
      BY <1>0, <1>1, <2>1, <2>2, <2>4, <3>1, <3>3, <3>4, <3>7 DEF SplitRuns
    <3>11. count' <= call.capacity
      BY <1>2, <2>2, <3>6
    <3>12. ExtentsRun' /\ SingleRuns' /\ ExtentsSound' /\ Counted'
      BY <1>0, <1>1, <1>2, <2>1, <2>2, <2>4, <3>11 DEF ExtentsRun, SingleRuns, ExtentsSound, Counted
    <3> QED
      BY <3>8, <3>9, <3>10, <3>12 DEF Common, ExtentsPart
  <2> QED
    BY <1>2, <2>3, <2>4
<1>9. CASE last
  <2>1. take = remaining /\ take # 0 /\ remaining + GapOf(call) <= CapacityOf(call, i)
    BY <1>1, <1>4, <1>9
  <2>2. count' = count + 1 /\ remaining' = 0 /\ ExtentPassEnds(count + 1) /\ count + 1 \in Nat \ {0}
    BY <1>2, <1>5, <1>6, <1>9, <2>1
  <2>3. CASE pass = 1
    <3>1. PICK R, N : SplitTrail(call, R, N, i) /\ R[i] = remaining /\ N[i] = count
      BY <1>0, <2>3, Zenon DEF SplitRuns
    <3>2. Split(call, R, N, i, count + 1)
      BY <1>0, <1>1, <1>9, <3>1 DEF Split, last
    <3>3. out' = out
      BY <1>6, <2>1, <2>3 DEF Writes
    <3>4. \E P, Q, m : Split(call, P, Q, m, count + 1)
      BY <3>2
    <3>5. count + 1 >= count' /\ remaining' \in U /\ count' \in Nat
      BY <1>2, <1>5, <2>2
    <3> QED
      BY <1>0, <1>1, <2>2, <2>3, <3>3, <3>4, <3>5, FirstPassEnds
  <2>4. CASE pass = 2
    <3>1. PICK R, N, m : Split(call, R, N, m, required) /\ i <= m /\ R[i] = remaining /\ N[i] = count
      BY <1>0, <2>4, Zenon DEF SplitRuns
    <3>2. i = m
      <4>1. SUFFICES ASSUME i # m PROVE FALSE
        OBVIOUS
      <4>2. i \in 1 .. m - 1
        BY <1>2, <3>1, <4>1 DEF Split
      <4>3. ~HoldsIn(call, i, R[i])
        BY <3>1, <4>2 DEF Split, SplitTrail
      <4> QED
        BY <1>9, <3>1, <4>3 DEF last
    <3>3. required = count + 1
      BY <3>1, <3>2 DEF Split
    <3> DEFINE e == ExtentIn(call, i, remaining, GapOf(call))
    <3>4. out' = [out EXCEPT ![count + 1] = e]
      BY <1>6, <1>9, <2>1, <2>4 DEF Writes
    <3>5. /\ e \in Entry /\ e.allocated_units > 0 /\ e.gap_after_units = GapOf(call)
          /\ Aligned(e.first_unit, call.object.alignment_units) /\ In(e, call.free[i])
          /\ call.free[i].first_unit <= e.first_unit
      BY <1>0, <1>1, <1>5, <2>1, ExtentLies
    <3> HIDE DEF e
    <3>6. count + 1 <= call.capacity
      BY <1>1, <1>2, <2>4, <3>3
    <3>7. /\ out' \in [1 .. call.capacity -> Entry] /\ out'[count + 1] = e
          /\ \A j \in 1 .. count : Data(call, out'[j]) /\ End(out'[j]) <= out'[j + 1].first_unit
      <4>1. Plannable(call) /\ i \in DOMAIN call.free /\ Ordered(call, out, count, i)
        BY <1>0, <1>1, <2>4
      <4>2. count \in Nat /\ call.capacity \in Nat /\ out \in [1 .. call.capacity -> Entry]
        BY <1>2
      <4>3. /\ out' \in [1 .. call.capacity -> Entry] /\ out'[count + 1] = e
            /\ \A j \in 1 .. count : out'[j] = out[j]
        BY <3>4, <3>5, <3>6, <4>2
      <4> QED
        BY <3>5, <3>6, <4>1, <4>2, <4>3, OrderedAppend, ZenonT(60)
    <3>8. required - 1 = count /\ required \in 1 .. call.capacity /\ count' <= call.capacity
      BY <1>1, <1>2, <2>2, <2>4, <3>3, <3>6
    <3>9. remaining' \in U /\ count' \in Nat /\ ExtentPassEnds(required)
      BY <1>2, <1>5, <2>2, <3>3
    <3>10. \A k \in 1 .. required - 1 : Data(call, out'[k]) /\ End(out'[k]) <= out'[k + 1].first_unit
      BY <3>7, <3>8
    <3>11. /\ out'[required].allocated_units > 0 /\ out'[required].gap_after_units = GapOf(call)
           /\ Aligned(out'[required].first_unit, call.object.alignment_units)
           /\ \E j \in DOMAIN call.free : In(out'[required], call.free[j])
      BY <1>0, <3>3, <3>5, <3>7
    <3> QED
      BY <1>0, <1>1, <2>4, <3>7, <3>8, <3>9, <3>10, <3>11, SecondPassEnds
  <2> QED
    BY <1>2, <2>3, <2>4
<1> QED
  BY <1>8, <1>9

(* Every range was looked at: only the first pass can come here. *)
LEMMA SplitEnd ==
  ASSUME Common, ExtentsRun, SplitRuns, Counted, SplitEnds
  PROVE  Common' /\ ExtentsPart' /\ Counted'
<1> DEFINE n == Len(call.free)
<1>0. /\ call' = call /\ pass' = pass /\ cursor' = cursor /\ previous' = previous /\ remaining' = remaining
      /\ count' = count /\ out' = out /\ written' = written /\ pc = "split" /\ pc' = "done" /\ i = n + 1
      /\ status' = IF pass = 1 THEN "NO_SPACE" ELSE "INVALID"
  BY DEF SplitEnds, locals, Stop
<1>1. Plannable(call) /\ pass \in {1, 2} /\ call.kind = "extents" /\ call.kind # "layout"
  BY <1>0, KindOf DEF ExtentsRun, Common, Shape
<1>2. pass = 1
  <2> SUFFICES ASSUME pass = 2 PROVE FALSE
    BY <1>1
  <2>1. PICK R, N, m : Split(call, R, N, m, required) /\ i <= m
    BY <1>0, Zenon DEF SplitRuns
  <2> QED
    BY <1>0, <1>1, <2>1, RangeTypes DEF Split
<1>3. Shape' /\ Quiet'
  BY <1>0, <1>1, <1>2 DEF Common, Shape, Quiet
<1>4. ExtentsRun' /\ SingleRuns' /\ SplitRuns' /\ ExtentsSound' /\ Counted'
  BY <1>0, <1>1, <1>2 DEF ExtentsRun, SingleRuns, SplitRuns, ExtentsSound, Counted
<1> QED
  BY <1>3, <1>4 DEF Common, ExtentsPart

-----------------------------------------------------------------------------
(* The theorems *)

LEMMA InductiveInit == Init => Inductive
<1> SUFFICES ASSUME Init PROVE Inductive
  OBVIOUS
<1>1. /\ call \in Calls /\ pc = "start" /\ pass = 1 /\ cursor = 0 /\ previous = 0 /\ remaining = 0 /\ count = 0
      /\ written = 0 /\ status = "none" /\ out = [k \in 1 .. Slots(call) |-> Untouched]
  BY DEF Init, Slots
<1>2. Untouched \in Entry /\ 0 \in U
  BY UnitsAreNat DEF Untouched, Entry
<1>3. out \in [1 .. Slots(call) -> Entry]
  BY <1>1, <1>2
<1>4. Shape
  BY <1>1, <1>2, <1>3 DEF Shape
<1>5. Quiet
  BY <1>1 DEF Quiet
<1> QED
  BY <1>1, <1>4, <1>5
     DEF Inductive, Common, LayoutPart, LayoutRuns, LayoutDone, ExtentsPart, ExtentsRun, SingleRuns, SplitRuns,
         ExtentsSound, Counted

LEMMA InductiveStep == Inductive /\ [Next]_vars => Inductive'
<1> SUFFICES ASSUME Inductive, [Next]_vars PROVE Inductive'
  OBVIOUS
<1>0. /\ Common /\ Shape /\ LayoutRuns /\ LayoutDone /\ ExtentsRun /\ SingleRuns /\ SplitRuns /\ ExtentsSound
      /\ Counted
  BY DEF Inductive, Common, LayoutPart, ExtentsPart
<1>1. CASE StartLayout \/ LayoutTurn \/ LayoutPassEnds
  <2>1. Common' /\ LayoutRuns' /\ LayoutDone'
    BY <1>0, <1>1, LayoutStarts, LayoutTurns, LayoutEnds
  <2>2. call' = call /\ count' = count /\ call.kind = "layout" /\ call.kind # "extents"
    <3>1. call' = call /\ count' = count /\ (pc = "layout" \/ call.kind = "layout")
      BY <1>1 DEF StartLayout, LayoutTurn, LayoutPassEnds
    <3> QED
      BY <1>0, <3>1, KindOf
  <2>3. pc' \notin {"single", "split"}
    BY <2>1, <2>2 DEF Common, Shape
  <2>4. ExtentsPart'
    BY <2>2, <2>3 DEF ExtentsPart, ExtentsRun, SingleRuns, SplitRuns, ExtentsSound
  <2>5. Counted'
    <3>1. count = 0
      BY <1>0, <2>2 DEF Counted
    <3>2. Slots(call) \in Nat
      BY <1>0, CallTypes DEF Slots
    <3> QED
      BY <2>2, <3>1, <3>2 DEF Counted
  <2> QED
    BY <2>1, <2>4, <2>5 DEF Inductive, LayoutPart
<1>2. CASE StartExtents \/ SingleTurn \/ SingleEnds \/ SplitTurn \/ SplitEnds
  <2>1. Common' /\ ExtentsPart' /\ Counted'
    BY <1>0, <1>2, ExtentsStart, SingleTurns, SingleEnd, SplitTurns, SplitEnd
  <2>2. call' = call /\ call.kind = "extents" /\ call.kind # "layout"
    <3>1. call' = call /\ (pc \in {"single", "split"} \/ call.kind = "extents")
      BY <1>2 DEF StartExtents, SingleTurn, SingleEnds, SplitTurn, SplitEnds
    <3> QED
      BY <1>0, <3>1, KindOf
  <2>3. pc' # "layout"
    BY <2>1, <2>2 DEF Common, Shape
  <2> QED
    BY <2>1, <2>2, <2>3 DEF Inductive, LayoutPart, LayoutRuns, LayoutDone
<1>3. CASE UNCHANGED vars
  <2>1. /\ call' = call /\ pc' = pc /\ pass' = pass /\ i' = i /\ cursor' = cursor /\ previous' = previous
        /\ remaining' = remaining /\ count' = count /\ required' = required /\ out' = out /\ written' = written
        /\ status' = status
    BY <1>3 DEF vars
  <2>2. Common'
    BY <1>0, <2>1 DEF Common, Shape, Quiet
  <2>3. LayoutPart'
    BY <1>0, <2>1 DEF LayoutPart, LayoutRuns, LayoutDone
  <2>4. ExtentsRun' /\ SingleRuns' /\ SplitRuns' /\ Counted'
    BY <1>0, <2>1 DEF ExtentsRun, SingleRuns, SplitRuns, Counted
  <2>5. ExtentsSound'
    BY <1>0, <2>1 DEF ExtentsSound, Extents, IsReserve
  <2> QED
    BY <2>2, <2>3, <2>4, <2>5 DEF Inductive, ExtentsPart
<1> QED
  BY <1>1, <1>2, <1>3 DEF Next, Returned

(* Every reachable state of the planners satisfies the inductive invariant. *)
THEOREM PlannerInvariance == Spec => []Inductive
<1> QED
  BY InductiveInit, InductiveStep, PTL DEF Spec

(* The locals of layout_pass and plan_file_extent_pass stay uint64_t values    *)
(* and the second pass stays inside the caller's array, whatever the width and *)
(* however near the arguments are to UINT64_MAX.                               *)
THEOREM PlannerTypes == Spec => []TypeOK
<1>1. Inductive => TypeOK
  <2> SUFFICES ASSUME Inductive PROVE TypeOK
    OBVIOUS
  <2>1. Shape /\ Counted
    BY DEF Inductive, Common
  <2>2. Slots(call) \in Nat
    BY <2>1, CallTypes DEF Slots
  <2>3. out \in Seq(Entry) /\ DOMAIN out = 1 .. Slots(call)
    BY <2>1, <2>2 DEF Shape
  <2>4. Len(out) = Slots(call)
    BY <2>2, <2>3
  <2>5. \A k \in DOMAIN out : out[k].first_unit \in U /\ out[k].gap_after_units \in U
    BY <2>1 DEF Shape, Entry
  <2>6. pc \in {"start", "layout", "single", "split", "done"} /\ pass \in {1, 2}
    BY <2>1 DEF Shape
  <2>7. cursor \in U /\ previous \in U /\ remaining \in U /\ count \in Nat
    BY <2>1 DEF Shape
  <2>8. Writes /\ pc # "start" => count <= Len(out)
    BY <2>1, <2>4 DEF Counted, Writes
  <2> QED
    BY <2>5, <2>6, <2>7, <2>8 DEF TypeOK
<1> QED
  BY <1>1, PlannerInvariance, PTL

(* A planner that fails leaves *written and every element of the caller's      *)
(* array as they were: only the first pass of either one can fail.             *)
THEOREM PlannersFailUntouched == Spec => []FailureUntouched
<1>1. Inductive => FailureUntouched
  BY DEF Inductive, Common, Shape, Quiet, FailureUntouched
<1> QED
  BY <1>1, PlannerInvariance, PTL

(* A plan that follows a trail is a sound layout. *)
LEMMA TrailSound ==
  ASSUME Shape, LayoutDone
  PROVE  LayoutSound
<1> SUFFICES ASSUME pc = "done", status = "OK", call.kind = "layout", NEW k \in DOMAIN out
             PROVE  /\ out[k].object_id = call.objects[k].object_id
                    /\ out[k].allocated_units = call.objects[k].allocated_units
                    /\ Aligned(out[k].first_unit, call.objects[k].alignment_units)
                    /\ IsReserve(out[k].gap_after_units, out[k].allocated_units)
                    /\ out[k].first_unit >= call.first_unit
                    /\ out[k].first_unit + out[k].allocated_units + out[k].gap_after_units <= call.limit_unit
                    /\ k > 1 => out[k - 1].first_unit + out[k - 1].allocated_units
                                  + out[k - 1].gap_after_units <= out[k].first_unit
  BY DEF LayoutSound
<1> DEFINE n == Len(call.objects)
           o == call.objects[k]
<1>1. Admissible(call)
  BY Zenon DEF LayoutDone
<1>2. PICK C : Trail(call, C, n + 1) /\ Written(call, C, out, n + 1)
  BY Zenon DEF LayoutDone
<1>3. n \in Nat /\ DOMAIN call.objects = 1 .. n /\ DOMAIN out = 1 .. n
  BY CallTypes DEF Shape, Slots
<1>4. k \in 1 .. n /\ k \in 1 .. (n + 1) - 1 /\ k \in DOMAIN call.objects /\ k \in 1 .. n + 1
  BY <1>3
<1>5. C[k] \in U /\ call.first_unit <= C[k] /\ Passes(call, k, C[k]) /\ out[k] = Placed(call, k, C[k])
  BY <1>2, <1>4 DEF Trail, Written
<1>6. /\ out[k].object_id = o.object_id /\ out[k].allocated_units = o.allocated_units
      /\ out[k].first_unit = StartAt(C[k], o) /\ out[k].gap_after_units = ReserveOf(call, o)
  BY <1>5 DEF Placed
<1>7. StartAt(C[k], o) \in U /\ C[k] <= StartAt(C[k], o)
  BY <1>1, <1>4, <1>5, PassesAdvance
<1>8. /\ o \in Object /\ o.allocated_units \in Nat /\ o.alignment_units \in U \ {0} /\ call.first_unit \in U
  BY <1>1, <1>4, <1>5, ObjectTypes DEF Admissible, Passes
<1>9. Aligned(out[k].first_unit, o.alignment_units)
  BY <1>5, <1>6, <1>7, <1>8, PaddedAligned DEF StartAt
<1>10. IsReserve(out[k].gap_after_units, out[k].allocated_units)
  <2>1. ReserveOf(call, o) \in U /\ call.growth_percent \in {0, 10} /\ Unrepresentable \notin U
    BY <1>1, <1>5 DEF Passes, Admissible, Unrepresentable, U
  <2>2. IF call.growth_percent = 0 THEN ReserveOf(call, o) = 0
        ELSE 10 * ReserveOf(call, o) >= o.allocated_units /\ 10 * ReserveOf(call, o) < o.allocated_units + 10
    BY <1>8, <2>1, ReserveOfObject
  <2> QED
    BY <1>6, <2>2 DEF IsReserve
<1>11. out[k].first_unit >= call.first_unit
  <2>1. C[k] \in Nat /\ StartAt(C[k], o) \in Nat /\ call.first_unit \in Nat
    BY <1>5, <1>7, <1>8, UnitsAreNat
  <2> QED
    BY <1>5, <1>6, <1>7, <2>1
<1>12. out[k].first_unit + out[k].allocated_units + out[k].gap_after_units <= call.limit_unit
  BY <1>5, <1>6 DEF Passes, After
<1>13. ASSUME k > 1
       PROVE  out[k - 1].first_unit + out[k - 1].allocated_units + out[k - 1].gap_after_units <= out[k].first_unit
  <2>1. k - 1 \in 1 .. (n + 1) - 1 /\ (k - 1) + 1 = k
    BY <1>3, <1>4, <1>13
  <2>2. out[k - 1] = Placed(call, k - 1, C[k - 1]) /\ C[k] = After(call, C[k - 1], call.objects[k - 1])
    BY <1>2, <2>1 DEF Trail, Written
  <2>3. out[k - 1].first_unit + out[k - 1].allocated_units + out[k - 1].gap_after_units = C[k]
    BY <2>2 DEF Placed, After
  <2> QED
    BY <1>6, <1>7, <2>3
<1> QED
  BY <1>6, <1>9, <1>10, <1>11, <1>12, <1>13

(* Whatever either planner returns can be carried out: aligned, in order,      *)
(* disjoint, inside the region or the free ranges, with the reserve where it   *)
(* belongs, for every number of objects and ranges.                            *)
THEOREM PlansAreSound == Spec => []PlanSound
<1>1. Inductive => PlanSound
  BY TrailSound DEF Inductive, Common, LayoutPart, ExtentsPart, PlanSound
<1> QED
  BY <1>1, PlannerInvariance, PTL

-----------------------------------------------------------------------------
(* Sums *)

(* What Together counts, and that it is finite. *)
Heaps(size, n) == UNION {{k} \X (1 .. size[k]) : k \in 1 .. n}

LEMMA HeapsMembers ==
  ASSUME NEW size, NEW n
  PROVE  \A p : p \in Heaps(size, n) <=> \E k \in 1 .. n : \E u \in 1 .. size[k] : p = <<k, u>>
<1>1. \A p, k : p \in {k} \X (1 .. size[k]) <=> \E u \in 1 .. size[k] : p = <<k, u>>
  OBVIOUS
<1>2. \A p : p \in Heaps(size, n) <=> \E k \in 1 .. n : p \in {k} \X (1 .. size[k])
  BY DEF Heaps
<1> QED
  BY <1>1, <1>2

LEMMA HeapsFinite ==
  ASSUME NEW n \in Nat, NEW size, \A k \in 1 .. n : size[k] \in U
  PROVE  IsFiniteSet(Heaps(size, n))
<1> DEFINE box == (1 .. n) \X (1 .. MaxU)
<1>0. MaxU \in Nat
  BY WidthAssumption
<1>1. IsFiniteSet(box)
  <2>1. IsFiniteSet(1 .. n) /\ IsFiniteSet(1 .. MaxU)
    BY <1>0, FS_Interval
  <2> QED
    BY <2>1, FS_Product
<1>2. \A k \in 1 .. n : \A u \in 1 .. size[k] : u \in 1 .. MaxU
  BY <1>0 DEF U
<1>3. Heaps(size, n) \subseteq box
  BY <1>2, HeapsMembers
<1> QED
  BY <1>1, <1>3, FS_Subset

LEMMA TogetherNone == ASSUME NEW size PROVE Together(size, 0) = 0
<1>1. 1 .. 0 = {}
  OBVIOUS
<1>2. (UNION {{k} \X (1 .. size[k]) : k \in 1 .. 0}) = {}
  BY <1>1
<1> QED
  BY <1>2, FS_EmptySet DEF Together

LEMMA TogetherNat ==
  ASSUME NEW n \in Nat, NEW size, \A k \in 1 .. n : size[k] \in U
  PROVE  Together(size, n) \in Nat
  BY HeapsFinite, FS_CardinalityType DEF Together, Heaps

LEMMA CountUp == ASSUME NEW m \in Nat PROVE IsFiniteSet(1 .. m) /\ Cardinality(1 .. m) = m
<1>1. 1 \in Int /\ m \in Int
  OBVIOUS
<1>2. IsFiniteSet(1 .. m) /\ Cardinality(1 .. m) = IF 1 > m THEN 0 ELSE m - 1 + 1
  BY <1>1, FS_Interval
<1>3. (IF 1 > m THEN 0 ELSE m - 1 + 1) = m
  OBVIOUS
<1> QED
  BY <1>2, <1>3

(* One more heap adds its units. *)
LEMMA TogetherMore ==
  ASSUME NEW n \in Nat, NEW size, \A k \in 1 .. n + 1 : size[k] \in U
  PROVE  Together(size, n + 1) = Together(size, n) + size[n + 1]
<1> DEFINE last == {n + 1} \X (1 .. size[n + 1])
<1>0. size[n + 1] \in Nat /\ \A k \in 1 .. n : size[k] \in U
  <2>1. n + 1 \in 1 .. n + 1 /\ \A k \in 1 .. n : k \in 1 .. n + 1
    OBVIOUS
  <2> QED
    BY <2>1, UnitsAreNat
<1>1. Heaps(size, n + 1) = Heaps(size, n) \cup last
  <2>1. 1 .. n + 1 = (1 .. n) \cup {n + 1}
    OBVIOUS
  <2>2. \A p : p \in last <=> \E u \in 1 .. size[n + 1] : p = <<n + 1, u>>
    OBVIOUS
  <2> HIDE DEF last
  <2>3. \A p : p \in Heaps(size, n + 1) <=> p \in Heaps(size, n) \cup last
    BY <2>1, <2>2, HeapsMembers
  <2> QED
    BY <2>3
<1>2. Heaps(size, n) \cap last = {}
  <2>1. \A p \in Heaps(size, n) : p[1] \in 1 .. n
    BY HeapsMembers
  <2>2. \A p \in last : p[1] = n + 1
    OBVIOUS
  <2> QED
    BY <2>1, <2>2
<1>3. IsFiniteSet(last) /\ Cardinality(last) = size[n + 1]
  <2>1. IsFiniteSet({n + 1}) /\ Cardinality({n + 1}) = 1
    BY FS_Singleton
  <2>2. IsFiniteSet(1 .. size[n + 1]) /\ Cardinality(1 .. size[n + 1]) = size[n + 1]
    BY <1>0, CountUp
  <2>3. IsFiniteSet(last) /\ Cardinality(last) = 1 * size[n + 1]
    BY <2>1, <2>2, FS_Product, ZenonT(60)
  <2> QED
    BY <1>0, <2>3
<1>4. IsFiniteSet(Heaps(size, n))
  BY <1>0, HeapsFinite
<1>5. Cardinality(Heaps(size, n) \cup last) = Cardinality(Heaps(size, n)) + Cardinality(last) - Cardinality({})
  <2> HIDE DEF last
  <2> QED
    BY <1>2, <1>3, <1>4, FS_Union
<1>6. Cardinality(Heaps(size, n)) \in Nat /\ Cardinality({}) = 0
  BY <1>4, FS_CardinalityType, FS_EmptySet
<1> HIDE DEF last
<1>7. Cardinality(Heaps(size, n + 1)) = Cardinality(Heaps(size, n)) + size[n + 1]
  <2>1. Cardinality(Heaps(size, n + 1)) = Cardinality(Heaps(size, n)) + size[n + 1] - 0
    BY <1>1, <1>3, <1>5, <1>6
  <2> QED
    BY <1>0, <1>6, <2>1
<1> QED
  BY <1>7 DEF Together, Heaps

(* Only the first n sizes count. *)
LEMMA TogetherSame ==
  ASSUME NEW n, NEW a, NEW b, \A k \in 1 .. n : a[k] = b[k]
  PROVE  Together(a, n) = Together(b, n)
<1>1. {{k} \X (1 .. a[k]) : k \in 1 .. n} = {{k} \X (1 .. b[k]) : k \in 1 .. n}
  OBVIOUS
<1> QED
  BY <1>1, Zenon DEF Together

-----------------------------------------------------------------------------
(* The units planned.  A second inductive invariant on top of the first: how   *)
(* much remains before range i, and why no range before it could be the last.  *)

Sizes(a) == [k \in DOMAIN a |-> a[k].allocated_units]
Room(c) == [k \in DOMAIN c.free |-> CapacityOf(c, k)]
UnitsOf(c) == c.object.allocated_units

(* The file can end in range last with so many of its units there. *)
Suits(c, last, units) == /\ units + GapOf(c) <= CapacityOf(c, last)
                         /\ UnitsOf(c) - units <= Together(Room(c), last - 1)
NoneSuits(c, m) == \A last \in 1 .. m - 1 : \A units \in 1 .. UnitsOf(c) : ~Suits(c, last, units)

(* What remains behind ranges with s units of room: all that did not fit, but  *)
(* at least the unit that is kept for the extent with the reserve.             *)
Behind(c, rest, s) == rest + s = UnitsOf(c) \/ (rest = 1 /\ UnitsOf(c) <= s + 1)

Amounts ==
  pc = "split" =>
    /\ Behind(call, remaining, Together(Room(call), i - 1)) /\ NoneSuits(call, i)
    /\ pass = 2 => Together(Sizes(out), count) + remaining = UnitsOf(call)

Complete == Amounts /\ WholeFile /\ NoSpaceIsTrue

(* The room in the ranges before range k. *)
LEMMA RoomFacts ==
  ASSUME NEW c, Plannable(c), NEW k \in 0 .. Len(c.free)
  PROVE  /\ Together(Room(c), k) \in Nat
         /\ k # Len(c.free) => Together(Room(c), k + 1) = Together(Room(c), k) + CapacityOf(c, k + 1)
<1>0. DOMAIN c.free = 1 .. Len(c.free) /\ Len(c.free) \in Nat /\ k \in Nat /\ MaxU \in Nat
  BY RangeTypes, UnitsAreNat
<1>1. ASSUME NEW j \in 1 .. Len(c.free) PROVE Room(c)[j] = CapacityOf(c, j) /\ Room(c)[j] \in U
  <2>1. Room(c)[j] = CapacityOf(c, j)
    BY <1>0 DEF Room
  <2>2. /\ CapacityOf(c, j) \in Nat /\ FirstOf(c, j) \in Nat /\ FirstOf(c, j) + CapacityOf(c, j) <= End(c.free[j])
        /\ End(c.free[j]) <= MaxU
    BY <1>0, RangeUsable, RangeTypes, UnitsAreNat
  <2>3. End(c.free[j]) \in Nat
    <3>1. c.free[j].first_unit \in Nat /\ c.free[j].allocated_units \in Nat
      BY <1>0, RangeTypes
    <3> QED
      BY <3>1, SMTT(30) DEF End
  <2>4. CapacityOf(c, j) \in U
    BY <1>0, <2>2, <2>3 DEF U
  <2> QED
    BY <2>1, <2>4
<1>2. \A j \in 1 .. k : Room(c)[j] \in U
  BY <1>0, <1>1
<1>3. Together(Room(c), k) \in Nat
  BY <1>0, <1>2, TogetherNat
<1>4. ASSUME k # Len(c.free) PROVE Together(Room(c), k + 1) = Together(Room(c), k) + CapacityOf(c, k + 1)
  <2>1. k + 1 \in 1 .. Len(c.free) /\ \A j \in 1 .. k + 1 : j \in 1 .. Len(c.free)
    BY <1>0, <1>4
  <2> QED
    BY <1>0, <1>1, <2>1, TogetherMore
<1> QED
  BY <1>3, <1>4

(* The arithmetic of a turn: a range that does not hold what remains cannot be *)
(* the last one, and what remains behind it is again as stated.                *)
LEMMA TurnArithmetic ==
  ASSUME NEW units \in Nat, NEW rest \in Nat, rest # 0, NEW s \in Nat, NEW room \in Nat, NEW gap \in Nat,
         NEW t, rest + s = units \/ (rest = 1 /\ units <= s + 1),
         ~(rest <= room /\ gap <= room - rest),
         t = IF room < rest THEN room ELSE rest - 1
  PROVE  /\ (rest - t) + (s + room) = units \/ (rest - t = 1 /\ units <= (s + room) + 1)
         /\ \A u \in 1 .. units : ~(u + gap <= room /\ units - u <= s)
  OBVIOUS

LEMMA SplitAdvances ==
  ASSUME NEW c, Plannable(c), NEW k \in DOMAIN c.free, NEW rest \in U, rest # 0,
         Behind(c, rest, Together(Room(c), k - 1)), NoneSuits(c, k), ~HoldsIn(c, k, rest)
  PROVE  Behind(c, rest - TakeIn(c, k, rest), Together(Room(c), k)) /\ NoneSuits(c, k + 1)
<1> DEFINE s == Together(Room(c), k - 1)
<1>0. k \in 1 .. Len(c.free) /\ Len(c.free) \in Nat /\ k - 1 \in 0 .. Len(c.free) /\ k - 1 # Len(c.free)
      /\ (k - 1) + 1 = k
  BY RangeTypes
<1>1. UnitsOf(c) \in Nat /\ rest \in Nat /\ GapOf(c) \in Nat /\ CapacityOf(c, k) \in Nat
  BY RangeTypes, RangeUsable, UnitsAreNat DEF UnitsOf
<1>2. s \in Nat /\ Together(Room(c), k) = s + CapacityOf(c, k)
  BY <1>0, RoomFacts
<1>3. TakeIn(c, k, rest) = IF CapacityOf(c, k) < rest THEN CapacityOf(c, k) ELSE rest - 1
  BY DEF TakeIn
<1>4. ~(rest <= CapacityOf(c, k) /\ GapOf(c) <= CapacityOf(c, k) - rest)
  BY DEF HoldsIn
<1>5. rest + s = UnitsOf(c) \/ (rest = 1 /\ UnitsOf(c) <= s + 1)
  BY DEF Behind
<1> HIDE DEF s
<1>6. /\ \/ (rest - TakeIn(c, k, rest)) + (s + CapacityOf(c, k)) = UnitsOf(c)
         \/ rest - TakeIn(c, k, rest) = 1 /\ UnitsOf(c) <= (s + CapacityOf(c, k)) + 1
      /\ \A u \in 1 .. UnitsOf(c) : ~(u + GapOf(c) <= CapacityOf(c, k) /\ UnitsOf(c) - u <= s)
  BY <1>1, <1>2, <1>3, <1>4, <1>5, TurnArithmetic
<1>7. Behind(c, rest - TakeIn(c, k, rest), Together(Room(c), k))
  BY <1>2, <1>6 DEF Behind
<1>8. \A u \in 1 .. UnitsOf(c) : ~Suits(c, k, u)
  BY <1>6 DEF Suits, s
<1>9. ASSUME NEW last \in 1 .. (k + 1) - 1, NEW u \in 1 .. UnitsOf(c) PROVE ~Suits(c, last, u)
  <2>1. CASE last = k
    BY <1>8, <2>1
  <2>2. CASE last # k
    <3>1. last \in 1 .. k - 1
      BY <1>0, <2>2
    <3> QED
      BY <3>1 DEF NoneSuits
  <2> QED
    BY <2>1, <2>2
<1> QED
  BY <1>7, <1>9 DEF NoneSuits

(* An extent appended to the array adds its units. *)
LEMMA AppendAdds ==
  ASSUME NEW m \in Nat, NEW a \in [1 .. m -> Entry], NEW n \in Nat, n + 1 <= m, NEW e \in Entry,
         NEW b, b = [a EXCEPT ![n + 1] = e]
  PROVE  Together(Sizes(b), n + 1) = Together(Sizes(a), n) + e.allocated_units
<1>1. /\ DOMAIN a = 1 .. m /\ DOMAIN b = 1 .. m /\ n + 1 \in 1 .. m /\ b[n + 1] = e
      /\ \A k \in 1 .. m : b[k] \in Entry
      /\ \A k \in 1 .. n : k \in 1 .. m /\ b[k] = a[k]
  OBVIOUS
<1>2. \A k \in 1 .. m : Sizes(b)[k] = b[k].allocated_units /\ Sizes(a)[k] = a[k].allocated_units
  BY <1>1 DEF Sizes
<1>3. \A k \in 1 .. n + 1 : Sizes(b)[k] \in U
  <2> SUFFICES ASSUME NEW k \in 1 .. n + 1 PROVE Sizes(b)[k] \in U
    OBVIOUS
  <2>1. k \in 1 .. m
    OBVIOUS
  <2>2. b[k] \in Entry
    BY <1>1, <2>1
  <2>3. b[k].allocated_units \in U
    BY <2>2 DEF Entry
  <2> QED
    BY <1>2, <2>1, <2>3
<1>4. Together(Sizes(b), n + 1) = Together(Sizes(b), n) + Sizes(b)[n + 1]
  BY <1>3, TogetherMore
<1>5. \A k \in 1 .. n : Sizes(b)[k] = Sizes(a)[k]
  BY <1>1, <1>2
<1>6. Together(Sizes(b), n) = Together(Sizes(a), n)
  BY <1>5, TogetherSame
<1> QED
  BY <1>1, <1>2, <1>4, <1>6

(* How a pass of plan_file_extent_pass ends with n extents. *)
LEMMA PassEnds ==
  ASSUME NEW n, ExtentPassEnds(n), pass \in {1, 2}
  PROVE  /\ pc' \in {"single", "done"}
         /\ pc' = "done" => status' # "NO_SPACE"
         /\ pc' = "done" /\ status' = "OK" => pass = 2 /\ n = required /\ written' = n
<1>1. CASE pass = 1 /\ n > call.capacity
  <2>1. pc' = "done" /\ status' = "OUTPUT_TOO_SMALL"
    BY <1>1, Zenon DEF ExtentPassEnds, Stop
  <2> QED
    BY <2>1
<1>2. CASE pass = 1 /\ ~(n > call.capacity)
  <2>1. pc' = "single"
    BY <1>2, Zenon DEF ExtentPassEnds
  <2> QED
    BY <2>1
<1>3. CASE pass = 2 /\ n # required
  <2>0. pass # 1
    BY <1>3
  <2>1. pc' = "done" /\ status' = "INVALID"
    BY <1>3, <2>0, Zenon DEF ExtentPassEnds, Stop
  <2> QED
    BY <2>1
<1>4. CASE pass = 2 /\ n = required
  <2>0. pass # 1
    BY <1>4
  <2>1. pc' = "done" /\ status' = "OK" /\ written' = n
    BY <1>4, <2>0, Zenon DEF ExtentPassEnds, Stop
  <2> QED
    BY <1>4, <2>1
<1> QED
  BY <1>1, <1>2, <1>3, <1>4

(* In the words of the proofs: which ranges hold the file whole. *)
LEMMA WholeRanges ==
  ASSUME NEW c, Plannable(c), NEW k \in DOMAIN c.free
  PROVE  UnitsOf(c) + GapOf(c) <= CapacityOf(c, k) <=> HoldsIn(c, k, UnitsOf(c))
<1>1. UnitsOf(c) \in Nat /\ GapOf(c) \in Nat /\ CapacityOf(c, k) \in Nat
  BY RangeTypes, RangeUsable, UnitsAreNat DEF UnitsOf
<1> QED
  BY <1>1 DEF HoldsIn

(* What the second pass leaves when it ends well. *)
LEMMA WholeFileFrom ==
  ASSUME call' = call, Plannable(call), NEW n \in Nat, written' = n,
         n <= call.capacity, out' \in [1 .. call.capacity -> Entry],
         Together(Sizes(out'), n) = UnitsOf(call),
         \/ NoneHolds(call, Len(call.free) + 1)
         \/ /\ n = 1
            /\ \E k \in DOMAIN call.free : /\ HoldsIn(call, k, UnitsOf(call)) /\ NoneHolds(call, k)
                                           /\ out'[1].first_unit = FirstOf(call, k)
  PROVE  WholeFile'
<1> DEFINE whole == {k \in DOMAIN call.free : UnitsOf(call) + GapOf(call) <= CapacityOf(call, k)}
<1>0. DOMAIN call.free = 1 .. Len(call.free) /\ Len(call.free) \in Nat /\ call.capacity \in Nat
  BY RangeTypes
<1>1. whole = {k \in DOMAIN call.free : HoldsIn(call, k, UnitsOf(call))}
  BY WholeRanges
<1>2. Together([k \in 1 .. n |-> out'[k].allocated_units], n) = UnitsOf(call)
  <2>1. \A k \in 1 .. n : [j \in 1 .. n |-> out'[j].allocated_units][k] = Sizes(out')[k]
    <3>1. DOMAIN out' = 1 .. call.capacity /\ \A k \in 1 .. n : k \in 1 .. call.capacity
      BY <1>0
    <3> QED
      BY <3>1 DEF Sizes
  <2>2. Together([j \in 1 .. n |-> out'[j].allocated_units], n) = Together(Sizes(out'), n)
    BY <2>1, TogetherSame
  <2> QED
    BY <2>2
<1>3. ASSUME NEW k \in whole, \A j \in whole : k <= j PROVE n = 1 /\ out'[1].first_unit = FirstOf(call, k)
  <2>1. k \in 1 .. Len(call.free) /\ HoldsIn(call, k, UnitsOf(call))
    BY <1>0, <1>1, <1>3
  <2>2. ~NoneHolds(call, Len(call.free) + 1)
    <3>1. k \in 1 .. (Len(call.free) + 1) - 1
      BY <1>0, <2>1
    <3> QED
      BY <2>1, <3>1 DEF NoneHolds, UnitsOf
  <2>3. PICK j \in DOMAIN call.free : /\ n = 1 /\ HoldsIn(call, j, UnitsOf(call)) /\ NoneHolds(call, j)
                                      /\ out'[1].first_unit = FirstOf(call, j)
    BY <2>2
  <2>4. k <= j /\ j \in 1 .. Len(call.free)
    BY <1>0, <1>1, <1>3, <2>3
  <2>5. ~(k < j)
    <3> SUFFICES ASSUME k < j PROVE FALSE
      OBVIOUS
    <3>1. k \in 1 .. j - 1
      BY <1>0, <2>1, <2>4
    <3> QED
      BY <2>1, <2>3, <3>1 DEF NoneHolds, UnitsOf
  <2>6. j = k
    BY <1>0, <2>1, <2>4, <2>5
  <2> QED
    BY <2>3, <2>6
<1>4. /\ Gap' = GapOf(call)
      /\ \A k : Capacity(k)' = CapacityOf(call, k) /\ First(k)' = FirstOf(call, k)
  BY DEF Gap, GapOf, Reserve, ReserveOf, Capacity, CapacityOf, First, FirstOf
<1>5. {k \in DOMAIN call.free : call.object.allocated_units + Gap' <= Capacity(k)'} = whole
  BY <1>4 DEF UnitsOf
<1>6. Extents' = 1 .. n
  BY DEF Extents
<1> HIDE DEF whole
<1> QED
  BY <1>2, <1>3, <1>4, <1>5, <1>6 DEF WholeFile, UnitsOf

(* Outside the split search and the return of extents there is nothing to show. *)
LEMMA NothingPlanned ==
  ASSUME pc' # "split",
         \/ call'.kind # "extents"
         \/ pc' # "done"
         \/ status' # "OK" /\ status' # "NO_SPACE"
  PROVE  Complete'
  BY Zenon DEF Complete, Amounts, WholeFile, NoSpaceIsTrue

LEMMA SingleTurnCompletes ==
  ASSUME Inductive, SingleTurn
  PROVE  Complete'
<1>0. /\ Common /\ Shape /\ ExtentsRun /\ SingleRuns
  BY DEF Inductive, Common, ExtentsPart
<1>1. /\ call' = call /\ pc = "single" /\ i \in DOMAIN call.free
  BY DEF SingleTurn
<1>2. /\ Plannable(call) /\ NoneHolds(call, i) /\ (pass = 2 => required \in 1 .. call.capacity)
  BY <1>0, <1>1 DEF ExtentsRun, SingleRuns
<1>3. /\ Slots(call) = call.capacity /\ pass \in {1, 2} /\ out \in [1 .. call.capacity -> Entry]
      /\ call.capacity \in Nat
  BY <1>0, <1>1, <1>2, KindOf, RangeTypes DEF Shape
<1>4. CASE ~HoldsIn(call, i, UnitsOf(call))
  <2>1. pc' = pc
    BY <1>4, OfTheCall, Zenon DEF SingleTurn, UnitsOf
  <2> QED
    BY <1>1, <2>1, NothingPlanned
<1>5. CASE HoldsIn(call, i, UnitsOf(call))
  <2>1. /\ ExtentPassEnds(1)
        /\ out' = IF Writes THEN [out EXCEPT ![1] = Extent(i, UnitsOf(call), Gap)] ELSE out
    BY <1>5, OfTheCall, Zenon DEF SingleTurn, UnitsOf
  <2>2. pc' \in {"single", "done"} /\ (pc' = "done" => status' # "NO_SPACE")
    BY <1>3, <2>1, PassEnds
  <2>3. CASE pc' = "done" /\ status' = "OK"
    <3> DEFINE e == ExtentIn(call, i, UnitsOf(call), GapOf(call))
    <3>1. pass = 2 /\ required = 1 /\ written' = 1
      BY <1>3, <2>1, <2>3, PassEnds
    <3>2. out' = [out EXCEPT ![0 + 1] = e] /\ 0 + 1 <= call.capacity /\ 1 <= call.capacity
      <4>1. out' = [out EXCEPT ![1] = e]
        BY <2>1, <3>1, OfTheCall DEF Writes
      <4> QED
        BY <1>2, <1>3, <3>1, <4>1
    <3>3. UnitsOf(call) \in Nat /\ UnitsOf(call) # 0 /\ GapOf(call) \in Nat
      BY <1>2, RangeTypes, UnitsAreNat DEF Plannable, UnitsOf
    <3>4. UnitsOf(call) + GapOf(call) <= CapacityOf(call, i)
      BY <1>1, <1>2, <1>5, WholeRanges
    <3>5. e \in Entry
      BY <1>1, <1>2, <3>3, <3>4, ExtentLies
    <3>6. e.allocated_units = UnitsOf(call) /\ e.first_unit = FirstOf(call, i)
      BY DEF ExtentIn
    <3> HIDE DEF e
    <3>7. Together(Sizes(out'), 0 + 1) = Together(Sizes(out), 0) + e.allocated_units
      <4>1. call.capacity \in Nat /\ out \in [1 .. call.capacity -> Entry] /\ 0 \in Nat
        BY <1>3
      <4> QED
        BY <3>2, <3>5, <4>1, AppendAdds, ZenonT(60)
    <3>8. Together(Sizes(out'), 1) = UnitsOf(call)
      <4>1. Together(Sizes(out), 0) = 0
        BY TogetherNone
      <4> QED
        BY <3>3, <3>6, <3>7, <4>1
    <3>9. out'[1] = e /\ out' \in [1 .. call.capacity -> Entry]
      BY <1>3, <3>2, <3>5
    <3>10. WholeFile'
      BY <1>1, <1>2, <1>5, <3>1, <3>2, <3>6, <3>8, <3>9, WholeFileFrom
    <3>11. Amounts' /\ NoSpaceIsTrue'
      BY <2>3 DEF Amounts, NoSpaceIsTrue
    <3> QED
      BY <3>10, <3>11 DEF Complete
  <2>4. CASE ~(pc' = "done" /\ status' = "OK")
    BY <2>2, <2>4, NothingPlanned
  <2> QED
    BY <2>3, <2>4
<1> QED
  BY <1>4, <1>5

LEMMA SingleEndCompletes ==
  ASSUME Inductive, SingleEnds
  PROVE  Complete'
<1>0. ExtentsRun /\ call' = call /\ pc = "single" /\ pc' = "split" /\ i' = 1 /\ count' = 0
      /\ remaining' = UnitsOf(call) /\ out' = out
  BY DEF Inductive, ExtentsPart, SingleEnds, UnitsOf
<1>1. Plannable(call)
  BY <1>0 DEF ExtentsRun
<1>2. UnitsOf(call) \in Nat
  BY <1>1, RangeTypes, UnitsAreNat DEF UnitsOf
<1>3. Together(Room(call), 1 - 1) = 0 /\ Together(Sizes(out), 0) = 0
  BY TogetherNone
<1>4. Behind(call, UnitsOf(call), Together(Room(call), 1 - 1))
  BY <1>2, <1>3 DEF Behind
<1>5. NoneSuits(call, 1)
  BY DEF NoneSuits
<1>6. Together(Sizes(out), 0) + UnitsOf(call) = UnitsOf(call)
  BY <1>2, <1>3
<1>7. Amounts'
  BY <1>0, <1>4, <1>5, <1>6 DEF Amounts
<1> QED
  BY <1>0, <1>7 DEF Complete, WholeFile, NoSpaceIsTrue

LEMMA SplitTurnCompletes ==
  ASSUME Inductive, Complete, SplitTurn
  PROVE  Complete'
<1> DEFINE take == TakeIn(call, i, remaining)
           last == HoldsIn(call, i, remaining)
<1>0. /\ Common /\ Shape /\ ExtentsRun /\ SplitRuns /\ Amounts
  BY DEF Inductive, Common, ExtentsPart, Complete
<1>1. /\ call' = call /\ pc = "split" /\ i \in DOMAIN call.free
  BY DEF SplitTurn
<1>2. /\ Plannable(call) /\ NoneHolds(call, Len(call.free) + 1) /\ remaining # 0
      /\ pass = 2 => required \in 1 .. call.capacity
      /\ Behind(call, remaining, Together(Room(call), i - 1)) /\ NoneSuits(call, i)
      /\ pass = 2 => Together(Sizes(out), count) + remaining = UnitsOf(call)
  BY <1>0, <1>1, Zenon DEF ExtentsRun, SplitRuns, Amounts
<1>3. /\ Slots(call) = call.capacity /\ pass \in {1, 2} /\ out \in [1 .. call.capacity -> Entry]
      /\ call.capacity \in Nat /\ remaining \in U /\ remaining \in Nat /\ count \in Nat
      /\ i \in 1 .. Len(call.free) /\ Len(call.free) \in Nat
  BY <1>0, <1>1, <1>2, KindOf, RangeTypes, UnitsAreNat DEF Shape
<1>4. /\ take \in Nat /\ take <= CapacityOf(call, i)
      /\ last => take = remaining /\ remaining + GapOf(call) <= CapacityOf(call, i)
  BY <1>1, <1>2, <1>3, TakeFacts
<1>5. ASSUME take # 0
      PROVE  /\ count' = count + 1 /\ remaining' = remaining - take
             /\ out' = IF Writes THEN [out EXCEPT ![count + 1] = ExtentIn(call, i, take, IF last THEN GapOf(call) ELSE 0)]
                                 ELSE out
             /\ IF last THEN ExtentPassEnds(count + 1) ELSE i' = i + 1 /\ UNCHANGED <<pc, pass, required, written, status>>
  <2>1. Extent(i, take, IF last THEN GapOf(call) ELSE 0) = ExtentIn(call, i, take, IF last THEN GapOf(call) ELSE 0)
    BY OfTheCall
  <2>2. (Holds(i, remaining) <=> last) /\ Take(i) = take /\ Gap = GapOf(call)
    BY OfTheCall
  <2> HIDE DEF take, last
  <2> QED
    BY <1>5, <2>1, <2>2, Zenon DEF SplitTurn
<1>6. ASSUME take = 0 PROVE i' = i + 1 /\ UNCHANGED <<pc, pass, remaining, count, required, out, written, status>>
  BY <1>6, OfTheCall, Zenon DEF SplitTurn
<1>7. ASSUME take # 0, pass = 2, count + 1 <= call.capacity
      PROVE  /\ out' \in [1 .. call.capacity -> Entry]
             /\ Together(Sizes(out'), count + 1) = Together(Sizes(out), count) + take
  <2> DEFINE gap == IF last THEN GapOf(call) ELSE 0
             e == ExtentIn(call, i, take, gap)
  <2>1. out' = [out EXCEPT ![count + 1] = e]
    BY <1>5, <1>7 DEF Writes
  <2>2. gap \in Nat /\ take + gap <= CapacityOf(call, i)
    <3>1. GapOf(call) \in Nat
      BY <1>2, RangeTypes
    <3>2. CASE last
      BY <1>4, <3>1, <3>2
    <3>3. CASE ~last
      BY <1>4, <3>3
    <3> QED
      BY <3>2, <3>3
  <2> HIDE DEF gap, last, take
  <2>3. e \in Entry
    BY <1>1, <1>2, <1>4, <1>7, <2>2, ExtentLies
  <2>4. e.allocated_units = take
    BY DEF ExtentIn
  <2> HIDE DEF e
  <2>5. Together(Sizes(out'), count + 1) = Together(Sizes(out), count) + e.allocated_units
    <3>1. call.capacity \in Nat /\ out \in [1 .. call.capacity -> Entry] /\ count \in Nat
      BY <1>3
    <3>2. count + 1 <= call.capacity
      BY <1>7
    <3> QED
      BY <2>1, <2>3, <3>1, <3>2, AppendAdds, ZenonT(60)
  <2> QED
    BY <1>3, <2>1, <2>3, <2>4, <2>5
<1>8. pass = 2 => Together(Sizes(out), count) \in Nat
  <2> SUFFICES ASSUME pass = 2 PROVE Together(Sizes(out), count) \in Nat
    OBVIOUS
  <2>1. count <= call.capacity
    BY <1>3 DEF Inductive, Counted
  <2>2. ASSUME NEW k \in 1 .. count PROVE Sizes(out)[k] \in U
    <3>1. k \in 1 .. call.capacity
      BY <1>3, <2>1
    <3>2. out[k] \in Entry /\ Sizes(out)[k] = out[k].allocated_units
      BY <1>3, <3>1 DEF Sizes
    <3> QED
      BY <3>2 DEF Entry
  <2> QED
    BY <1>3, <2>2, TogetherNat
<1>9. CASE ~last
  <2>1. /\ i' = i + 1 /\ pc' = pc /\ pass' = pass
        /\ remaining' = remaining - take
    <3>1. CASE take = 0
      BY <1>3, <1>6, <3>1
    <3>2. CASE take # 0
      BY <1>5, <1>9, <3>2
    <3> QED
      BY <3>1, <3>2
  <2>2. Behind(call, remaining - take, Together(Room(call), i)) /\ NoneSuits(call, i + 1)
    BY <1>1, <1>2, <1>3, <1>9, SplitAdvances
  <2> HIDE DEF take, last
  <2>3. ASSUME pass = 2 PROVE Together(Sizes(out'), count') + remaining' = UnitsOf(call)
    <3>1. CASE take = 0
      BY <1>2, <1>6, <2>3, <3>1
    <3>2. CASE take # 0
      <4>1. count' = count + 1
        BY <1>5, <3>2
      <4>2. count + 1 <= call.capacity
        <5>1. Inductive'
          BY InductiveStep DEF Next
        <5>2. pass' = 2 /\ Slots(call) = call.capacity /\ call' = call
          BY <1>1, <1>3, <2>1, <2>3
        <5> QED
          BY <4>1, <5>1, <5>2 DEF Inductive, Counted
      <4>3. Together(Sizes(out'), count + 1) = Together(Sizes(out), count) + take
        BY <1>7, <2>3, <3>2, <4>2
      <4> QED
        BY <1>2, <1>3, <1>4, <1>8, <2>1, <2>3, <4>1, <4>3
    <3> QED
      BY <3>1, <3>2
  <2>4. i' - 1 = i
    BY <1>3, <2>1
  <2>5. Amounts'
    BY <1>1, <2>1, <2>2, <2>3, <2>4 DEF Amounts
  <2> QED
    BY <1>1, <2>1, <2>5 DEF Complete, WholeFile, NoSpaceIsTrue
<1>10. CASE last
  <2>1. take = remaining /\ take # 0
    BY <1>2, <1>4, <1>10
  <2>2. ExtentPassEnds(count + 1)
    BY <1>5, <1>10, <2>1
  <2>3. pc' \in {"single", "done"} /\ (pc' = "done" => status' # "NO_SPACE")
    BY <1>3, <2>2, PassEnds
  <2>4. CASE pc' = "done" /\ status' = "OK"
    <3>1. pass = 2 /\ required = count + 1 /\ written' = count + 1
      BY <1>3, <2>2, <2>4, PassEnds
    <3>2. count + 1 <= call.capacity /\ count + 1 \in Nat
      BY <1>2, <1>3, <3>1
    <3>3. /\ out' \in [1 .. call.capacity -> Entry]
          /\ Together(Sizes(out'), count + 1) = Together(Sizes(out), count) + take
      BY <1>7, <2>1, <3>1, <3>2
    <3>4. Together(Sizes(out'), count + 1) = UnitsOf(call)
      BY <1>2, <2>1, <3>1, <3>3
    <3>5. WholeFile'
      BY <1>1, <1>2, <3>1, <3>2, <3>3, <3>4, WholeFileFrom
    <3>6. Amounts' /\ NoSpaceIsTrue'
      BY <2>4 DEF Amounts, NoSpaceIsTrue
    <3> QED
      BY <3>5, <3>6 DEF Complete
  <2>5. CASE ~(pc' = "done" /\ status' = "OK")
    BY <2>3, <2>5, NothingPlanned
  <2> QED
    BY <2>4, <2>5
<1> QED
  BY <1>9, <1>10

LEMMA SplitEndCompletes ==
  ASSUME Inductive, Complete, SplitEnds
  PROVE  Complete'
<1>0. /\ Common /\ Shape /\ ExtentsRun /\ Amounts
  BY DEF Inductive, Common, ExtentsPart, Complete
<1>1. /\ call' = call /\ pc = "split" /\ pc' = "done" /\ i = Len(call.free) + 1
      /\ status' = IF pass = 1 THEN "NO_SPACE" ELSE "INVALID"
  BY DEF SplitEnds, Stop
<1>2. Plannable(call) /\ NoneSuits(call, Len(call.free) + 1)
  BY <1>0, <1>1, Zenon DEF ExtentsRun, Amounts
<1>3. DOMAIN call.free = 1 .. Len(call.free) /\ Len(call.free) \in Nat
  BY <1>2, RangeTypes
<1>4. /\ Gap' = GapOf(call) /\ \A k : Capacity(k)' = CapacityOf(call, k)
  BY <1>1 DEF Gap, GapOf, Reserve, ReserveOf, Capacity, CapacityOf
<1>5. [k \in DOMAIN call.free |-> Capacity(k)'] = Room(call)
  BY <1>4 DEF Room
<1>6. ASSUME NEW last \in DOMAIN call.free, NEW units \in 1 .. UnitsOf(call)
      PROVE  ~(units + GapOf(call) <= CapacityOf(call, last) /\ UnitsOf(call) - units <= Together(Room(call), last - 1))
  <2>1. last \in 1 .. (Len(call.free) + 1) - 1
    BY <1>3
  <2> QED
    BY <1>2, <2>1 DEF NoneSuits, Suits
<1>7. NoSpaceIsTrue'
  BY <1>1, <1>4, <1>5, <1>6 DEF NoSpaceIsTrue, UnitsOf
<1>8. WholeFile' /\ Amounts'
  BY <1>1 DEF WholeFile, Amounts
<1> QED
  BY <1>7, <1>8 DEF Complete

LEMMA CompleteStep == Inductive /\ Complete /\ [Next]_vars => Complete'
<1> SUFFICES ASSUME Inductive, Complete, [Next]_vars PROVE Complete'
  OBVIOUS
<1>0. Shape
  BY DEF Inductive, Common
<1>1. CASE StartLayout \/ LayoutTurn \/ LayoutPassEnds
  <2>1. call' = call /\ (pc = "layout" \/ call.kind = "layout")
    BY <1>1 DEF StartLayout, LayoutTurn, LayoutPassEnds
  <2>2. call.kind # "extents" /\ call.kind = "layout"
    BY <1>0, <2>1, KindOf
  <2>3. pc' # "split"
    <3>1. Inductive'
      BY InductiveStep
    <3> QED
      BY <2>1, <2>2, <3>1 DEF Inductive, Common, Shape
  <2> QED
    BY <2>1, <2>2, <2>3, NothingPlanned
<1>2. CASE StartExtents
  <2>1. CASE Unplannable # "OK"
    <3>1. pc' = "done" /\ status' = Unplannable
      BY <1>2, <2>1, Zenon DEF StartExtents, Stop
    <3>2. Unplannable # "NO_SPACE"
      BY DEF Unplannable
    <3> QED
      BY <2>1, <3>1, <3>2, NothingPlanned
  <2>2. CASE Unplannable = "OK"
    <3>1. pc' = "single"
      BY <1>2, <2>2, Zenon DEF StartExtents
    <3> QED
      BY <3>1, NothingPlanned
  <2> QED
    BY <2>1, <2>2
<1>3. CASE SingleTurn
  BY <1>3, SingleTurnCompletes
<1>4. CASE SingleEnds
  BY <1>4, SingleEndCompletes
<1>5. CASE SplitTurn
  BY <1>5, SplitTurnCompletes
<1>6. CASE SplitEnds
  BY <1>6, SplitEndCompletes
<1>7. CASE UNCHANGED vars
  <2>1. UNCHANGED <<call, pc, pass, i, remaining, count, out, written, status>>
    BY <1>7 DEF vars
  <2>2. Gap' = Gap /\ \A k : Capacity(k)' = Capacity(k) /\ First(k)' = First(k)
    BY <2>1 DEF Gap, Reserve, Capacity, First
  <2>3. WholeFile'
    BY <2>1, <2>2 DEF Complete, WholeFile, Extents
  <2>4. NoSpaceIsTrue'
    BY <2>1, <2>2 DEF Complete, NoSpaceIsTrue
  <2>5. Amounts'
    BY <2>1 DEF Complete, Amounts
  <2> QED
    BY <2>3, <2>4, <2>5 DEF Complete
<1> QED
  BY <1>1, <1>2, <1>3, <1>4, <1>5, <1>6, <1>7 DEF Next, Returned

LEMMA CompleteInvariance == Spec => []Complete
<1>1. Init => Complete
  BY DEF Init, Complete, Amounts, WholeFile, NoSpaceIsTrue
<1> QED
  BY <1>1, CompleteStep, PlannerInvariance, PTL DEF Spec

(* The extents that ld_generic_layout_plan_file_extents returns hold exactly   *)
(* the units of the file, and there is one of them, in the earliest range that *)
(* holds the file with its reserve, whenever such a range exists.              *)
THEOREM PlansTheWholeFile == Spec => []WholeFile
<1>1. Complete => WholeFile
  BY DEF Complete
<1> QED
  BY <1>1, CompleteInvariance, PTL

(* When ld_generic_layout_plan_file_extents says NO_SPACE, no choice of        *)
(* ascending free ranges holds the file with its reserve behind its end.       *)
THEOREM NoSpaceIsNoFalseAlarm == Spec => []NoSpaceIsTrue
<1>1. Complete => NoSpaceIsTrue
  BY DEF Complete
<1> QED
  BY <1>1, CompleteInvariance, PTL
=============================================================================
