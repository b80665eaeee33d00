---------------------------- MODULE AllocationMap ----------------------------
(***************************************************************************)
(* How native/map.cpp turns what a worker reports about a volume into the  *)
(* cells of the allocation map.  A range is half open, a list of ranges a  *)
(* sequence in the order the worker sent it.  Text, units of display and   *)
(* byte totals are left out.  An operator that throws yields Error.        *)
(***************************************************************************)
EXTENDS Integers, Sequences, SequencesExt

CONSTANTS
  MaxU,     \* UINT64_MAX
  Error     \* what an exception leaves: no list

R(start, end) == [start |-> start, end |-> end]
Minus(a, b) == (a - b) % (MaxU + 1)      \* unsigned subtraction
Least(a, b) == IF a < b THEN a ELSE b
Most(a, b) == IF a > b THEN a ELSE b

-----------------------------------------------------------------------------
(* cell_boundary: the first unit of cell index, index from 0. *)
cell_boundary(index, total, count) ==
  index * (total \div count) + (index * (total % count)) \div count

(* pair_ranges: every pair lies inside the volume and is not empty. *)
pair_ranges(pairs, total) ==
  IF \E k \in DOMAIN pairs : pairs[k].end <= pairs[k].start \/ pairs[k].end > total
    THEN Error ELSE pairs

Before(r, s) == r.start < s.start \/ (r.start = s.start /\ r.end < s.end)

(* merge_ranges: sorted, then joined where they touch or overlap. *)
merge_ranges(ranges) ==
  FoldLeft(LAMBDA merged, r :
             CASE r.end <= r.start -> merged
               [] r.end > r.start /\ merged # <<>> /\ r.start <= Last(merged).end ->
                    [merged EXCEPT ![Len(merged)].end = Most(@, r.end)]
               [] OTHER -> Append(merged, r),
           <<>>, SortSeq(ranges, Before))

(* complement_ranges: the gaps before, between and behind the merged ranges. *)
complement_ranges(total, occupied) ==
  LET step(s, r) == LET start == Least(total, r.start)
                        end == Least(total, r.end)
                    IN [cursor |-> Most(s.cursor, end),
                        gaps |-> IF start > s.cursor THEN Append(s.gaps, R(s.cursor, start))
                                                     ELSE s.gaps]
      s == FoldLeft(step, [cursor |-> 0, gaps |-> <<>>], merge_ranges(occupied))
  IN IF s.cursor < total THEN Append(s.gaps, R(s.cursor, total)) ELSE s.gaps

-----------------------------------------------------------------------------
(* aggregate_ranges.  A state range is [start, end, state]. *)

States == {"free", "used", "unknown", "bad"}
Rank == [free |-> 0, used |-> 1, unknown |-> 2, bad |-> 3]

(* The ranges cut to the volume, sorted, and joined where they continue each  *)
(* other; Error when two overlap.                                             *)
Ordered(total, ranges) ==
  LET cut == [k \in DOMAIN ranges |-> [ranges[k] EXCEPT !.start = Least(@, total),
                                                        !.end = Least(@, total)]]
      before(r, s) == Before(r, s) \/ (R(r.start, r.end) = R(s.start, s.end)
                                         /\ Rank[r.state] < Rank[s.state])
      add(ordered, r) ==
        CASE ordered = Error \/ r.end <= r.start -> ordered
          [] ordered # <<>> /\ r.start < Last(ordered).end -> Error
          [] ordered # <<>> /\ r.start = Last(ordered).end /\ r.state = Last(ordered).state ->
               [ordered EXCEPT ![Len(ordered)].end = r.end]
          [] OTHER -> Append(ordered, r)
  IN FoldLeft(add, <<>>, SortSeq(cut, before))

(* The walk of one cell over the ordered list: from the first range that ends *)
(* behind start, through those that begin before end, up to and including the *)
(* one that crosses end.                                                      *)
Walk(ordered, start, end) ==
  SelectSeq(ordered, LAMBDA r : r.end > start /\ r.start < end)

(* What a cell counts: the overlap with each range, and the holes between     *)
(* them as unknown.                                                           *)
CellCounts(ordered, start, end) ==
  LET step(c, r) ==
        LET from == Most(start, r.start)
            to == Least(end, r.end)
            hole == IF from > c.cursor THEN from - c.cursor ELSE 0
        IN [counts |-> [[c.counts EXCEPT !["unknown"] = @ + hole] EXCEPT ![r.state] = @ + to - from],
            cursor |-> Most(c.cursor, to)]
      c == FoldLeft(step, [counts |-> [s \in States |-> 0], cursor |-> start],
                    Walk(ordered, start, end))
  IN [c.counts EXCEPT !["unknown"] = @ + end - c.cursor]

Cell(start, end, counts) ==
  [start |-> start, end |-> end - 1, free |-> counts.free, used |-> counts.used,
   unknown |-> counts.unknown, outside |-> 0, bad |-> counts.bad, fragmented |-> 0,
   directory |-> 0]

CellCount(total, requested) == Most(1, Least(requested, total))

aggregate_ranges(total, requested, ranges) ==
  LET ordered == Ordered(total, ranges)
      n == CellCount(total, requested)
      bound(k) == cell_boundary(k, total, n)
  IN IF total = 0 \/ ordered = Error THEN Error
     ELSE [k \in 1 .. n |-> Cell(bound(k - 1), bound(k),
                                 CellCounts(ordered, bound(k - 1), bound(k)))]

-----------------------------------------------------------------------------
(* overlay_ranges: what of the ranges lies in each cell, at most what the     *)
(* cell uses, in one of its fields.                                           *)
Overlap(merged, start, end) ==
  FoldLeft(LAMBDA sum, r : sum + Minus(Least(end, r.end), Most(start, r.start)), 0,
           Walk(merged, start, end))

overlay_ranges(cells, ranges, field) ==
  [k \in DOMAIN cells |->
     [cells[k] EXCEPT ![field] =
        Least(cells[k].used, Overlap(merge_ranges(ranges), cells[k].start, cells[k].end + 1))]]

(* generic_free_range_map: free as reported, used the rest; fragmented files  *)
(* and directories laid over.                                                 *)
Stated(ranges, state) ==
  [k \in DOMAIN ranges |-> [start |-> ranges[k].start, end |-> ranges[k].end, state |-> state]]
generic_free_range_map(report, requested) ==
  LET free == pair_ranges(report.free, report.total)
      fragmented == pair_ranges(report.fragmented, report.total)
      directories == pair_ranges(report.directories, report.total)
      cells == aggregate_ranges(report.total, requested,
                 Stated(free, "free") \o Stated(complement_ranges(report.total, free), "used"))
  IN IF free = Error \/ fragmented = Error \/ directories = Error \/ cells = Error
           \/ report.total * report.unit > MaxU
     THEN Error
     ELSE overlay_ranges(overlay_ranges(cells, fragmented, "fragmented"), directories, "directory")

(* map_ext: a second worker must agree on the geometry; its metadata is laid  *)
(* over as bad.                                                               *)
map_ext(report, requested) ==
  LET metadata == pair_ranges(report.metadata, report.total)
      cells == generic_free_range_map(report, requested)
  IN IF report.metadata_total # report.total \/ metadata = Error \/ cells = Error THEN Error
     ELSE overlay_ranges(cells, metadata, "bad")

-----------------------------------------------------------------------------
(* Maps whose cells the worker made. *)

Contiguous(cells, first, total) ==
  /\ \A k \in DOMAIN cells :
       /\ cells[k].start = (IF k = 1 THEN first ELSE cells[k - 1].end + 1)
       /\ cells[k].end >= cells[k].start /\ cells[k].end < first + total
  /\ cells # <<>> /\ Last(cells).end + 1 = first + total
Span(c) == c.end - c.start + 1

(* validate_native_map *)
validate_native_map(report) ==
  /\ report.total > 0 /\ report.unit > 0 /\ Len(report.cells) = report.cell_count
  /\ Contiguous(report.cells, 0, report.total)
  /\ \A k \in DOMAIN report.cells :
       LET c == report.cells[k] IN
       /\ c.fragmented <= c.used /\ c.directory <= c.used
       /\ c.free + c.used + c.unknown + c.outside + c.bad = Span(c)

Sum(cells, field) == FoldLeft(LAMBDA sum, c : sum + c[field], 0, cells)

(* map_fat: cells count clusters from 2, nothing is unknown or outside, and   *)
(* the totals are the declared ones.                                          *)
map_fat_valid(report) ==
  /\ report.total > 0 /\ report.unit > 0 /\ report.declared_free <= report.total
  /\ report.total * report.unit <= MaxU
  /\ Len(report.cells) = report.cell_count
  /\ Contiguous(report.cells, 2, report.total)
  /\ \A k \in DOMAIN report.cells :
       LET c == report.cells[k] IN
       /\ c.free + c.used = Span(c)
       /\ c.fragmented <= c.used /\ c.directory <= c.used /\ c.bad <= c.used
  /\ Sum(report.cells, "free") = report.declared_free
  /\ Sum(report.cells, "used") = report.total - report.declared_free

(* map_backend's choice of adapter: the cells of an accepted report. *)
Cells(adapter, report, requested) ==
  CASE adapter = "native" -> IF validate_native_map(report) THEN report.cells ELSE Error
    [] adapter = "fat" -> IF map_fat_valid(report) THEN report.cells ELSE Error
    [] adapter = "ext" -> map_ext(report, requested)
    [] OTHER -> generic_free_range_map(report, requested)
=============================================================================
