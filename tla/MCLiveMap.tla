------------------------------ MODULE MCLiveMap ------------------------------
(* Five units of two bytes; true reports of six allocations in several forms, *)
(* and reports and events that overlap, leave the volume or do not add up.    *)
EXTENDS LiveMap

MCUses == {{}, Units, {0}, {1, 2}, {0, 2, 4}, {2, 3, 4}}
MCRequests == [fstype : {"vfat", "fat16", "ext4", "ntfs", "ufs", "minix", "swap", "xyz", ""},
               probe : BOOLEAN]
MCIdentities == {"", "fat12", "fat16", "vfat", "ext4", "ntfs", "xyz"}

(* Cells as a worker makes them, from first to last unit of each. *)
C(start, end, free, taken, unknown, bad) ==
  [start |-> start, end |-> end, free |-> free, used |-> taken, unknown |-> unknown, outside |-> 0,
   bad |-> bad, fragmented |-> 0, directory |-> 0]
Counted(start, end, origin, taken) ==
  LET here == {u \in taken : start <= u + origin /\ u + origin <= end}
  IN C(start, end, end - start + 1 - Cardinality(here), Cardinality(here), 0, 0)
Two(origin, taken) ==
  <<Counted(origin, origin + 1, origin, taken), Counted(origin + 2, origin + 4, origin, taken)>>

Report(adapter, filesystem) ==
  [adapter |-> adapter, filesystem |-> filesystem, accuracy |-> "exact", unknown |-> 0,
   total |-> Total, unit |-> UnitSize, free |-> <<>>, fragmented |-> <<>>, directories |-> <<>>,
   metadata |-> <<>>, metadata_total |-> Total, cells |-> <<>>, cell_count |-> 2,
   declared_free |-> 0, defrag |-> "absent", growth |-> "absent"]

FreeLists == {<<>>, <<R(0, 5)>>, <<R(1, 5)>>, <<R(0, 1), R(3, 5)>>, <<R(3, 5), R(0, 1)>>,
              <<R(3, 4), R(1, 2)>>, <<R(0, 2)>>, <<R(1, 2), R(0, 1)>>,
              <<R(0, 3), R(1, 2)>>, <<R(2, 2)>>, <<R(4, 6)>>}
ExtLists == {<<>>, <<R(0, 1), R(3, 5)>>, <<R(3, 4), R(1, 2)>>, <<R(0, 3), R(1, 2)>>}
Laid == {<<>>, <<R(0, 3), R(1, 2)>>, <<R(2, 5)>>}
RangeReports ==
  {[Report("ext", "ext4") EXCEPT !.free = l, !.metadata = m] : l \in ExtLists, m \in Laid}
  \cup {[Report("ext", "ext2") EXCEPT !.metadata_total = t] : t \in {Total, Total + 1}}
  \cup {[Report("free-ranges", "ntfs") EXCEPT !.free = l, !.fragmented = m[1], !.directories = m[2]] :
     l \in FreeLists, m \in {<< <<>>, <<>> >>, << <<R(0, 3), R(1, 2)>>, <<R(0, 2)>> >>,
                             << <<>>, <<R(2, 5)>> >>}}
  \cup {[Report("free-ranges", "ntfs") EXCEPT !.defrag = q, !.growth = g] :
     q, g \in {"absent", "yes", "no"}}
  \cup {[Report("free-ranges", "ntfs") EXCEPT !.unit = u] : u \in {0, 4, 20}}

CellLists(origin) ==
  {Two(origin, taken) : taken \in Uses}
  \cup {<<C(origin, origin + 1, 1, 1, 0, 1), C(origin + 2, origin + 4, 1, 2, 0, 0)>>,
        <<C(origin, origin + 1, 1, 0, 0, 1), C(origin + 2, origin + 4, 1, 1, 1, 0)>>,
        <<C(origin, origin + 2, 1, 2, 0, 0), C(origin + 2, origin + 4, 1, 2, 0, 0)>>,
        <<C(origin, origin + 1, 1, 2, 0, 0), C(origin + 2, origin + 4, 1, 2, 0, 0)>>}
Free(cs) == Sum(cs, "free")
CellReports ==
  {[Report("fat", f) EXCEPT !.cells = cs, !.declared_free = Free(cs) + wrong] :
     f \in {"fat12", "fat16"}, cs \in {cs \in CellLists(2) : Sum(cs, "unknown") = 0},
     wrong \in {0, 1}}
  \cup {[Report("native", f) EXCEPT !.cells = cs] : f \in {"ufs", "minix"}, cs \in CellLists(0)}
  \cup {[Report("native", f) EXCEPT !.cells = Two(0, {0}), !.accuracy = a, !.unknown = n,
                                   !.defrag = q] :
     f \in {"ufs", "minix", "swap"}, a \in {"exact", "summary"}, n \in {0, 1},
     q \in {"absent", "yes"}}
MCReports == RangeReports \cup CellReports

MCRangeEvents ==
  {[ranges |-> rs, allocate_only |-> o] :
     rs \in {<< <<2, 6, 2>> >>, << <<2, 8, 2>>, <<4, 2, 2>> >>, << <<4, 2, 6>> >>,
             << <<0, 5, 1>> >>, << <<1, 3, 0>> >>, << <<1, 3, 4>>, <<0, 40, 4>> >>, << <<0, 2, 0>>, <<2, 6>> >>,
             << <<0, 30, 4>> >>, << <<0, 4, 10>>, <<0, 0, 10>> >>},
     o \in BOOLEAN}

Reset(n, s, rs) == [units |-> n, unit |-> s, used_ranges |-> rs]
MCResetEvents ==
  {Reset(5, 0, rs) :
     rs \in {<<>>, << <<0, 10>> >>, << <<2, 4>> >>, << <<8, 2>>, <<0, 2>>, <<4, 2>> >>,
             << <<4, 6>>, <<5, 9>> >>}}
  \cup {Reset(0, 2, <<>>), Reset(3, 2, << <<2, 4>>, <<7, 1>> >>), Reset(5, 2, << <<0, 2>> >>),
        Reset(8, 2, << <<4, 6>> >>), Reset(5, 9, <<>>), Reset(3, 11, << <<0, 40>> >>),
        Reset(5, 0, << <<2, 4>>, <<8>> >>),
        Reset(5, 0, << <<0, 2>>, <<5, 0>> >>)}

Update(i, c) == [i |-> i, cell |-> c]
MCCellEvents ==
  {<<>>,
   <<Update(0, C(0, 1, 2, 0, 0, 0))>>, <<Update(9, C(0, 1, 2, 0, 0, 0))>>,
   <<Update(1, C(1, 4, 2, 2, 0, 0))>>,
   <<Update(0, C(0, 2, 3, 0, 0, 0)), Update(1, C(3, 3, 1, 0, 0, 0))>>,
   <<Update(1, C(2, 3, 1, 1, 0, 0)), Update(0, C(0, 3, 4, 0, 0, 0))>>,
   <<Update(0, C(0, 0, 1, 0, 0, 0)), Update(0, C(1, 1, MaxU, 7, 0, 0))>>,
   <<Update(1, C(2, 1, 0, 0, 0, 0))>>,
   <<Update(1, C(2, 7, 6, 0, 0, 0)), Update(0, C(0, 1, 0, 2, 0, 0))>>}

(* The hypotheses of the theorems on counts, for these reports. *)
ASSUME RangeMapsAssumption == RangeMapsAddUp /\ RangeMapsExact
=============================================================================
