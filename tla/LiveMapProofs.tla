---------------------------- MODULE LiveMapProofs ----------------------------
(***************************************************************************)
(* What holds of the allocation map and its display for every volume,      *)
(* every report of a worker and every event of a writer, true or not: whose*)
(* map is shown, who qualified the volume, that an update is whole and     *)
(* leaves the cells in order, that what a cell counts adds up, and that the*)
(* display implements UnitMap: told the truth, it counts exactly.          *)
(***************************************************************************)
EXTENDS LiveMap, FiniteSetTheorems, WellFoundedInduction, TLAPS

USE DEF vars, mapperVars, resultVars, eventVars, truthVars

-----------------------------------------------------------------------------
(* The registry *)

(* A name belongs to one backend at most, so looking it up finds that one. *)
LEMMA Lookup ==
  /\ \A id \in Ids : \A name \in Names(id) : backend_by_fstype(name) = id
  /\ \A name : backend_by_fstype(name) \in Ids \cup {NoBackend}
BY RegistryAssumption DEF validate_backend_registry, backend_by_fstype

LEMMA RegistryIds ==
  Ids = {"affs", "apfs", "btrfs", "exfat", "ext2", "ext3", "ext4", "fat12", "fat16", "fat32",
         "hfs", "hfsplus", "minix", "ntfs", "pfs3", "sfs", "swap", "ufs", "xfs", "zfs"}
BY DEF Ids, backend_registry

(* The backends whose map is made of free ranges go by their ids. *)
LEMMA FreeRangeIds ==
  \A id \in {"affs", "exfat", "hfsplus", "ntfs", "xfs"} : backend_by_fstype(id) = id
<1>1. \A id \in {"affs", "exfat", "hfsplus", "ntfs", "xfs"} : id \in Ids
  BY RegistryIds
<1> QED
  BY <1>1, Lookup DEF Names

(* No backend answers to an unnamed filesystem. *)
LEMMA Unnamed == backend_by_fstype("") = NoBackend
<1>2. \A id \in Ids : "" # id
  BY RegistryIds
<1>3. \A id \in Ids : "" \notin backend_registry[id].aliases
  <2>2. /\ "" \notin backend_registry["affs"].aliases /\ "" \notin backend_registry["apfs"].aliases
        /\ "" \notin backend_registry["btrfs"].aliases /\ "" \notin backend_registry["exfat"].aliases
        /\ "" \notin backend_registry["ext2"].aliases /\ "" \notin backend_registry["ext3"].aliases
        /\ "" \notin backend_registry["ext4"].aliases /\ "" \notin backend_registry["fat12"].aliases
        /\ "" \notin backend_registry["fat16"].aliases /\ "" \notin backend_registry["fat32"].aliases
        /\ "" \notin backend_registry["hfs"].aliases /\ "" \notin backend_registry["hfsplus"].aliases
        /\ "" \notin backend_registry["minix"].aliases /\ "" \notin backend_registry["ntfs"].aliases
        /\ "" \notin backend_registry["pfs3"].aliases /\ "" \notin backend_registry["sfs"].aliases
        /\ "" \notin backend_registry["swap"].aliases /\ "" \notin backend_registry["ufs"].aliases
        /\ "" \notin backend_registry["xfs"].aliases /\ "" \notin backend_registry["zfs"].aliases
    BY DEF backend_registry, Writes, Reads, Backend
  <2> QED
    BY <2>2, RegistryIds
<1>1. \A id \in Ids : "" \notin Names(id)
  BY <1>2, <1>3 DEF Names
<1> QED
  BY <1>1 DEF backend_by_fstype

LEMMA Qualifications ==
  \A id \in Ids : backend_registry[id].qualification \in {"none", "worker", "map-or-worker"}
BY DEF Ids, backend_registry, Writes, Reads, Backend

LEMMA FatIds == \A k \in 1 .. 3 : FatWidths[k] \in Ids /\ MapAdapter(FatWidths[k]) = "fat"
BY RegistryIds DEF FatWidths, MapAdapter

-----------------------------------------------------------------------------
(* Cells *)

(* A list of cells, and a cell where another one lies. *)
Shaped(cs) == \E n \in Nat : /\ cs = [k \in 1 .. n |-> cs[k]]
                             /\ \A k \in 1 .. n : {"start", "end"} \subseteq DOMAIN cs[k]
Placed(c, d) == {"start", "end"} \subseteq DOMAIN c /\ c.start = d.start /\ c.end = d.end
Patched(p, cs) == \A k \in DOMAIN p : k \in DOMAIN cs /\ Placed(p[k], cs[k])

LEMMA ShapedLength ==
  ASSUME NEW cs, Shaped(cs)
  PROVE  /\ Len(cs) \in Nat /\ DOMAIN cs = 1 .. Len(cs) /\ cs = [k \in DOMAIN cs |-> cs[k]]
         /\ \A k \in DOMAIN cs : {"start", "end"} \subseteq DOMAIN cs[k]
<1>1. PICK n \in Nat : /\ cs = [k \in 1 .. n |-> cs[k]]
                       /\ \A k \in 1 .. n : {"start", "end"} \subseteq DOMAIN cs[k]
  BY DEF Shaped
<1>2. cs \in Seq({cs[k] : k \in 1 .. n})
  BY <1>1
<1>3. Len(cs) \in Nat /\ DOMAIN cs = 1 .. Len(cs)
  BY <1>2
<1>4. DOMAIN cs = 1 .. n
  BY <1>1
<1> QED
  BY <1>1, <1>3, <1>4

(* Cells that stay where they were stay in order. *)
LEMMA SamePlaces ==
  ASSUME NEW cs, NEW ds, Shaped(cs), InOrder(cs), ds = [k \in DOMAIN cs |-> ds[k]],
         \A k \in DOMAIN cs : Placed(ds[k], cs[k])
  PROVE  Shaped(ds) /\ InOrder(ds)
<1>1. PICK n \in Nat : cs = [k \in 1 .. n |-> cs[k]]
  BY DEF Shaped
<1>2. DOMAIN cs = 1 .. n /\ DOMAIN ds = 1 .. n /\ ds = [k \in 1 .. n |-> ds[k]]
  BY <1>1
<1>3. Shaped(ds)
  BY <1>2 DEF Shaped, Placed
<1>4. \A k \in DOMAIN ds : k > 1 => k - 1 \in DOMAIN ds
  BY <1>2
<1>5. InOrder(ds)
  BY <1>2, <1>4 DEF InOrder, Placed
<1> QED
  BY <1>3, <1>5

(* Counting differently does not move a cell. *)
LEMMA MovedPlaced ==
  ASSUME NEW c, NEW d, Placed(c, d), NEW overlap, NEW to_used
  PROVE  Placed(Moved(c, overlap, to_used), d)
BY DEF Moved, Placed
LEMMA BlankPlaced ==
  ASSUME NEW c, NEW d, Placed(c, d), NEW total
  PROVE  Placed(Blank(c, total), d)
BY DEF Blank, Placed
LEMMA RecountPlaced ==
  ASSUME NEW c, NEW d, Placed(c, d), NEW taken
  PROVE  Placed(Recount(c, taken), d)
BY DEF Recount, Placed

(* apply_range patches the cells it reaches and keeps the other patches. *)
LEMMA ApplyRangePatches ==
  ASSUME Shaped(cells), NEW p, Patched(p, cells), NEW first_byte, NEW length, NEW to_used,
         apply_range(p, first_byte, length, to_used) # Error
  PROVE  Patched(apply_range(p, first_byte, length, to_used), cells)
<1> DEFINE first == first_byte \div unit
           last == ceiling_units(first_byte + length, unit)
           new == [k \in Reached(first, last) |->
                     Moved(effective_cell(p, k), Common(cells[k], first, last), to_used)]
<1>1. \A k \in DOMAIN cells : Placed(effective_cell(p, k), cells[k])
  BY ShapedLength DEF effective_cell, Patched, Placed
<1>2. DOMAIN new \subseteq DOMAIN cells /\ \A k \in DOMAIN new : Placed(new[k], cells[k])
  BY <1>1, MovedPlaced DEF Reached
<1>3. apply_range(p, first_byte, length, to_used) \in {p, Patch(p, new)}
  BY DEF apply_range
<1> HIDE DEF new
<1>4. Patched(Patch(p, new), cells)
  BY <1>2 DEF Patch, Patched
<1> QED
  BY <1>3, <1>4

(* The marks of a reset. *)
LEMMA MarkPatches ==
  ASSUME NEW cs, cs = [k \in DOMAIN cells |-> cs[k]], Patched(cs, cells),
         NEW total, NEW size, NEW r
  PROVE  /\ Mark(total, size, cs, r) = [k \in DOMAIN cells |-> Mark(total, size, cs, r)[k]]
         /\ Patched(Mark(total, size, cs, r), cells)
<1> DEFINE limit == total * size
           first == r[1] \div size
           last == ceiling_units(r[1] + Least(r[2], limit - r[1]), size)
           new == [k \in DOMAIN cs |-> IF k \in Reached(first, last)
                                        THEN Moved(cs[k], Common(cs[k], first, last), TRUE)
                                        ELSE cs[k]]
<1>1. Mark(total, size, cs, r) \in {cs, new}
  BY DEF Mark
<1>2. DOMAIN cs = DOMAIN cells
  OBVIOUS
<1>3. \A k \in DOMAIN cs : Placed(new[k], cells[k])
  BY MovedPlaced DEF Patched
<1> HIDE DEF new
<1>4. new = [k \in DOMAIN cells |-> new[k]] /\ Patched(new, cells)
  BY <1>2, <1>3 DEF new, Patched
<1> QED
  BY <1>1, <1>4

(* A set of places in a list has a greatest one. *)
LEMMA Greatest ==
  ASSUME NEW n \in Nat, NEW S \in SUBSET (1 .. n), S # {}
  PROVE  Max(S) \in S /\ \A y \in S : Max(S) >= y
<1> DEFINE Below == OpToRel(<, Nat)
           T == {n - x : x \in S}
<1>1. IsWellFoundedOn(Below, Nat)
  BY NatLessThanWellFounded
<1>2. T \subseteq Nat /\ T # {}
  <2>1. \A x \in 1 .. n : n - x \in Nat
    OBVIOUS
  <2>2. T \subseteq Nat
    BY <2>1, Zenon
  <2>3. T # {}
    BY Zenon
  <2> QED
    BY <2>2, <2>3
<1>3. \A x, y \in Nat : x < y => <<x, y>> \in Below
  BY DEF OpToRel
<1>4. PICK t \in T : \A u \in T : ~(<<u, t>> \in Below)
  <2> HIDE DEF Below, T
  <2> QED
    BY <1>1, <1>2, WFMin
<1>5. PICK x \in S : t = n - x
  BY <1>4
<1>6. \A y \in S : x >= y
  <2> SUFFICES ASSUME NEW y \in S, ~(x >= y) PROVE FALSE
    OBVIOUS
  <2>1. n - y \in T /\ n - y \in Nat /\ t \in Nat /\ n - y < t
    BY <1>2, <1>5
  <2> QED
    BY <1>3, <1>4, <2>1
<1> QED
  BY <1>6 DEF Max

(* The updates of a @@LIVE_MAP are cells. *)
LEMMA UpdatesShape ==
  ASSUME Shaped(cells), NEW e \in CellEvents
  PROVE  \A k \in DOMAIN Updates(e) : /\ k \in DOMAIN cells /\ Updates(e)[k] \in MapCells
                                      /\ {"start", "end"} \subseteq DOMAIN Updates(e)[k]
<1> DEFINE of(k) == {n \in DOMAIN e : e[n].i = k - 1}
           U == [i : Nat, cell : MapCells]
<1>1. e \in Seq(U)
  BY EventsAssumption
<1>2. Len(e) \in Nat /\ DOMAIN e = 1 .. Len(e) /\ \A n \in DOMAIN e : e[n].cell \in MapCells
  <2>1. Len(e) \in Nat /\ DOMAIN e = 1 .. Len(e)
        /\ \A n \in 1 .. Len(e) : e[n] \in U
    <3> HIDE DEF U
    <3> QED
      BY <1>1
  <2> QED
    BY <2>1
<1>3. \A k \in DOMAIN cells : of(k) # {} => Max(of(k)) \in DOMAIN e
  <2> SUFFICES ASSUME NEW k \in DOMAIN cells, of(k) # {} PROVE Max(of(k)) \in DOMAIN e
    OBVIOUS
  <2>1. of(k) \in SUBSET (1 .. Len(e))
    BY <1>2
  <2>2. Max(of(k)) \in of(k)
    <3> HIDE DEF of
    <3> QED
      BY <1>2, <2>1, Greatest
  <2> QED
    BY <1>2, <2>1, <2>2
<1>4. \A c \in MapCells : {"start", "end"} \subseteq DOMAIN c
  BY DEF MapCells
<1>5. \A k \in DOMAIN Updates(e) : /\ k \in DOMAIN cells /\ of(k) # {}
                                   /\ Updates(e)[k] = e[Max(of(k))].cell
  BY DEF Updates
<1> HIDE DEF of
<1> QED
  BY <1>2, <1>3, <1>4, <1>5

(* What validate_patched_cell_order lets through is in order. *)
LEMMA PatchedOrder ==
  ASSUME Shaped(cells), InOrder(cells), NEW p, validate_patched_cell_order(p),
         \A k \in DOMAIN p : k \in DOMAIN cells /\ {"start", "end"} \subseteq DOMAIN p[k],
         NEW cs, cs = [k \in DOMAIN cells |-> effective_cell(p, k)]
  PROVE  Shaped(cs) /\ InOrder(cs)
<1>1. Len(cells) \in Nat /\ DOMAIN cells = 1 .. Len(cells)
  BY ShapedLength
<1>2. \A k \in DOMAIN cells : {"start", "end"} \subseteq DOMAIN cells[k]
  BY ShapedLength
<1>3. DOMAIN cs = DOMAIN cells /\ \A k \in DOMAIN cells : cs[k] = effective_cell(p, k)
  OBVIOUS
<1>4. Shaped(cs)
  <2>1. \A k \in 1 .. Len(cells) : {"start", "end"} \subseteq DOMAIN cs[k]
    BY <1>1, <1>2, <1>3, Zenon DEF effective_cell
  <2>2. cs = [k \in 1 .. Len(cells) |-> cs[k]]
    BY <1>1, <1>3
  <2> QED
    BY <1>1, <2>1, <2>2 DEF Shaped
<1>5. ASSUME NEW k \in DOMAIN cells
      PROVE  cs[k].start <= cs[k].end
  BY <1>3, <1>5 DEF effective_cell, validate_patched_cell_order, InOrder
<1>6. ASSUME NEW k \in DOMAIN cells, k > 1
      PROVE  cs[k - 1].end < cs[k].start
  <2>1. k - 1 \in DOMAIN cells /\ k - 1 < Len(cells) /\ (k - 1) + 1 = k /\ k \in Nat
    BY <1>1, <1>6
  <2>2. cs[k] = effective_cell(p, k) /\ cs[k - 1] = effective_cell(p, k - 1)
    BY <1>3, <2>1
  <2>3. CASE k \in DOMAIN p
    BY <1>6, <2>2, <2>3 DEF effective_cell, validate_patched_cell_order
  <2>4. CASE k - 1 \in DOMAIN p
    <3>1. p[k - 1].end < effective_cell(p, (k - 1) + 1).start
      BY <2>1, <2>4 DEF validate_patched_cell_order
    <3> QED
      BY <2>1, <2>2, <2>4, <3>1 DEF effective_cell
  <2>5. CASE k \notin DOMAIN p /\ k - 1 \notin DOMAIN p
    BY <1>6, <2>2, <2>5 DEF effective_cell, InOrder
  <2> QED
    BY <2>3, <2>4, <2>5
<1>7. InOrder(cs)
  BY <1>3, <1>5, <1>6 DEF InOrder
<1> QED
  BY <1>4, <1>7

(* The cells map_backend makes or takes. *)
LEMMA MadeShaped ==
  ASSUME NEW report \in Reports, NEW adapter, NEW requested \in Nat,
         Cells(adapter, report, requested) # Error
  PROVE  Shaped(Cells(adapter, report, requested))
<1>1. \A cs \in Seq(MapCells) : Shaped(cs)
  <2> SUFFICES ASSUME NEW cs \in Seq(MapCells) PROVE Shaped(cs)
    OBVIOUS
  <2>1. Len(cs) \in Nat /\ cs = [k \in 1 .. Len(cs) |-> cs[k]] /\ \A k \in 1 .. Len(cs) : cs[k] \in MapCells
    OBVIOUS
  <2>2. \A c \in MapCells : {"start", "end"} \subseteq DOMAIN c
    BY DEF MapCells
  <2> QED
    BY <2>1, <2>2 DEF Shaped
<1>2. report.cells \in Seq(MapCells)
  BY ReportsAssumption
<1>3. ASSUME NEW cs, Shaped(cs), NEW ranges, NEW field
      PROVE  Shaped(overlay_ranges(cs, ranges, field))
  <2>1. PICK n \in Nat : /\ cs = [k \in 1 .. n |-> cs[k]]
                         /\ \A k \in 1 .. n : {"start", "end"} \subseteq DOMAIN cs[k]
    BY <1>3 DEF Shaped
  <2>2. DOMAIN cs = 1 .. n
    BY <2>1
  <2> DEFINE ds == overlay_ranges(cs, ranges, field)
  <2>3. DOMAIN ds = 1 .. n /\ ds = [k \in 1 .. n |-> ds[k]]
    BY <2>2 DEF overlay_ranges
  <2>4. \A k \in 1 .. n : DOMAIN ds[k] = DOMAIN cs[k]
    BY <2>2 DEF overlay_ranges
  <2> HIDE DEF ds
  <2>5. Shaped(ds)
    BY <2>1, <2>3, <2>4 DEF Shaped
  <2> QED
    BY <2>5 DEF ds
<1>4. ASSUME NEW total \in Nat, NEW ranges, aggregate_ranges(total, requested, ranges) # Error
      PROVE  Shaped(aggregate_ranges(total, requested, ranges))
  <2> DEFINE n == CellCount(total, requested)
             bound(k) == cell_boundary(k, total, n)
             counts(k) == CellCounts(Ordered(total, ranges), bound(k - 1), bound(k))
             ds == [k \in 1 .. n |-> Cell(bound(k - 1), bound(k), counts(k))]
  <2>1. n \in Nat
    BY DEF CellCount, Most, Least
  <2>2. aggregate_ranges(total, requested, ranges) = ds
    BY <1>4 DEF aggregate_ranges
  <2> HIDE DEF n, bound, counts
  <2>3. DOMAIN ds = 1 .. n /\ ds = [k \in 1 .. n |-> ds[k]]
    OBVIOUS
  <2>4. \A k \in 1 .. n : {"start", "end"} \subseteq DOMAIN ds[k]
    BY DEF Cell
  <2> HIDE DEF ds
  <2>5. Shaped(ds)
    BY <2>1, <2>3, <2>4 DEF Shaped
  <2> QED
    BY <2>2, <2>5
<1>5. generic_free_range_map(report, requested) # Error
        => Shaped(generic_free_range_map(report, requested))
  <2>1. report.total \in Nat
    BY ReportsAssumption
  <2> QED
    BY <1>3, <1>4, <2>1 DEF generic_free_range_map
<1>6. map_ext(report, requested) # Error => Shaped(map_ext(report, requested))
  BY <1>3, <1>5 DEF map_ext
<1> QED
  BY <1>1, <1>2, <1>5, <1>6 DEF Cells

-----------------------------------------------------------------------------
(* The inductive invariant, in parts. *)

Made == phase \in {"preflight-defrag", "preflight-growth", "present"} \/ Shown
Flags == {"defrag", "growth"}

(* Until the map is shown no event came and the volume is not described. *)
PhaseInv ==
  /\ phase \in {"choose", "probed", "scan", "preflight-defrag", "preflight-growth", "present",
                "live", "ranges", "marking", "failed"}
  /\ ~Shown => outcome = "none" /\ volume = NoVolume

(* The backend that was chosen for the request, and whose map it has. *)
BackendInv ==
  /\ phase = "choose" => candidate \in Nat \ {0}
  /\ phase = "probed" => backend_by_fstype(identified) = backend
  /\ phase = "scan" \/ Made =>
       /\ backend \in Ids
       /\ \/ request.fstype \in Generic /\ MapAdapter(backend) = "fat"
          \/ request.fstype \notin Generic /\ backend = backend_by_fstype(request.fstype)
          \/ request.fstype = ""
  /\ Made => MapAdapter(backend) = "ext" \/ backend_by_fstype(map.filesystem) = backend
  /\ Shown => volume.filesystem = backend

(* A flag of the map is somebody's answer. *)
QualifiedInv ==
  /\ Flags \subseteq DOMAIN map
  /\ Made => \A f \in Flags : map[f] = "yes" => QualifiedFor(f)
  /\ QualifiedByWriter

(* What an event has done so far is in the patches. *)
WholeInv ==
  /\ phase \in {"ranges", "marking"} => cells = before /\ outcome = "none"
  /\ FailureHarmless

(* And the patches are where the cells are. *)
OrderInv ==
  /\ Made => Shaped(cells)
  /\ Shown => InOrder(cells)
  /\ phase = "ranges" => Patched(patches, cells)
  /\ phase = "marking" => /\ patches = [k \in DOMAIN cells |-> patches[k]]
                          /\ Patched(patches, cells)

Inductive == PhaseInv /\ BackendInv /\ QualifiedInv /\ WholeInv /\ OrderInv

(* A volume without a name is tried with backends of the registry. *)
LEMMA OrderIds == \A n \in 1 .. 20 : RegistryOrder[n] \in Ids
<1> DEFINE At(n) == RegistryOrder[n] \in Ids
<1>1. At(1) /\ At(2) /\ At(3) /\ At(4) /\ At(5) /\ At(6) /\ At(7)
  BY RegistryIds DEF RegistryOrder
<1>2. At(8) /\ At(9) /\ At(10) /\ At(11) /\ At(12) /\ At(13) /\ At(14)
  BY RegistryIds DEF RegistryOrder
<1>3. At(15) /\ At(16) /\ At(17) /\ At(18) /\ At(19) /\ At(20)
  BY RegistryIds DEF RegistryOrder
<1> HIDE DEF At
<1>4. \A n \in 1 .. 20 : At(n)
  BY <1>1, <1>2, <1>3
<1> QED
  BY <1>4 DEF At

(* The candidates are backends, the FAT ones for a generic FAT and the one of *)
(* that name for a name.                                                      *)
LEMMA CandidateIds ==
  ASSUME NEW k \in 1 .. Len(Candidates)
  PROVE  /\ Candidates[k] \in Ids
         /\ \/ request.fstype \in Generic /\ MapAdapter(Candidates[k]) = "fat"
            \/ request.fstype \notin Generic /\ Candidates[k] = backend_by_fstype(request.fstype)
            \/ request.fstype = ""
<1>1. CASE request.fstype \in Generic
  <2>1. Candidates = FatWidths /\ Len(FatWidths) = 3
    BY <1>1 DEF Candidates, FatWidths
  <2> QED
    BY <1>1, <2>1, FatIds
<1>2. CASE request.fstype = ""
  <2>1. request.fstype \notin Generic
    BY <1>2 DEF Generic
  <2>2. Candidates = RegistryOrder
    BY <1>2, <2>1 DEF Candidates
  <2>3. Len(RegistryOrder) = 20
    BY DEF RegistryOrder
  <2> QED
    BY <1>2, <2>2, <2>3, OrderIds
<1>3. CASE request.fstype \notin Generic \cup {""}
  <2> DEFINE b == backend_by_fstype(request.fstype)
  <2>1. Candidates = IF b = NoBackend THEN <<>> ELSE <<b>>
    BY <1>3 DEF Candidates
  <2>2. b \in Ids \cup {NoBackend}
    BY Lookup
  <2> HIDE DEF b
  <2>3. b # NoBackend /\ Candidates[k] = b
    BY <2>1
  <2> QED
    BY <1>3, <2>2, <2>3 DEF b
<1> QED
  BY <1>1, <1>2, <1>3

LEMMA Chosen ==
  ASSUME BackendInv, TakeNamed \/ Identify, phase' # "choose"
  PROVE  /\ backend' \in Ids /\ UNCHANGED request /\ phase' \in {"probed", "scan"}
         /\ phase' = "probed" => backend_by_fstype(identified') = backend'
         /\ \/ request.fstype \in Generic /\ MapAdapter(backend') = "fat"
            \/ request.fstype \notin Generic /\ backend' = backend_by_fstype(request.fstype)
            \/ request.fstype = ""
<1>1. PICK k \in 1 .. Len(Candidates) :
        /\ UNCHANGED request /\ backend' = Candidates[k] /\ phase' \in {"probed", "scan"}
        /\ phase' = "probed" => backend_by_fstype(identified') = Candidates[k]
  <2>1. CASE TakeNamed
    <3>1. Candidates # <<>> /\ Choose(Candidates[1], "") /\ ~request.probe /\ UNCHANGED request
      BY <2>1 DEF TakeNamed, Named
    <3>2. 1 \in 1 .. Len(Candidates)
      <4> DEFINE b == backend_by_fstype(request.fstype)
      <4>1. Candidates = IF b = NoBackend THEN <<>> ELSE <<b>>
        BY <2>1 DEF TakeNamed, Named, Candidates
      <4> HIDE DEF b
      <4>2. Candidates = <<b>>
        BY <3>1, <4>1
      <4> QED
        BY <4>2
    <3> QED
      BY <3>1, <3>2 DEF Choose
  <2>2. CASE Identify
    <3>1. phase = "choose" /\ candidate <= Len(Candidates) /\ UNCHANGED request
      BY <2>2 DEF Identify
    <3>2. PICK answer : /\ Recognises(Candidates[candidate], answer)
                        /\ Choose(Candidates[candidate], answer)
      BY <2>2, <3>1, Zenon DEF Identify
    <3>3. candidate \in Nat \ {0}
      BY <3>1 DEF BackendInv
    <3>4. Len(Candidates) \in Nat
      BY DEF Candidates, FatWidths, RegistryOrder
    <3>5. candidate \in 1 .. Len(Candidates)
      BY <3>1, <3>3, <3>4
    <3> QED
      BY <3>1, <3>2, <3>5 DEF Choose, Recognises
  <2> QED
    BY <2>1, <2>2
<1> QED
  BY <1>1, CandidateIds

-----------------------------------------------------------------------------
(* The steps *)

(* The steps of the display. *)
Display == \/ LiveRanges \/ MoveRange \/ CommitRanges \/ LiveReset \/ MarkRange \/ CommitReset
           \/ LiveResetReason \/ LiveCells \/ LiveCellsTrue

(* They leave alone whose map it is and what it qualifies for. *)
LEMMA DisplayFrame ==
  ASSUME Display
  PROVE  Shown /\ Shown' /\ UNCHANGED <<mapperVars, resultVars>>
<1>1. CASE LiveRanges
  BY <1>1 DEF LiveRanges, Comes, Fails, Shown
<1>2. CASE MoveRange
  <2>1. phase = "ranges" /\ UNCHANGED <<mapperVars, resultVars>>
    BY <1>2 DEF MoveRange
  <2>2. phase' = "live" \/ phase' = phase
    BY <1>2 DEF MoveRange, Fails
  <2> QED
    BY <2>1, <2>2 DEF Shown
<1>3. CASE CommitRanges
  BY <1>3 DEF CommitRanges, Shown
<1>4. CASE LiveReset
  BY <1>4 DEF LiveReset, Comes, Fails, Shown
<1>5. CASE MarkRange
  BY <1>5 DEF MarkRange, Fails, Shown
<1>6. CASE CommitReset
  BY <1>6 DEF CommitReset, Fails, Shown
<1>7. CASE LiveResetReason
  BY <1>7 DEF LiveResetReason, Comes, Fails, Shown
<1>8. CASE LiveCells
  BY <1>8 DEF LiveCells, Comes, UpdateCells, Fails, Shown
<1>9. CASE LiveCellsTrue
  BY <1>9 DEF LiveCellsTrue, Comes, UpdateCells, Fails, Shown
<1> QED
  BY <1>1, <1>2, <1>3, <1>4, <1>5, <1>6, <1>7, <1>8, <1>9 DEF Display

LEMMA PhaseStep ==
  ASSUME Inductive, Next
  PROVE  PhaseInv'
<1>0. PhaseInv
  BY DEF Inductive
<1>1. CASE TakeNamed
  BY <1>0, <1>1 DEF TakeNamed, Choose, PhaseInv, Shown
<1>2. CASE Identify
  BY <1>0, <1>2 DEF Identify, Choose, PhaseInv, Shown
<1>3. CASE NoneRecognises
  BY <1>0, <1>3 DEF NoneRecognises, PhaseInv, Shown
<1>4. CASE Scan
  <2>1. phase = "scan" /\ UNCHANGED <<outcome, volume>> /\ phase' \in {"preflight-defrag", "present"}
    BY <1>4 DEF Scan
  <2> QED
    BY <1>0, <2>1 DEF PhaseInv, Shown
<1>5. CASE ScanFails
  BY <1>0, <1>5 DEF ScanFails, PhaseInv, Shown
<1>6. CASE PreflightDefrag
  BY <1>0, <1>6 DEF PreflightDefrag, Preflight, PhaseInv, Shown
<1>7. CASE PreflightGrowth
  BY <1>0, <1>7 DEF PreflightGrowth, Preflight, PhaseInv, Shown
<1>8. CASE Present
  <2>1. phase = "present" /\ UNCHANGED outcome
        /\ (phase' = "live" \/ (phase' = "failed" /\ UNCHANGED volume))
    BY <1>8 DEF Present
  <2> QED
    BY <1>0, <2>1 DEF PhaseInv, Shown
<1>9. CASE Display
  BY <1>9, DisplayFrame DEF PhaseInv, Shown
<1>10. CASE Ended
  BY <1>0, <1>10 DEF Ended, PhaseInv, Shown
<1> QED
  BY <1>1, <1>2, <1>3, <1>4, <1>5, <1>6, <1>7, <1>8, <1>9, <1>10 DEF Next, Display

(* A map is accepted from the backend it was asked of: for EXT, from any of the *)
(* three.                                                                       *)
LEMMA AcceptedFrom ==
  ASSUME NEW report, SameFilesystem(report), backend \in Ids
  PROVE  MapAdapter(backend) = "ext" \/ backend_by_fstype(report.filesystem) = backend
<1>1. MapAdapter(backend) \in {"ext", "fat", "native", "free-ranges"}
  BY DEF MapAdapter
<1>2. CASE MapAdapter(backend) \in {"fat", "native"}
  BY <1>2 DEF SameFilesystem
<1>3. CASE MapAdapter(backend) = "free-ranges"
  <2>1. report.filesystem = backend
    BY <1>3 DEF SameFilesystem
  <2>2. backend \in {"affs", "exfat", "hfsplus", "ntfs", "xfs"}
    BY <1>3 DEF MapAdapter
  <2> QED
    BY <2>1, <2>2, FreeRangeIds
<1> QED
  BY <1>1, <1>2, <1>3

(* The map that is presented was made by the backend of its own name. *)
LEMMA PresentedBackend ==
  ASSUME BackendInv, phase = "present",
         backend_by_fstype(map.filesystem) # NoBackend, Verified
  PROVE  backend_by_fstype(map.filesystem) = backend
<1> DEFINE b == backend_by_fstype(map.filesystem)
<1>1. /\ MapAdapter(backend) = "ext" \/ b = backend
      /\ \/ request.fstype \in Generic /\ MapAdapter(backend) = "fat"
         \/ request.fstype \notin Generic /\ backend = backend_by_fstype(request.fstype)
         \/ request.fstype = ""
  BY DEF BackendInv, Made
<1>2. CASE request.fstype \in Generic /\ MapAdapter(backend) = "fat"
  BY <1>1, <1>2
<1>3. CASE request.fstype \notin Generic /\ backend = backend_by_fstype(request.fstype)
  BY <1>3 DEF Verified
<1>4. CASE request.fstype = ""
  <2>1. request.fstype \notin Generic
    BY <1>4 DEF Generic
  <2> QED
    BY <1>4, <2>1, Unnamed DEF Verified
<1> QED
  BY <1>1, <1>2, <1>3, <1>4

LEMMA BackendStep ==
  ASSUME Inductive, Next
  PROVE  BackendInv'
<1>0. BackendInv /\ PhaseInv
  BY DEF Inductive
<1>1. CASE TakeNamed \/ Identify
  <2>1. CASE phase' = "choose"
    <3>1. Identify /\ candidate \in Nat \ {0}
      BY <1>0, <1>1, <2>1 DEF TakeNamed, Choose, BackendInv, Identify
    <3>2. candidate' = candidate + 1
      BY <2>1, <3>1 DEF Identify, Choose
    <3>3. candidate' \in Nat \ {0}
      BY <3>1, <3>2
    <3> QED
      BY <2>1, <3>3 DEF BackendInv, Made, Shown
  <2>2. CASE phase' # "choose"
    <3>1. /\ backend' \in Ids /\ UNCHANGED request /\ phase' \in {"probed", "scan"}
          /\ phase' = "probed" => backend_by_fstype(identified') = backend'
          /\ \/ request.fstype \in Generic /\ MapAdapter(backend') = "fat"
             \/ request.fstype \notin Generic /\ backend' = backend_by_fstype(request.fstype)
             \/ request.fstype = ""
      BY <1>0, <1>1, <2>2, Chosen
    <3> QED
      BY <3>1 DEF BackendInv, Made, Shown
  <2> QED
    BY <2>1, <2>2
<1>3. CASE NoneRecognises
  BY <1>3 DEF NoneRecognises, BackendInv, Made, Shown
<1>4. CASE Scan
  <2>1. /\ phase = "scan" /\ UNCHANGED mapperVars
        /\ phase' \in {"preflight-defrag", "present"}
        /\ \E report \in Reports : SameFilesystem(report) /\ map'.filesystem = report.filesystem
    BY <1>4 DEF Scan, Accepted
  <2>2. MapAdapter(backend) = "ext" \/ backend_by_fstype(map'.filesystem) = backend
    BY <1>0, <2>1, AcceptedFrom DEF BackendInv
  <2> QED
    BY <1>0, <2>1, <2>2 DEF BackendInv, Made, Shown
<1>5. CASE ScanFails
  BY <1>5 DEF ScanFails, BackendInv, Made, Shown
<1>6. CASE PreflightDefrag
  <2>1. /\ phase = "preflight-defrag" /\ phase' = "preflight-growth" /\ UNCHANGED mapperVars
        /\ map'.filesystem = map.filesystem
    BY <1>6 DEF PreflightDefrag, Preflight
  <2> QED
    BY <1>0, <2>1 DEF BackendInv, Made, Shown
<1>7. CASE PreflightGrowth
  <2>1. /\ phase = "preflight-growth" /\ phase' = "present" /\ UNCHANGED mapperVars
        /\ map'.filesystem = map.filesystem
    BY <1>7 DEF PreflightGrowth, Preflight
  <2> QED
    BY <1>0, <2>1 DEF BackendInv, Made, Shown
<1>8. CASE Present
  <2>1. /\ phase = "present" /\ UNCHANGED <<mapperVars, map>>
        /\ \/ /\ phase' = "live" /\ backend_by_fstype(map.filesystem) # NoBackend /\ Verified
              /\ volume'.filesystem = backend_by_fstype(map.filesystem)
           \/ phase' = "failed"
    BY <1>8 DEF Present
  <2>2. phase' = "live" => volume'.filesystem = backend
    BY <1>0, <2>1, PresentedBackend
  <2> QED
    BY <1>0, <2>1, <2>2 DEF BackendInv, Made, Shown
<1>9. CASE Display
  <2>1. Shown /\ Shown' /\ UNCHANGED <<mapperVars, map, volume>>
    BY <1>9, DisplayFrame
  <2> QED
    BY <1>0, <2>1 DEF BackendInv, Made, Shown
<1>10. CASE Ended
  BY <1>0, <1>10 DEF Ended, BackendInv, Made, Shown
<1> QED
  BY <1>1, <1>3, <1>4, <1>5, <1>6, <1>7, <1>8, <1>9, <1>10 DEF Next, Display

(* A map says yes before any preflight only where its worker said so or the *)
(* backend asks for none.                                                   *)
LEMMA FirstAnswer ==
  ASSUME NEW report, NEW f \in Flags, FirstFlag(report, f) = "yes", backend \in Ids
  PROVE  OwnFlag(report, f) = "yes" \/ backend_registry[backend].qualification = "none"
<1>1. CASE OwnFlag(report, f) = "absent"
  <2>1. ~RunPreflight(report)
    BY <1>1 DEF FirstFlag
  <2>2. backend_registry[backend].qualification \notin {"worker", "map-or-worker"}
    BY <1>1, <2>1 DEF RunPreflight, Flags
  <2> QED
    BY <2>2, Qualifications
<1>2. CASE OwnFlag(report, f) # "absent"
  BY <1>2 DEF FirstFlag
<1> QED
  BY <1>1, <1>2

(* A preflight answers for its own flag. *)
LEMMA PreflightAnswers ==
  ASSUME QualifiedInv, Made, NEW flag \in Flags, UNCHANGED <<said, backend, volume>>,
         \E answer \in {"yes", "no"} :
           /\ passed' = IF answer = "yes" THEN passed \cup {flag} ELSE passed
           /\ map' = [map EXCEPT ![flag] = IF @ = "absent" THEN answer ELSE @]
  PROVE  QualifiedInv'
<1>1. PICK answer \in {"yes", "no"} :
        /\ passed' = IF answer = "yes" THEN passed \cup {flag} ELSE passed
        /\ map' = [map EXCEPT ![flag] = IF @ = "absent" THEN answer ELSE @]
  OBVIOUS
<1>2. \A f \in Flags : QualifiedFor(f) => QualifiedFor(f)'
  BY <1>1 DEF QualifiedFor
<1>3. flag \in DOMAIN map /\ DOMAIN map' = DOMAIN map
  BY <1>1 DEF QualifiedInv
<1>4. \A f \in Flags : map'[f] = "yes" => map[f] = "yes" \/ (f = flag /\ answer = "yes")
  BY <1>1, <1>3
<1>5. answer = "yes" => QualifiedFor(flag)'
  BY <1>1 DEF QualifiedFor
<1>6. \A f \in Flags : map'[f] = "yes" => QualifiedFor(f)'
  BY <1>2, <1>4, <1>5 DEF QualifiedInv
<1>7. QualifiedByWriter'
  BY <1>2 DEF QualifiedInv, QualifiedByWriter, Flags
<1> QED
  BY <1>3, <1>6, <1>7 DEF QualifiedInv

LEMMA QualifiedStep ==
  ASSUME Inductive, Next
  PROVE  QualifiedInv'
<1>0. QualifiedInv /\ PhaseInv /\ BackendInv
  BY DEF Inductive
<1>1. CASE TakeNamed \/ Identify \/ NoneRecognises \/ ScanFails
  <2>1. phase \in {"choose", "scan"} /\ UNCHANGED <<map, volume>>
        /\ phase' \in {"choose", "probed", "scan", "failed"}
    BY <1>1 DEF TakeNamed, Identify, NoneRecognises, ScanFails, Choose
  <2>2. volume' = NoVolume
    BY <1>0, <2>1 DEF PhaseInv, Shown
  <2>3. QualifiedByWriter'
    BY <2>2 DEF QualifiedByWriter, NoVolume
  <2> QED
    BY <1>0, <2>1, <2>3 DEF QualifiedInv, Made, Shown
<1>4. CASE Scan
  <2>1. phase = "scan" /\ UNCHANGED <<backend, volume>>
    BY <1>4 DEF Scan
  <2>2. PICK report \in Reports :
          /\ said' = {f \in {"defrag", "growth"} : OwnFlag(report, f) = "yes"}
          /\ \E n : map' = [filesystem |-> report.filesystem, accuracy |-> Accuracy(report),
                            unknown |-> n, total |-> report.total,
                            defrag |-> FirstFlag(report, "defrag"),
                            growth |-> FirstFlag(report, "growth")]
    BY <1>4 DEF Scan
  <2>3. Flags \subseteq DOMAIN map' /\ \A f \in Flags : map'[f] = FirstFlag(report, f)
    BY <2>2 DEF Flags
  <2>4. \A f \in Flags : OwnFlag(report, f) = "yes" => f \in said'
    BY <2>2 DEF Flags
  <2>5. backend \in Ids
    BY <1>0, <2>1 DEF BackendInv
  <2>6. \A f \in Flags : map'[f] = "yes" => QualifiedFor(f)'
    BY <2>1, <2>3, <2>4, <2>5, FirstAnswer DEF QualifiedFor
  <2>7. volume' = NoVolume
    BY <1>0, <2>1 DEF PhaseInv, Shown
  <2>8. QualifiedByWriter'
    BY <2>7 DEF QualifiedByWriter, NoVolume
  <2> QED
    BY <2>3, <2>6, <2>8 DEF QualifiedInv
<1>6. CASE PreflightDefrag
  <2>1. /\ phase = "preflight-defrag" /\ UNCHANGED <<said, backend, volume>>
        /\ \E answer \in {"yes", "no"} :
             /\ passed' = IF answer = "yes" THEN passed \cup {"defrag"} ELSE passed
             /\ map' = [map EXCEPT !["defrag"] = IF @ = "absent" THEN answer ELSE @]
    BY <1>6 DEF PreflightDefrag, Preflight
  <2>2. "defrag" \in Flags /\ Made
    BY <2>1 DEF Flags, Made
  <2> QED
    BY <1>0, <2>1, <2>2, PreflightAnswers
<1>7. CASE PreflightGrowth
  <2>1. /\ phase = "preflight-growth" /\ UNCHANGED <<said, backend, volume>>
        /\ \E answer \in {"yes", "no"} :
             /\ passed' = IF answer = "yes" THEN passed \cup {"growth"} ELSE passed
             /\ map' = [map EXCEPT !["growth"] = IF @ = "absent" THEN answer ELSE @]
    BY <1>7 DEF PreflightGrowth, Preflight
  <2>2. "growth" \in Flags /\ Made
    BY <2>1 DEF Flags, Made
  <2> QED
    BY <1>0, <2>1, <2>2, PreflightAnswers
<1>8. CASE Present
  <2>1. phase = "present" /\ UNCHANGED <<backend, map, said, passed>>
    BY <1>8 DEF Present
  <2>2. volume' = volume \/ volume' = [filesystem |-> backend_by_fstype(map.filesystem),
                                       exact |-> Exact, defrag |-> Exact /\ map.defrag = "yes",
                                       growth |-> Exact /\ map.growth = "yes"]
    BY <1>8, Zenon DEF Present
  <2>3. \A f \in Flags : map[f] = "yes" => QualifiedFor(f)
    BY <1>0, <2>1 DEF QualifiedInv, Made
  <2>4. \A f \in Flags : map'[f] = "yes" => QualifiedFor(f)'
    BY <2>1, <2>3 DEF QualifiedFor
  <2>5. QualifiedByWriter'
    <3>1. CASE volume' = volume
      BY <1>0, <2>1, <3>1 DEF QualifiedInv, QualifiedByWriter, QualifiedFor
    <3>2. CASE volume' # volume
      <4>1. volume'.exact = Exact /\ volume'.defrag = (Exact /\ map.defrag = "yes")
            /\ volume'.growth = (Exact /\ map.growth = "yes")
        BY <2>2, <3>2
      <4>2. map["defrag"] = map.defrag /\ map["growth"] = map.growth
            /\ "defrag" \in Flags /\ "growth" \in Flags
        BY DEF Flags
      <4> QED
        BY <2>1, <2>4, <4>1, <4>2 DEF QualifiedByWriter
    <3> QED
      BY <3>1, <3>2
  <2> QED
    BY <1>0, <2>1, <2>4, <2>5 DEF QualifiedInv
<1>9. CASE Display \/ Ended
  <2>1. UNCHANGED <<backend, map, volume, said, passed>> /\ (Made' => Made)
    BY <1>9, DisplayFrame DEF Ended, Made, Shown
  <2> QED
    BY <1>0, <2>1 DEF QualifiedInv, QualifiedByWriter, QualifiedFor
<1> QED
  BY <1>1, <1>4, <1>6, <1>7, <1>8, <1>9 DEF Next, Display

(* An event that fails leaves the cells it found. *)
LEMMA WholeStep ==
  ASSUME Inductive, Next
  PROVE  WholeInv'
<1>0. WholeInv /\ PhaseInv
  BY DEF Inductive
<1>1. CASE phase \notin {"live", "ranges", "marking"}
  <2>1. outcome' = "none" /\ phase' \notin {"ranges", "marking"}
    <3>1. outcome = "none" /\ ~Shown
      BY <1>0, <1>1 DEF PhaseInv, Shown
    <3>2. ~Display
      BY <3>1, DisplayFrame
    <3> QED
      BY <1>1, <3>1, <3>2 DEF Next, Display, TakeNamed, Identify, Choose, NoneRecognises, Scan,
         ScanFails, PreflightDefrag, PreflightGrowth, Preflight, Present, Ended
  <2> QED
    BY <2>1 DEF WholeInv, FailureHarmless
<1>2. CASE phase = "live"
  <2>1. CASE LiveRanges
    BY <2>1 DEF LiveRanges, Fails, WholeInv, FailureHarmless
  <2>2. CASE LiveReset
    BY <2>2 DEF LiveReset, Fails, WholeInv, FailureHarmless
  <2>3. CASE LiveResetReason
    BY <2>3, <1>2 DEF LiveResetReason, Fails, WholeInv, FailureHarmless
  <2>4. CASE LiveCells
    BY <2>4 DEF LiveCells, UpdateCells, Fails, WholeInv, FailureHarmless
  <2>5. CASE LiveCellsTrue
    BY <2>5 DEF LiveCellsTrue, UpdateCells, Fails, WholeInv, FailureHarmless
  <2>6. CASE Ended
    BY <1>0, <2>6 DEF Ended, WholeInv, FailureHarmless
  <2> QED
    BY <1>2, <2>1, <2>2, <2>3, <2>4, <2>5, <2>6 DEF Next, TakeNamed, Identify, NoneRecognises, Scan,
       ScanFails, PreflightDefrag, PreflightGrowth, Preflight, Present, MoveRange, CommitRanges,
       MarkRange, CommitReset
<1>3. CASE phase \in {"ranges", "marking"}
  <2>0. cells = before /\ outcome = "none"
    BY <1>0, <1>3 DEF WholeInv
  <2>1. CASE MoveRange
    <3>1. UNCHANGED before /\ UNCHANGED cells
      BY <2>1 DEF MoveRange, Fails, Keep
    <3>2. phase' = "live" \/ outcome' = outcome
      BY <2>1 DEF MoveRange, Fails, Keep
    <3> QED
      BY <2>0, <3>1, <3>2 DEF WholeInv, FailureHarmless
  <2>2. CASE CommitRanges
    BY <2>2 DEF CommitRanges, WholeInv, FailureHarmless
  <2>3. CASE MarkRange
    BY <2>0, <2>3 DEF MarkRange, Fails, WholeInv, FailureHarmless
  <2>4. CASE CommitReset
    BY <2>0, <2>4 DEF CommitReset, Fails, WholeInv, FailureHarmless
  <2> QED
    BY <1>3, <2>1, <2>2, <2>3, <2>4 DEF Next, TakeNamed, Identify, NoneRecognises, Scan,
       ScanFails, PreflightDefrag, PreflightGrowth, Preflight, Present, Comes, LiveRanges, LiveReset,
       LiveResetReason, LiveCells, LiveCellsTrue, Ended
<1> QED
  BY <1>1, <1>2, <1>3

(* The cells stay in order, and the patches of an event where they are. *)
LEMMA OrderStep ==
  ASSUME Inductive, Next
  PROVE  OrderInv'
<1>0. OrderInv /\ PhaseInv
  BY DEF Inductive
<1>1. CASE TakeNamed \/ Identify \/ NoneRecognises \/ ScanFails
  BY <1>1 DEF TakeNamed, Identify, NoneRecognises, ScanFails, Choose, OrderInv, Made, Shown
<1>2. CASE Scan
  <2>1. phase' \in {"preflight-defrag", "present"}
    BY <1>2 DEF Scan
  <2>2. PICK report \in Reports, requested \in {2, 3, Total + 2} :
          /\ Cells(MapAdapter(backend), report, requested) # Error
          /\ cells' = Cells(MapAdapter(backend), report, requested)
    BY <1>2 DEF Scan, Accepted
  <2>3. requested \in Nat
    BY UsesAssumption
  <2>4. Shaped(cells')
    BY <2>2, <2>3, MadeShaped
  <2> QED
    BY <2>1, <2>4 DEF OrderInv, Shown
<1>3. CASE PreflightDefrag \/ PreflightGrowth
  <2>1. phase \in {"preflight-defrag", "preflight-growth"} /\ UNCHANGED cells
        /\ phase' \in {"preflight-growth", "present"}
    BY <1>3 DEF PreflightDefrag, PreflightGrowth, Preflight
  <2> QED
    BY <1>0, <2>1 DEF OrderInv, Made, Shown
<1>4. CASE Present
  <2>1. /\ phase = "present" /\ UNCHANGED cells
        /\ phase' = "failed" \/ (phase' = "live" /\ InOrder(cells))
    BY <1>4 DEF Present
  <2> QED
    BY <1>0, <2>1 DEF OrderInv, Made, Shown
<1>5. CASE Display
  <2>0. Shaped(cells) /\ InOrder(cells)
    BY <1>0, <1>5, DisplayFrame DEF OrderInv, Made
  <2>a. ASSUME Shaped(cells') /\ InOrder(cells'), phase' = "live"
        PROVE  OrderInv'
    BY <2>a DEF OrderInv
  <2>b. CASE Fails
    BY <2>0, <2>a, <2>b DEF Fails
  <2>1. CASE LiveRanges /\ ~Fails
    <3>1. phase' = "ranges" /\ patches' = NoPatches /\ UNCHANGED cells
      BY <2>1 DEF LiveRanges
    <3>2. Patched(patches', cells)
      BY <3>1 DEF Patched, NoPatches
    <3> QED
      BY <2>0, <3>1, <3>2 DEF OrderInv
  <2>2. CASE MoveRange /\ ~Fails
    <3>0. phase = "ranges" /\ Patched(patches, cells)
      BY <1>0, <2>2 DEF MoveRange, OrderInv
    <3> DEFINE r == Head(event.ranges)
               released == IF event.allocate_only THEN patches
                           ELSE apply_range(patches, r[1], r[3], FALSE)
               taken == IF released = Error THEN Error ELSE apply_range(released, r[2], r[3], TRUE)
    <3>1. UNCHANGED <<phase, cells>> /\ (patches' = patches \/ (patches' = taken /\ taken # Error))
      BY <2>2 DEF MoveRange, Keep
    <3>2. released # Error => Patched(released, cells)
      BY <2>0, <3>0, ApplyRangePatches
    <3> HIDE DEF released
    <3>3. taken # Error => Patched(taken, cells)
      BY <2>0, <3>2, ApplyRangePatches
    <3>4. Patched(patches', cells)
      BY <3>0, <3>1, <3>3
    <3> QED
      BY <2>0, <3>0, <3>1, <3>4 DEF OrderInv
  <2>3. CASE CommitRanges
    <3>1. /\ phase = "ranges" /\ phase' = "live"
          /\ cells' = [k \in DOMAIN cells |-> effective_cell(patches, k)]
      BY <2>3 DEF CommitRanges
    <3>2. Patched(patches, cells)
      BY <1>0, <3>1 DEF OrderInv
    <3>3. \A k \in DOMAIN cells : Placed(effective_cell(patches, k), cells[k])
      BY <2>0, <3>2, ShapedLength DEF effective_cell, Patched, Placed
    <3>4. cells' = [k \in DOMAIN cells |-> cells'[k]]
          /\ \A k \in DOMAIN cells : Placed(cells'[k], cells[k])
      BY <3>1, <3>3
    <3>5. Shaped(cells') /\ InOrder(cells')
      BY <2>0, <3>4, SamePlaces
    <3> QED
      BY <3>1, <3>5, <2>a
  <2>4. CASE LiveReset /\ ~Fails
    <3>1. PICK e \in ResetEvents :
            /\ phase' = "marking" /\ UNCHANGED cells
            /\ patches' = [k \in DOMAIN cells |-> Blank(cells[k], e.units)]
      BY <2>4 DEF LiveReset
    <3>2. \A k \in DOMAIN cells : Placed(cells[k], cells[k])
      BY <2>0, ShapedLength DEF Placed
    <3>3. \A k \in DOMAIN cells : Placed(Blank(cells[k], e.units), cells[k])
      BY <3>2, BlankPlaced
    <3>4. patches' = [k \in DOMAIN cells |-> patches'[k]] /\ Patched(patches', cells)
      BY <3>1, <3>3 DEF Patched
    <3> QED
      BY <2>0, <3>1, <3>4 DEF OrderInv
  <2>5. CASE MarkRange /\ ~Fails
    <3>1. /\ phase = "marking" /\ UNCHANGED <<phase, cells>>
          /\ patches' = Mark(event.units, event.unit, patches, Head(event.used_ranges))
      BY <2>5 DEF MarkRange
    <3>2. patches = [k \in DOMAIN cells |-> patches[k]] /\ Patched(patches, cells)
      BY <1>0, <3>1 DEF OrderInv
    <3>3. patches' = [k \in DOMAIN cells |-> patches'[k]] /\ Patched(patches', cells)
      BY <3>1, <3>2, MarkPatches
    <3> QED
      BY <2>0, <3>1, <3>3 DEF OrderInv
  <2>6. CASE CommitReset /\ ~Fails
    <3>1. phase = "marking" /\ phase' = "live" /\ cells' = patches
      BY <2>6 DEF CommitReset
    <3>2. patches = [k \in DOMAIN cells |-> patches[k]] /\ Patched(patches, cells)
      BY <1>0, <3>1 DEF OrderInv
    <3>3. \A k \in DOMAIN cells : Placed(patches[k], cells[k])
      BY <3>2 DEF Patched
    <3>4. Shaped(patches) /\ InOrder(patches)
      BY <2>0, <3>2, <3>3, SamePlaces
    <3> QED
      BY <3>1, <3>4, <2>a
  <2>7. CASE LiveResetReason /\ ~Fails
    BY <2>0, <2>7, <2>a DEF LiveResetReason, Comes
  <2>8. CASE LiveCells /\ ~Fails
    <3>1. PICK e \in CellEvents :
            /\ validate_patched_cell_order(Updates(e)) /\ phase' = "live"
            /\ cells' = [k \in DOMAIN cells |-> effective_cell(Updates(e), k)]
      BY <2>8 DEF LiveCells, UpdateCells
    <3>2. \A k \in DOMAIN Updates(e) : k \in DOMAIN cells
                                       /\ {"start", "end"} \subseteq DOMAIN Updates(e)[k]
      BY <2>0, UpdatesShape
    <3>3. Shaped(cells') /\ InOrder(cells')
      BY <2>0, <3>1, <3>2, PatchedOrder
    <3> QED
      BY <3>1, <3>3, <2>a
  <2>9. CASE LiveCellsTrue /\ ~Fails
    <3> DEFINE p(taken) == [k \in {k \in DOMAIN cells : ~Faithful(cells[k], taken)} |->
                              Recount(cells[k], taken)]
    <3>1. PICK taken \in Uses :
            /\ validate_patched_cell_order(p(taken)) /\ phase' = "live"
            /\ cells' = [k \in DOMAIN cells |-> effective_cell(p(taken), k)]
      BY <2>9 DEF LiveCellsTrue, UpdateCells
    <3>2. \A k \in DOMAIN cells : Placed(cells[k], cells[k])
      BY <2>0, ShapedLength DEF Placed
    <3>3. \A k \in DOMAIN cells : {"start", "end"} \subseteq DOMAIN Recount(cells[k], taken)
      BY <3>2, RecountPlaced DEF Placed
    <3>4. \A k \in DOMAIN p(taken) : k \in DOMAIN cells
                                     /\ {"start", "end"} \subseteq DOMAIN p(taken)[k]
      BY <3>3
    <3> HIDE DEF p
    <3>5. Shaped(cells') /\ InOrder(cells')
      BY <2>0, <3>1, <3>4, PatchedOrder
    <3> QED
      BY <3>1, <3>5, <2>a
  <2> QED
    BY <1>5, <2>b, <2>1, <2>2, <2>3, <2>4, <2>5, <2>6, <2>7, <2>8, <2>9 DEF Display
<1>6. CASE Ended
  BY <1>0, <1>6 DEF Ended, OrderInv, Made, Shown
<1> QED
  BY <1>1, <1>2, <1>3, <1>4, <1>5, <1>6 DEF Next, Display

LEMMA InductiveInit == Init => Inductive
<1> SUFFICES ASSUME Init PROVE Inductive
  OBVIOUS
<1>1. phase = "choose" /\ candidate = 1 /\ outcome = "none" /\ volume = NoVolume /\ map = NoMap
  BY DEF Init
<1>2. PhaseInv
  BY <1>1 DEF PhaseInv
<1>3. BackendInv
  BY <1>1 DEF BackendInv, Made, Shown
<1>4. QualifiedInv
  BY <1>1 DEF QualifiedInv, QualifiedByWriter, NoVolume, NoMap, Flags, Made, Shown
<1>5. WholeInv
  BY <1>1 DEF WholeInv, FailureHarmless
<1>6. OrderInv
  BY <1>1 DEF OrderInv, Made, Shown
<1> QED
  BY <1>2, <1>3, <1>4, <1>5, <1>6 DEF Inductive

LEMMA InductiveStep ==
  ASSUME Inductive, [Next]_vars
  PROVE  Inductive'
<1>1. CASE Next
  BY <1>1, PhaseStep, BackendStep, QualifiedStep, WholeStep, OrderStep DEF Inductive
<1>2. CASE UNCHANGED vars
  <2>1. PhaseInv' /\ BackendInv'
    BY <1>2 DEF Inductive, PhaseInv, BackendInv, Made, Shown
  <2>2. QualifiedInv'
    BY <1>2 DEF Inductive, QualifiedInv, Made, Shown, QualifiedByWriter, QualifiedFor
  <2>3. WholeInv'
    BY <1>2 DEF Inductive, WholeInv, FailureHarmless
  <2>4. OrderInv'
    BY <1>2 DEF Inductive, OrderInv, Made, Shown
  <2> QED
    BY <2>1, <2>2, <2>3, <2>4 DEF Inductive
<1> QED
  BY <1>1, <1>2

-----------------------------------------------------------------------------
(* The way of a map: chosen, made, qualified, shown, and updated in patches that *)
(* lie where the cells do.                                                       *)
THEOREM MapInvariance == Spec => []Inductive
BY InductiveInit, InductiveStep, PTL DEF Spec

(* Whatever a worker reports and a writer sends, the cells of the display are    *)
(* ascending and disjoint, as lower_bound in apply_range needs them.             *)
THEOREM OrderKept == Spec => []CellsInOrder
<1>1. Inductive => CellsInOrder
  BY DEF Inductive, OrderInv, CellsInOrder
<1> QED
  BY <1>1, MapInvariance, PTL

(* An event refused at any of its ranges leaves the display as it was: ranges, a *)
(* reset and cell updates are applied whole or not at all.                       *)
THEOREM RefusalHarmless == Spec => []FailureHarmless
<1>1. Inductive => FailureHarmless
  BY DEF Inductive, WholeInv
<1> QED
  BY <1>1, MapInvariance, PTL

(* The map that is shown was made by the backend the volume is known by, for     *)
(* every name a volume can be asked for by and every answer of a worker.         *)
THEOREM BackendKnown == Spec => []RightBackend
<1>1. Inductive => RightBackend
  BY DEF Inductive, BackendInv, RightBackend
<1> QED
  BY <1>1, MapInvariance, PTL

(* A volume is qualified for an operation only by an exact map and the writer's  *)
(* own word for that operation.                                                  *)
THEOREM WriterQualifies == Spec => []QualifiedByWriter
<1>1. Inductive => QualifiedByWriter
  BY DEF Inductive, QualifiedInv
<1> QED
  BY <1>1, MapInvariance, PTL

-----------------------------------------------------------------------------
(* What the cells count *)

LEMMA CountsNat == MaxU \in Nat /\ Counts \subseteq Nat /\ \A n \in Counts : n <= MaxU
BY WidthAssumption DEF Counts

LEMMA CellCountsTyped ==
  ASSUME NEW c \in MapCells
  PROVE  /\ c.start \in Counts /\ c.end \in Counts /\ c.free \in Counts /\ c.used \in Counts
         /\ c.unknown \in Counts /\ c.outside \in Counts /\ c.bad \in Counts
         /\ c.fragmented \in Counts /\ c.directory \in Counts
BY DEF MapCells

LEMMA DivMono ==
  ASSUME NEW a \in Nat, NEW b \in Nat, a <= b, NEW u \in Nat \ {0}
  PROVE  /\ a \div u \in Nat /\ ceiling_units(b, u) \in Nat
         /\ a \div u <= ceiling_units(b, u)
<1>1. /\ a % u \in 0 .. u - 1 /\ a \div u \in Nat /\ a = u * (a \div u) + (a % u)
      /\ b % u \in 0 .. u - 1 /\ b \div u \in Nat /\ b = u * (b \div u) + (b % u)
  OBVIOUS
<1>2. a \div u <= b \div u
  <2> DEFINE x == a \div u
             y == b \div u
             r == a % u
             t == b % u
  <2>1. x \in Nat /\ y \in Nat /\ r \in Nat /\ t \in Nat /\ t < u /\ u * x + r <= u * y + t
    BY <1>1
  <2> HIDE DEF x, y, r, t
  <2>2. SUFFICES ASSUME x > y PROVE FALSE
    BY <2>1 DEF x, y
  <2>3. u * x >= u * (y + 1)
    BY <2>1, <2>2
  <2>4. u * (y + 1) = u * y + u
    BY <2>1
  <2> QED
    BY <2>1, <2>3, <2>4
<1> QED
  BY <1>1, <1>2 DEF ceiling_units

(* The cell Moved makes, field by field. *)
LEMMA MovedFields ==
  ASSUME NEW c \in MapCells, NEW overlap \in Nat, NEW to_used \in BOOLEAN
  PROVE  LET d == Moved(c, overlap, to_used) IN
         /\ d.start = c.start /\ d.end = c.end /\ d.unknown = c.unknown /\ d.outside = c.outside
         /\ d.bad = c.bad /\ d.free \in Nat /\ d.used \in Nat /\ d.free + d.used = c.free + c.used
         /\ d.fragmented \in Counts /\ d.directory \in Counts
         /\ c.fragmented <= c.used => d.fragmented <= d.used
         /\ c.directory <= c.used => d.directory <= d.used
         /\ d = [start |-> c.start, end |-> c.end, free |-> d.free, used |-> d.used,
                 unknown |-> c.unknown, outside |-> c.outside, bad |-> c.bad,
                 fragmented |-> d.fragmented, directory |-> d.directory]
<1>0. /\ c.free \in Nat /\ c.used \in Nat /\ c.fragmented \in Nat /\ c.directory \in Nat
      /\ c.free <= MaxU /\ c.used <= MaxU /\ c.fragmented \in Counts /\ c.directory \in Counts
  BY CellCountsTyped, CountsNat
<1>1. c = [start |-> c.start, end |-> c.end, free |-> c.free, used |-> c.used,
           unknown |-> c.unknown, outside |-> c.outside, bad |-> c.bad,
           fragmented |-> c.fragmented, directory |-> c.directory]
  BY DEF MapCells
<1>2. CASE to_used
  <2> DEFINE moved == Least(overlap, c.free)
             d == Moved(c, overlap, TRUE)
  <2>1. moved \in Nat /\ moved <= c.free
    BY <1>0 DEF Least
  <2>2. d = [c EXCEPT !.free = c.free - moved, !.used = c.used + moved]
    BY DEF Moved
  <2> HIDE DEF moved, d
  <2>3. d = [start |-> c.start, end |-> c.end, free |-> c.free - moved, used |-> c.used + moved,
             unknown |-> c.unknown, outside |-> c.outside, bad |-> c.bad,
             fragmented |-> c.fragmented, directory |-> c.directory]
    BY <1>1, <2>2
  <2>4. /\ d.start = c.start /\ d.end = c.end /\ d.unknown = c.unknown /\ d.outside = c.outside
        /\ d.bad = c.bad /\ d.free = c.free - moved /\ d.used = c.used + moved
        /\ d.fragmented = c.fragmented /\ d.directory = c.directory
    BY <2>3
  <2>5. to_used = TRUE /\ Moved(c, overlap, to_used) = d
    BY <1>2 DEF d
  <2> QED
    BY <1>0, <2>1, <2>3, <2>4, <2>5
<1>3. CASE ~to_used
  <2> DEFINE moved == Least(overlap, c.used)
             left == c.used - moved
             share(n) == Least(n, Rounded(moved * n, Most(1, c.used)))
             keep(n) == Least(n - share(n), left)
             d == Moved(c, overlap, FALSE)
  <2>1. moved \in Nat /\ moved <= c.used /\ left \in Nat /\ left <= c.used
    BY <1>0 DEF Least
  <2>2. ASSUME NEW n \in Nat
        PROVE  keep(n) \in Nat /\ keep(n) <= left
    <3> DEFINE s == Rounded(moved * n, Most(1, c.used))
    <3>1. s \in Int
      <4>1. Most(1, c.used) \in Nat \ {0}
        BY <1>0 DEF Most
      <4>2. moved * n \in Nat
        BY <2>1
      <4> HIDE DEF moved
      <4> QED
        BY <4>1, <4>2 DEF Rounded
    <3> HIDE DEF s
    <3>2. share(n) \in Int /\ share(n) <= n
      BY <3>1 DEF Least, s
    <3> HIDE DEF share, left
    <3> QED
      BY <2>1, <3>2 DEF Least
  <2>3. d = [c EXCEPT !.used = left, !.free = c.free + moved,
                      !.fragmented = keep(c.fragmented), !.directory = keep(c.directory)]
    BY DEF Moved
  <2> HIDE DEF moved, left, keep, d
  <2>4. d = [start |-> c.start, end |-> c.end, free |-> c.free + moved, used |-> left,
             unknown |-> c.unknown, outside |-> c.outside, bad |-> c.bad,
             fragmented |-> keep(c.fragmented), directory |-> keep(c.directory)]
    BY <1>1, <2>3
  <2>5. /\ d.start = c.start /\ d.end = c.end /\ d.unknown = c.unknown /\ d.outside = c.outside
        /\ d.bad = c.bad /\ d.free = c.free + moved /\ d.used = left
        /\ d.fragmented = keep(c.fragmented) /\ d.directory = keep(c.directory)
    BY <2>4
  <2>6. to_used = FALSE /\ Moved(c, overlap, to_used) = d
    BY <1>3 DEF d
  <2>7. /\ keep(c.fragmented) \in Nat /\ keep(c.fragmented) <= left
        /\ keep(c.directory) \in Nat /\ keep(c.directory) <= left
    BY <1>0, <2>2
  <2>8. keep(c.fragmented) \in Counts /\ keep(c.directory) \in Counts
    BY <1>0, <2>1, <2>7, WidthAssumption DEF Counts
  <2>9. left + moved = c.used
    BY <1>0, <2>1 DEF left
  <2> QED
    BY <1>0, <2>1, <2>4, <2>5, <2>6, <2>7, <2>8, <2>9
<1> QED
  BY <1>2, <1>3

(* What a cell of backend b counts, as AddsUp says it. *)
Balanced(b, c) ==
  /\ c.free + c.used + c.unknown + c.outside
       + (IF MapAdapter(b) = "native" THEN c.bad ELSE 0) = Span(c)
  /\ c.fragmented <= c.used /\ c.directory <= c.used

(* Moving units between free and used keeps the balance. *)
LEMMA MovedBalanced ==
  ASSUME NEW c \in MapCells, NEW overlap \in Nat, NEW to_used \in BOOLEAN
  PROVE  LET d == Moved(c, overlap, to_used) IN
         /\ d.free <= MaxU /\ d.used <= MaxU => d \in MapCells
         /\ \A b : Balanced(b, c) => Balanced(b, d)
<1> DEFINE d == Moved(c, overlap, to_used)
<1>1. /\ d.start = c.start /\ d.end = c.end /\ d.unknown = c.unknown /\ d.outside = c.outside
      /\ d.bad = c.bad /\ d.free \in Nat /\ d.used \in Nat /\ d.free + d.used = c.free + c.used
      /\ d.fragmented \in Counts /\ d.directory \in Counts
      /\ c.fragmented <= c.used => d.fragmented <= d.used
      /\ c.directory <= c.used => d.directory <= d.used
      /\ d = [start |-> c.start, end |-> c.end, free |-> d.free, used |-> d.used,
              unknown |-> c.unknown, outside |-> c.outside, bad |-> c.bad,
              fragmented |-> d.fragmented, directory |-> d.directory]
  BY MovedFields
<1> HIDE DEF d
<1>2. /\ c.start \in Counts /\ c.end \in Counts /\ c.free \in Counts /\ c.used \in Counts
      /\ c.unknown \in Counts /\ c.outside \in Counts /\ c.bad \in Counts
  BY CellCountsTyped
<1>3. d.free <= MaxU /\ d.used <= MaxU => d \in MapCells
  <2> SUFFICES ASSUME d.free <= MaxU, d.used <= MaxU PROVE d \in MapCells
    OBVIOUS
  <2>1. d.free \in Counts /\ d.used \in Counts
    BY <1>1, WidthAssumption DEF Counts
  <2> QED
    BY <1>1, <1>2, <2>1 DEF MapCells
<1>4. ASSUME NEW b, Balanced(b, c)
      PROVE  Balanced(b, d)
  <2>1. c.free \in Nat /\ c.used \in Nat /\ c.unknown \in Nat /\ c.outside \in Nat /\ c.bad \in Nat
    BY <1>2, CountsNat
  <2>2. CASE MapAdapter(b) = "native"
    BY <1>1, <1>4, <2>1, <2>2 DEF Balanced, Span
  <2>3. CASE MapAdapter(b) # "native"
    BY <1>1, <1>4, <2>1, <2>3 DEF Balanced, Span
  <2> QED
    BY <2>2, <2>3
<1> QED
  BY <1>3, <1>4 DEF d

(* What a range shares with a cell it reaches. *)
LEMMA CommonNat ==
  ASSUME NEW c, c.start \in Nat, c.end \in Nat, c.start <= c.end,
         NEW first \in Nat, NEW last \in Nat, first <= last, c.end >= first, c.start < last
  PROVE  Common(c, first, last) \in Nat
BY DEF Common, Least, Most

(* One range, released or taken. *)
LEMMA ApplyRangeBalanced ==
  ASSUME Shaped(cells), InOrder(cells), \A k \in DOMAIN cells : cells[k] \in MapCells,
         unit \in Counts \ {0},
         NEW p, Patched(p, cells), \A k \in DOMAIN p : p[k] \in MapCells,
         NEW first_byte \in Counts, NEW length \in Counts, NEW to_used \in BOOLEAN,
         apply_range(p, first_byte, length, to_used) # Error
  PROVE  LET q == apply_range(p, first_byte, length, to_used) IN
         /\ \A k \in DOMAIN q : q[k] \in MapCells
         /\ \A b : /\ \A k \in DOMAIN cells : Balanced(b, cells[k])
                   /\ \A k \in DOMAIN p : Balanced(b, p[k])
                   => \A k \in DOMAIN q : Balanced(b, q[k])
<1> DEFINE first == first_byte \div unit
           last == ceiling_units(first_byte + length, unit)
           new == [k \in Reached(first, last) |->
                     Moved(effective_cell(p, k), Common(cells[k], first, last), to_used)]
           q == apply_range(p, first_byte, length, to_used)
<1>1. first \in Nat /\ last \in Nat /\ first <= last
  <2>1. first_byte \in Nat /\ length \in Nat /\ unit \in Nat \ {0}
    BY CountsNat
  <2>2. first_byte + length \in Nat /\ first_byte <= first_byte + length
    BY <2>1
  <2> QED
    BY <2>1, <2>2, DivMono
<1>2. q = p \/ (q = Patch(p, new) /\ \A k \in DOMAIN new : Representable(new[k]))
  BY DEF apply_range
<1> HIDE DEF first, last, q
<1>3. ASSUME NEW k \in Reached(first, last)
      PROVE  /\ k \in DOMAIN cells /\ effective_cell(p, k) \in MapCells
             /\ Common(cells[k], first, last) \in Nat
  <2>1. k \in DOMAIN cells /\ cells[k].end >= first /\ cells[k].start < last
    BY <1>3 DEF Reached
  <2>2. cells[k].start \in Nat /\ cells[k].end \in Nat /\ cells[k].start <= cells[k].end
    BY <2>1, CellCountsTyped, CountsNat DEF InOrder
  <2>3. Common(cells[k], first, last) \in Nat
    BY <1>1, <2>1, <2>2, CommonNat
  <2> QED
    BY <2>1, <2>3 DEF effective_cell
<1>4. \A k \in DOMAIN new : new[k] = Moved(effective_cell(p, k), Common(cells[k], first, last), to_used)
      /\ k \in Reached(first, last)
  OBVIOUS
<1> HIDE DEF new
<1>5. ASSUME NEW k \in DOMAIN new, Representable(new[k])
      PROVE  new[k] \in MapCells
  BY <1>3, <1>4, <1>5, MovedBalanced DEF Representable
<1>6. ASSUME NEW b, \A k \in DOMAIN cells : Balanced(b, cells[k]),
             \A k \in DOMAIN p : Balanced(b, p[k]), NEW k \in DOMAIN new
      PROVE  Balanced(b, new[k])
  <2>1. Balanced(b, effective_cell(p, k))
    BY <1>3, <1>4, <1>6 DEF effective_cell
  <2> QED
    BY <1>3, <1>4, <2>1, MovedBalanced
<1>7. CASE q = p
  BY <1>7 DEF q
<1>8. CASE q = Patch(p, new) /\ \A k \in DOMAIN new : Representable(new[k])
  <2>1. \A k \in DOMAIN q : \/ k \in DOMAIN new /\ q[k] = new[k]
                            \/ k \in DOMAIN p /\ q[k] = p[k]
    BY <1>8, Zenon DEF Patch
  <2>2. \A k \in DOMAIN q : q[k] \in MapCells
    BY <1>5, <1>8, <2>1
  <2>3. ASSUME NEW b, \A k \in DOMAIN cells : Balanced(b, cells[k]),
               \A k \in DOMAIN p : Balanced(b, p[k])
        PROVE  \A k \in DOMAIN q : Balanced(b, q[k])
    BY <1>6, <2>1, <2>3
  <2> QED
    BY <2>2, <2>3 DEF q
<1> QED
  BY <1>2, <1>7, <1>8

(* One mark of a reset. *)
LEMMA MarkBalanced ==
  ASSUME NEW cs, cs = [k \in DOMAIN cells |-> cs[k]], Patched(cs, cells), InOrder(cells),
         \A k \in DOMAIN cells : cells[k] \in MapCells /\ cells[k].end < MaxU,
         NEW b, \A k \in DOMAIN cs : cs[k] \in MapCells /\ Balanced(b, cs[k]),
         NEW total \in Counts, NEW size \in Counts \ {0},
         NEW r, r[1] \in Counts, r[2] \in Counts
  PROVE  LET ds == Mark(total, size, cs, r) IN
         \A k \in DOMAIN ds : ds[k] \in MapCells /\ Balanced(b, ds[k])
<1> DEFINE limit == total * size
           to == r[1] + Least(r[2], limit - r[1])
           first == r[1] \div size
           last == ceiling_units(to, size)
           new == [k \in DOMAIN cs |-> IF k \in Reached(first, last)
                                        THEN Moved(cs[k], Common(cs[k], first, last), TRUE)
                                        ELSE cs[k]]
           ds == Mark(total, size, cs, r)
<1>1. CASE r[1] >= limit
  BY <1>1 DEF Mark
<1>2. CASE ~(r[1] >= limit)
  <2>0. total \in Nat /\ size \in Nat \ {0} /\ r[1] \in Nat /\ r[2] \in Nat /\ limit \in Nat
    BY CountsNat
  <2>1. ds = new
    BY <1>2 DEF Mark
  <2>2. to \in Nat /\ r[1] <= to
    <3> HIDE DEF limit
    <3> QED
      BY <1>2, <2>0 DEF Least
  <2>3. first \in Nat /\ last \in Nat /\ first <= last
    <3> HIDE DEF to
    <3> QED
      BY <2>0, <2>2, DivMono
  <2> HIDE DEF first, last, ds
  <2>4. ASSUME NEW k \in DOMAIN cs
        PROVE  new[k] \in MapCells /\ Balanced(b, new[k])
    <3>1. CASE k \notin Reached(first, last)
      BY <2>4, <3>1
    <3>2. CASE k \in Reached(first, last)
      <4> DEFINE c == cs[k]
                 d == Moved(c, Common(c, first, last), TRUE)
      <4>0. k \in DOMAIN cells /\ c.start = cells[k].start /\ c.end = cells[k].end
            /\ c \in MapCells /\ Balanced(b, c)
        BY <2>4 DEF Patched, Placed
      <4>1. cells[k].end >= first /\ cells[k].start < last /\ cells[k].start <= cells[k].end
        BY <3>2, <4>0 DEF Reached, InOrder
      <4>2. c.start \in Nat /\ c.end \in Nat /\ c.end < MaxU
        BY <4>0, CellCountsTyped, CountsNat
      <4>3. Common(c, first, last) \in Nat
        <5> HIDE DEF c
        <5> QED
          BY <2>3, <4>0, <4>1, <4>2, CommonNat
      <4>4. new[k] = d
        BY <2>4, <3>2
      <4> HIDE DEF c, d
      <4>5. /\ d.free \in Nat /\ d.used \in Nat /\ d.free + d.used = c.free + c.used
        BY <4>0, <4>3, MovedFields DEF d
      <4>6. /\ d.free <= MaxU /\ d.used <= MaxU => d \in MapCells
            /\ Balanced(b, d)
        BY <4>0, <4>3, MovedBalanced DEF d
      <4>7. c.free + c.used <= MaxU
        <5>1. c.free \in Nat /\ c.used \in Nat /\ c.unknown \in Nat /\ c.outside \in Nat /\ c.bad \in Nat
          BY <4>0, CellCountsTyped, CountsNat
        <5>2. c.free + c.used <= c.end - c.start + 1
          <6>1. CASE MapAdapter(b) = "native"
            BY <4>0, <4>2, <5>1, <6>1 DEF Balanced, Span
          <6>2. CASE MapAdapter(b) # "native"
            BY <4>0, <4>2, <5>1, <6>2 DEF Balanced, Span
          <6> QED
            BY <6>1, <6>2
        <5> QED
          BY <4>2, <5>1, <5>2, WidthAssumption
      <4>8. c.free \in Nat /\ c.used \in Nat
        BY <4>0, CellCountsTyped, CountsNat
      <4>9. d.free <= MaxU /\ d.used <= MaxU
        BY <4>5, <4>7, <4>8, WidthAssumption
      <4> QED
        BY <4>4, <4>6, <4>9
    <3> QED
      BY <3>1, <3>2
  <2>5. DOMAIN new = DOMAIN cs
    OBVIOUS
  <2> HIDE DEF new
  <2> QED
    BY <2>1, <2>4, <2>5 DEF ds
<1> QED
  BY <1>1, <1>2

(* The last cell ends last. *)
LEMMA LastEnds ==
  ASSUME Shaped(cells), InOrder(cells), \A k \in DOMAIN cells : cells[k] \in MapCells,
         NEW k \in DOMAIN cells
  PROVE  cells[k].end <= Last(cells).end
<1> DEFINE n == Len(cells)
           S == {j \in 1 .. n : cells[j].end > cells[n].end}
<1>1. n \in Nat /\ DOMAIN cells = 1 .. n
  BY ShapedLength
<1>2. \A j \in 1 .. n : cells[j].start \in Nat /\ cells[j].end \in Nat
  BY <1>1, CellCountsTyped, CountsNat
<1>3. Last(cells) = cells[n]
  BY DEF Last
<1> HIDE DEF n
<1>4. SUFFICES ASSUME S # {} PROVE FALSE
  BY <1>1, <1>2, <1>3
<1>5. PICK m \in S : \A y \in S : m >= y
  <2>1. S \in SUBSET (1 .. n)
    OBVIOUS
  <2> HIDE DEF S
  <2> QED
    BY <1>1, <1>4, <2>1, Greatest
<1>6. m \in 1 .. n /\ cells[m].end > cells[n].end
  OBVIOUS
<1>7. m < n /\ m + 1 \in 1 .. n /\ (m + 1) - 1 = m /\ m + 1 > 1
  BY <1>1, <1>2, <1>6
<1>8. cells[m + 1].start <= cells[m + 1].end /\ cells[(m + 1) - 1].end < cells[m + 1].start
  BY <1>1, <1>7 DEF InOrder
<1>9. cells[m + 1].end > cells[n].end
  BY <1>1, <1>2, <1>6, <1>7, <1>8
<1> QED
  BY <1>1, <1>5, <1>6, <1>7, <1>9

-----------------------------------------------------------------------------
(* The invariant of the counts *)

(* The counts of the display are counts, and they add up as long as what came  *)
(* did; so do the patches of an event under way.                               *)
CountInv ==
  /\ backend \in Ids \cup {NoBackend} /\ used \subseteq Units
  /\ "use" \in DOMAIN told /\ told.use \subseteq Units
  /\ unit \in Counts /\ \A k \in DOMAIN cells : cells[k] \in MapCells
BalanceInv == Made /\ proper => \A k \in DOMAIN cells : Balanced(backend, cells[k])
RangesInv ==
  phase = "ranges" =>
    /\ unit # 0 /\ event \in RangeEvent
    /\ \A k \in DOMAIN patches : patches[k] \in MapCells /\ (proper => Balanced(backend, patches[k]))
MarkingInv ==
  phase = "marking" =>
    /\ event \in ResetEvent /\ event.unit # 0
    /\ \A k \in DOMAIN cells : cells[k].end < MaxU
    /\ \A k \in DOMAIN patches : patches[k] \in MapCells /\ Balanced(backend, patches[k])
Counting == CountInv /\ BalanceInv /\ RangesInv /\ MarkingInv

(* Every accepted report gives cells that add up. *)
LEMMA ScanBalanced ==
  ASSUME RangeMapsAddUp, NEW report \in Reports, report.adapter = MapAdapter(backend),
         NEW requested \in {2, 3, Total + 2},
         Cells(MapAdapter(backend), report, requested) # Error
  PROVE  LET made == Cells(MapAdapter(backend), report, requested) IN
         \A k \in DOMAIN made : made[k] \in MapCells /\ Balanced(backend, made[k])
<1> DEFINE made == Cells(MapAdapter(backend), report, requested)
<1>0. Len(report.cells) \in Nat /\ DOMAIN report.cells = 1 .. Len(report.cells)
      /\ \A k \in DOMAIN report.cells : report.cells[k] \in MapCells
  <2>1. report.cells \in Seq(MapCells)
    BY ReportsAssumption
  <2> HIDE DEF made
  <2> QED
    BY <2>1
<1>1. CASE MapAdapter(backend) = "native"
  <2>1. made = report.cells /\ validate_native_map(report)
    BY <1>1 DEF Cells
  <2> HIDE DEF made
  <2>2. \A k \in DOMAIN made : Balanced(backend, made[k])
    BY <1>1, <2>1 DEF validate_native_map, Balanced
  <2> QED
    BY <1>0, <2>1, <2>2 DEF made
<1>2. CASE MapAdapter(backend) = "fat"
  <2>1. made = report.cells /\ map_fat_valid(report)
    BY <1>2 DEF Cells
  <2>2. \A k \in DOMAIN report.cells : report.cells[k].unknown = 0 /\ report.cells[k].outside = 0
    BY <1>2, ReportsAssumption
  <2> HIDE DEF made
  <2>3. ASSUME NEW k \in DOMAIN made
        PROVE  Balanced(backend, made[k])
    <3> DEFINE c == report.cells[k]
    <3>1. c.free + c.used = Span(c) /\ c.fragmented <= c.used /\ c.directory <= c.used
          /\ c.unknown = 0 /\ c.outside = 0 /\ c \in MapCells
      BY <1>0, <2>1, <2>2, <2>3 DEF map_fat_valid
    <3>2. c.free \in Nat /\ c.used \in Nat
      <4> HIDE DEF c
      <4> QED
        BY <3>1, CellCountsTyped, CountsNat
    <3>3. MapAdapter(backend) # "native" /\ made[k] = c
      BY <1>2, <2>1
    <3> HIDE DEF c
    <3> QED
      BY <3>1, <3>2, <3>3 DEF Balanced
  <2> QED
    BY <1>0, <2>1, <2>3 DEF made
<1>3. CASE MapAdapter(backend) \notin {"native", "fat"}
  <2>1. made \in {generic_free_range_map(report, requested), map_ext(report, requested)}
    BY <1>3 DEF Cells
  <2> HIDE DEF made
  <2>2. made # Error
    BY DEF made
  <2>3. ASSUME NEW k \in DOMAIN made
        PROVE  made[k] \in MapCells /\ Balanced(backend, made[k])
    <3> DEFINE c == made[k]
    <3>1. Tallied(c)
      BY <2>1, <2>2, <2>3 DEF RangeMapsAddUp
    <3> HIDE DEF c
    <3>2. c \in MapCells /\ c.free + c.used + c.unknown + c.outside = Span(c)
          /\ c.fragmented <= c.used /\ c.directory <= c.used
      BY <3>1 DEF Tallied
    <3>3. c.free \in Nat /\ c.used \in Nat /\ c.unknown \in Nat /\ c.outside \in Nat
      BY <3>2, CellCountsTyped, CountsNat
    <3>4. Balanced(backend, c)
      BY <1>3, <3>2, <3>3 DEF Balanced
    <3> QED
      BY <3>2, <3>4 DEF c
  <2> QED
    BY <2>3 DEF made
<1> QED
  BY <1>1, <1>2, <1>3

(* The blanked copy of a reset. *)
LEMMA BlankBalanced ==
  ASSUME NEW c \in MapCells, c.start <= c.end, c.end < MaxU, NEW total \in Counts
  PROVE  Blank(c, total) \in MapCells /\ \A b : Balanced(b, Blank(c, total))
<1> DEFINE inside == IF c.start >= total THEN 0 ELSE Least(c.end + 1, total) - c.start
           rest == c.end + 1 - c.start - inside
           d == Blank(c, total)
<1>0. c.start \in Nat /\ c.end \in Nat /\ total \in Nat /\ MaxU \in Nat
      /\ c.start \in Counts /\ c.end \in Counts
  BY CellCountsTyped, CountsNat
<1>1. inside \in Nat /\ rest \in Nat /\ inside + rest = c.end - c.start + 1
  BY <1>0 DEF Least
<1>2. inside \in Counts /\ rest \in Counts /\ 0 \in Counts
  <2> HIDE DEF inside, rest
  <2> QED
    BY <1>0, <1>1 DEF Counts
<1>3. c = [start |-> c.start, end |-> c.end, free |-> c.free, used |-> c.used,
           unknown |-> c.unknown, outside |-> c.outside, bad |-> c.bad,
           fragmented |-> c.fragmented, directory |-> c.directory]
  BY DEF MapCells
<1>4. d = [c EXCEPT !.free = inside, !.used = 0, !.unknown = 0, !.outside = rest,
                    !.fragmented = 0, !.directory = 0, !.bad = 0]
  BY DEF Blank
<1> HIDE DEF inside, rest, d
<1>5. d = [start |-> c.start, end |-> c.end, free |-> inside, used |-> 0, unknown |-> 0,
           outside |-> rest, bad |-> 0, fragmented |-> 0, directory |-> 0]
  BY <1>3, <1>4
<1>6. d \in MapCells
  BY <1>0, <1>2, <1>5 DEF MapCells
<1>7. /\ d.start = c.start /\ d.end = c.end /\ d.free = inside /\ d.used = 0 /\ d.unknown = 0
      /\ d.outside = rest /\ d.bad = 0 /\ d.fragmented = 0 /\ d.directory = 0
  BY <1>5
<1>8. \A b : Balanced(b, d)
  BY <1>0, <1>1, <1>7 DEF Balanced, Span
<1> QED
  BY <1>6, <1>8 DEF d

(* A recount of a cell is a cell. *)
LEMMA RecountTyped ==
  ASSUME NEW c \in MapCells, NEW taken
  PROVE  Recount(c, taken) \in MapCells
<1> DEFINE free == Cardinality(Within(c) \ taken)
           taken_ == Cardinality(Within(c) \cap taken)
           d == Recount(c, taken)
<1>1. ASSUME NEW S \in SUBSET Units
      PROVE  Cardinality(S) \in Counts
  <2>1. IsFiniteSet(Units) /\ Cardinality(Units) = Total
    <3>1. Total \in Nat /\ Total - 1 \in Int /\ 0 <= Total - 1
      BY UsesAssumption, WidthAssumption
    <3>2. IsFiniteSet(0 .. Total - 1)
          /\ Cardinality(0 .. Total - 1) = IF 0 > Total - 1 THEN 0 ELSE Total - 1 - 0 + 1
      BY <3>1, FS_Interval
    <3> QED
      BY <3>1, <3>2 DEF Units
  <2>2. IsFiniteSet(S) /\ Cardinality(S) <= Total
    BY <2>1, FS_Subset
  <2>3. Cardinality(S) \in Nat
    BY <2>2, FS_CardinalityType
  <2> QED
    BY <2>2, <2>3, UsesAssumption, WidthAssumption DEF Counts
<1>2. free \in Counts /\ taken_ \in Counts
  BY <1>1 DEF Within
<1>3. c = [start |-> c.start, end |-> c.end, free |-> c.free, used |-> c.used,
           unknown |-> c.unknown, outside |-> c.outside, bad |-> c.bad,
           fragmented |-> c.fragmented, directory |-> c.directory]
  BY DEF MapCells
<1>4. d = [c EXCEPT !.free = free, !.used = taken_, !.fragmented = 0, !.directory = 0]
  BY DEF Recount
<1>5. 0 \in Counts
  BY WidthAssumption DEF Counts
<1> HIDE DEF free, taken_, d
<1>6. d = [start |-> c.start, end |-> c.end, free |-> free, used |-> taken_,
           unknown |-> c.unknown, outside |-> c.outside, bad |-> c.bad,
           fragmented |-> 0, directory |-> 0]
  BY <1>3, <1>4
<1>7. d \in MapCells
  BY <1>2, <1>5, <1>6, CellCountsTyped DEF MapCells
<1> QED
  BY <1>7 DEF d

(* Before the map is shown. *)
LEMMA CountingMade ==
  ASSUME RangeMapsAddUp, Inductive, Counting,
         \/ TakeNamed \/ Identify \/ NoneRecognises \/ Scan \/ ScanFails
         \/ PreflightDefrag \/ PreflightGrowth \/ Present
  PROVE  Counting'
<1>0. CountInv /\ BalanceInv
  BY DEF Counting
<1>1. CASE TakeNamed \/ Identify \/ NoneRecognises \/ ScanFails
  <2>1. /\ UNCHANGED <<used, told, unit, cells>>
        /\ phase' \in {"choose", "probed", "scan", "failed"}
    BY <1>1 DEF TakeNamed, Identify, NoneRecognises, ScanFails, Choose
  <2>2. backend' \in Ids \cup {NoBackend}
    <3>1. CASE (TakeNamed \/ Identify) /\ phase' # "choose"
      BY <3>1, Chosen DEF Inductive
    <3>2. CASE ~((TakeNamed \/ Identify) /\ phase' # "choose")
      BY <1>0, <1>1, <3>2 DEF TakeNamed, Identify, NoneRecognises, ScanFails, Choose, CountInv
    <3> QED
      BY <3>1, <3>2
  <2>3. CountInv'
    BY <1>0, <2>1, <2>2 DEF CountInv
  <2> QED
    BY <2>1, <2>3 DEF Counting, BalanceInv, RangesInv, MarkingInv, Made, Shown
<1>2. CASE Scan
  <2>1. /\ UNCHANGED <<backend, used, told>> /\ phase' \in {"preflight-defrag", "present"}
    BY <1>2 DEF Scan
  <2>2. PICK report \in Reports, requested \in {2, 3, Total + 2} :
          /\ report.adapter = MapAdapter(backend) /\ unit' = report.unit
          /\ Cells(MapAdapter(backend), report, requested) # Error
          /\ cells' = Cells(MapAdapter(backend), report, requested)
    BY <1>2 DEF Scan, Accepted
  <2>3. \A k \in DOMAIN cells' : cells'[k] \in MapCells /\ Balanced(backend, cells'[k])
    BY <2>2, ScanBalanced
  <2>4. unit' \in Counts
    BY <2>2, ReportsAssumption
  <2>5. CountInv'
    BY <1>0, <2>1, <2>3, <2>4 DEF CountInv
  <2> QED
    BY <2>1, <2>3, <2>5 DEF Counting, BalanceInv, RangesInv, MarkingInv
<1>3. CASE PreflightDefrag \/ PreflightGrowth \/ Present
  <2>1. /\ UNCHANGED <<backend, used, told, unit, cells, proper>>
        /\ phase \in {"preflight-defrag", "preflight-growth", "present"}
        /\ phase' \in {"preflight-growth", "present", "live", "failed"}
    BY <1>3 DEF PreflightDefrag, PreflightGrowth, Preflight, Present
  <2>2. CountInv'
    BY <1>0, <2>1 DEF CountInv
  <2>3. BalanceInv'
    BY <1>0, <2>1 DEF BalanceInv, Made
  <2> QED
    BY <2>1, <2>2, <2>3 DEF Counting, RangesInv, MarkingInv
<1> QED
  BY <1>1, <1>2, <1>3

(* An event that fails. *)
LEMMA CountingFails ==
  ASSUME Counting, Made, Fails, UNCHANGED <<mapperVars, resultVars>>
  PROVE  Counting'
<1>1. phase' = "live" /\ UNCHANGED <<cells, told, used, proper, backend, unit>>
  BY DEF Fails
<1>2. CountInv' /\ BalanceInv'
  BY <1>1 DEF Counting, CountInv, BalanceInv
<1> QED
  BY <1>1, <1>2 DEF Counting, RangesInv, MarkingInv

(* Back to the display with other cells. *)
LEMMA CountingShows ==
  ASSUME Counting, phase' = "live", UNCHANGED <<mapperVars, resultVars>>,
         used' \subseteq Units, told' = told,
         \A k \in DOMAIN cells' : cells'[k] \in MapCells,
         proper' => \A k \in DOMAIN cells' : Balanced(backend, cells'[k])
  PROVE  Counting'
<1>1. CountInv'
  BY DEF Counting, CountInv
<1>2. BalanceInv'
  BY DEF BalanceInv
<1> QED
  BY <1>1, <1>2 DEF Counting, RangesInv, MarkingInv

(* The numbers of an entry of an event. *)
LEMMA Entries ==
  ASSUME NEW S, NEW r \in Seq(S)
  PROVE  /\ Len(r) = 3 => r[1] \in S /\ r[2] \in S /\ r[3] \in S
         /\ Len(r) = 2 => r[1] \in S /\ r[2] \in S
OBVIOUS

LEMMA CountingRanges ==
  ASSUME Inductive, Counting, LiveRanges \/ MoveRange \/ CommitRanges
  PROVE  Counting'
<1>0. CountInv /\ BalanceInv /\ RangesInv
  BY DEF Counting
<1>a. Made /\ Shaped(cells) /\ InOrder(cells) /\ UNCHANGED <<mapperVars, resultVars>>
  <2>1. Shown /\ UNCHANGED <<mapperVars, resultVars>>
    BY DisplayFrame DEF Display
  <2> QED
    BY <2>1 DEF Inductive, OrderInv, Made
<1>b. CASE Fails
  BY <1>a, <1>b, CountingFails
<1>1. CASE LiveRanges /\ ~Fails
  <2>1. /\ phase' = "ranges" /\ patches' = NoPatches /\ unit # 0 /\ event' \in RangeEvents
        /\ told' = [use |-> used, true |-> trusted] /\ UNCHANGED <<cells, used, proper>>
    BY <1>1 DEF LiveRanges
  <2>2. CountInv'
    BY <1>0, <1>a, <2>1 DEF CountInv
  <2>3. BalanceInv'
    BY <1>0, <1>a, <2>1 DEF BalanceInv
  <2>4. RangesInv'
    BY <1>a, <2>1, EventsAssumption DEF RangesInv, NoPatches
  <2> QED
    BY <2>1, <2>2, <2>3, <2>4 DEF Counting, MarkingInv
<1>2. CASE MoveRange /\ ~Fails
  <2> DEFINE r == Head(event.ranges)
             released == IF event.allocate_only THEN patches
                         ELSE apply_range(patches, r[1], r[3], FALSE)
             taken == IF released = Error THEN Error ELSE apply_range(released, r[2], r[3], TRUE)
  <2>0. phase = "ranges" /\ event.ranges # <<>> /\ Patched(patches, cells)
    BY <1>2 DEF MoveRange, Inductive, OrderInv
  <2>1. /\ unit \in Counts \ {0} /\ event \in RangeEvent
        /\ \A k \in DOMAIN cells : cells[k] \in MapCells
        /\ \A k \in DOMAIN patches : patches[k] \in MapCells
    BY <1>0, <2>0 DEF CountInv, RangesInv
  <2>2. proper => /\ \A k \in DOMAIN cells : Balanced(backend, cells[k])
                  /\ \A k \in DOMAIN patches : Balanced(backend, patches[k])
    BY <1>0, <1>a, <2>0 DEF BalanceInv, RangesInv
  <2>3. /\ UNCHANGED <<phase, cells, used, proper>>
        /\ event' = [event EXCEPT !.ranges = Tail(@)]
        /\ \/ patches' = patches /\ told' = [told EXCEPT !.true = FALSE]
           \/ patches' = taken /\ taken # Error /\ Len(r) = 3 /\ told' = Tell(r)
    BY <1>2 DEF MoveRange, Keep
  <2>4. r \in Seq(Counts) /\ event' \in RangeEvent
    <3> DEFINE L == Seq(Counts)
    <3>1. event \in [ranges : Seq(L), allocate_only : BOOLEAN]
      BY <2>1 DEF RangeEvent
    <3> HIDE DEF L
    <3>2. event.ranges \in Seq(L)
      BY <3>1
    <3>3. r \in L /\ Tail(event.ranges) \in Seq(L)
      BY <2>0, <3>2
    <3>4. event' \in [ranges : Seq(L), allocate_only : BOOLEAN]
      BY <2>3, <3>1, <3>3
    <3> QED
      BY <3>3, <3>4 DEF L, RangeEvent
  <2>5. Len(r) = 3 => r[1] \in Counts /\ r[2] \in Counts /\ r[3] \in Counts
    BY <2>4, Entries
  <2>6. "use" \in DOMAIN told' /\ told'.use \subseteq Units
    <3>1. "use" \in DOMAIN told /\ told.use \subseteq Units
      BY <1>0 DEF CountInv
    <3>2. CASE told' = [told EXCEPT !.true = FALSE]
      BY <3>1, <3>2
    <3>3. CASE told' = Tell(r)
      <4>1. \A a, n : Bytes(a, n) \subseteq Units
        BY DEF Bytes
      <4>2. \E source, t : Tell(r) = [use |-> (told.use \ source) \cup Bytes(r[2], r[3]), true |-> t]
        BY Zenon DEF Tell
      <4> HIDE DEF r
      <4> QED
        BY <3>1, <3>3, <4>1, <4>2
    <3> QED
      BY <2>3, <3>2, <3>3
  <2>7. ASSUME Len(r) = 3, taken # Error
        PROVE  /\ \A k \in DOMAIN taken : taken[k] \in MapCells
               /\ proper => \A k \in DOMAIN taken : Balanced(backend, taken[k])
    <3> DEFINE q == released
    <3>1. q # Error
      BY <2>7
    <3>2. /\ Patched(q, cells) /\ \A k \in DOMAIN q : q[k] \in MapCells
          /\ proper => \A k \in DOMAIN q : Balanced(backend, q[k])
      <4>1. CASE event.allocate_only
        BY <2>0, <2>1, <2>2, <4>1
      <4>2. CASE ~event.allocate_only
        <5>1. q = apply_range(patches, r[1], r[3], FALSE)
          BY <4>2
        <5> HIDE DEF q, released, taken, r
        <5>2. apply_range(patches, r[1], r[3], FALSE) # Error
          BY <3>1, <5>1
        <5>3. Patched(q, cells)
          BY <1>a, <2>0, <5>1, <5>2, ApplyRangePatches
        <5>4. /\ \A k \in DOMAIN q : q[k] \in MapCells
              /\ \A b : /\ \A k \in DOMAIN cells : Balanced(b, cells[k])
                        /\ \A k \in DOMAIN patches : Balanced(b, patches[k])
                        => \A k \in DOMAIN q : Balanced(b, q[k])
          BY <1>a, <2>0, <2>1, <2>5, <2>7, <5>1, <5>2, ApplyRangeBalanced
        <5> QED
          BY <2>2, <5>3, <5>4
      <4> QED
        BY <4>1, <4>2
    <3>3. taken = apply_range(q, r[2], r[3], TRUE)
      BY <3>1
    <3> HIDE DEF q, released, taken, r
    <3>4. apply_range(q, r[2], r[3], TRUE) # Error
      BY <2>7, <3>3
    <3>5. /\ \A k \in DOMAIN taken : taken[k] \in MapCells
          /\ \A b : /\ \A k \in DOMAIN cells : Balanced(b, cells[k])
                    /\ \A k \in DOMAIN q : Balanced(b, q[k])
                    => \A k \in DOMAIN taken : Balanced(b, taken[k])
      BY <1>a, <2>1, <2>5, <2>7, <3>2, <3>3, <3>4, ApplyRangeBalanced
    <3> QED
      BY <2>2, <3>2, <3>5
  <2> HIDE DEF taken, released, r
  <2>8. CountInv'
    BY <1>0, <1>a, <2>3, <2>6 DEF CountInv
  <2>9. BalanceInv'
    BY <1>0, <1>a, <2>3 DEF BalanceInv, Made, Shown
  <2>10. \A k \in DOMAIN patches' : /\ patches'[k] \in MapCells
                                    /\ proper' => Balanced(backend', patches'[k])
    BY <1>a, <2>1, <2>2, <2>3, <2>7
  <2>11. RangesInv'
    BY <1>a, <2>1, <2>4, <2>10 DEF RangesInv
  <2> QED
    BY <2>0, <2>3, <2>8, <2>9, <2>11 DEF Counting, MarkingInv
<1>3. CASE CommitRanges
  <2>1. /\ phase = "ranges" /\ phase' = "live" /\ UNCHANGED <<proper, told>>
        /\ cells' = [k \in DOMAIN cells |-> effective_cell(patches, k)]
        /\ used' \in {told.use, used}
    BY <1>3 DEF CommitRanges
  <2>2. \A k \in DOMAIN cells' : cells'[k] \in {cells[k]} \cup {patches[j] : j \in DOMAIN patches}
        /\ k \in DOMAIN cells /\ (cells'[k] = cells[k] \/ (k \in DOMAIN patches /\ cells'[k] = patches[k]))
    BY <2>1 DEF effective_cell
  <2>3. \A k \in DOMAIN cells' : cells'[k] \in MapCells
    BY <1>0, <2>1, <2>2 DEF CountInv, RangesInv
  <2>4. proper' => \A k \in DOMAIN cells' : Balanced(backend, cells'[k])
    BY <1>0, <1>a, <2>1, <2>2 DEF BalanceInv, RangesInv
  <2>5. used' \subseteq Units
    BY <1>0, <2>1 DEF CountInv
  <2> QED
    BY <1>a, <2>1, <2>3, <2>4, <2>5, CountingShows
<1> QED
  BY <1>b, <1>1, <1>2, <1>3

LEMMA CountingReset ==
  ASSUME Inductive, Counting, LiveReset \/ MarkRange \/ CommitReset
  PROVE  Counting'
<1>0. CountInv /\ BalanceInv /\ MarkingInv
  BY DEF Counting
<1>a. Made /\ Shaped(cells) /\ InOrder(cells) /\ UNCHANGED <<mapperVars, resultVars>>
  <2>1. Shown /\ UNCHANGED <<mapperVars, resultVars>>
    BY DisplayFrame DEF Display
  <2> QED
    BY <2>1 DEF Inductive, OrderInv, Made
<1>b. CASE Fails
  BY <1>a, <1>b, CountingFails
<1>1. CASE LiveReset /\ ~Fails
  <2>1. PICK e \in ResetEvents :
          /\ ~ResetRefused(e) /\ phase' = "marking" /\ event' = [e EXCEPT !.unit = ResetUnit(e)]
          /\ patches' = [k \in DOMAIN cells |-> Blank(cells[k], e.units)]
          /\ told' = [use |-> used, true |-> TrueReset(e)] /\ UNCHANGED <<cells, used, proper>>
    BY <1>1 DEF LiveReset
  <2>2. CountInv'
    BY <1>0, <1>a, <2>1 DEF CountInv
  <2>3. BalanceInv'
    BY <1>0, <1>a, <2>1 DEF BalanceInv
  <2>4. e \in ResetEvent
    BY EventsAssumption
  <2>5. event' \in ResetEvent /\ event'.unit # 0
    <3> DEFINE L == Seq(Seq(Counts))
    <3>1. e \in [units : Counts, unit : Counts, used_ranges : L]
      BY <2>4 DEF ResetEvent
    <3>2. ResetUnit(e) \in Counts /\ ResetUnit(e) # 0
      <4>1. ResetUnit(e) # 0
        BY <2>1 DEF ResetRefused
      <4> QED
        BY <1>0, <3>1, <4>1 DEF ResetUnit, CountInv
    <3> HIDE DEF L
    <3>3. event' \in [units : Counts, unit : Counts, used_ranges : L] /\ event'.unit # 0
      BY <2>1, <3>1, <3>2
    <3> QED
      BY <3>3 DEF L, ResetEvent
  <2>6. \A k \in DOMAIN cells : cells[k] \in MapCells
    BY <1>0 DEF CountInv
  <2>7. ASSUME NEW k \in DOMAIN cells
        PROVE  cells[k].end < MaxU
    <3>1. ~(Last(cells).end + 1 > MaxU)
      BY <2>1 DEF ResetRefused
    <3>2. cells[k].end <= Last(cells).end
      BY <1>a, <2>6, LastEnds
    <3>3. cells[k].end \in Nat /\ Last(cells).end \in Nat /\ MaxU \in Nat
      <4>1. Len(cells) \in Nat /\ DOMAIN cells = 1 .. Len(cells)
        BY <1>a, ShapedLength
      <4>2. Len(cells) \in DOMAIN cells
        BY <4>1
      <4> QED
        BY <2>6, <4>2, CellCountsTyped, CountsNat DEF Last
    <3> QED
      BY <3>1, <3>2, <3>3
  <2>8. e.units \in Counts
    BY <2>4 DEF ResetEvent
  <2>9. ASSUME NEW k \in DOMAIN cells
        PROVE  Blank(cells[k], e.units) \in MapCells /\ Balanced(backend, Blank(cells[k], e.units))
    <3>1. cells[k].start <= cells[k].end
      BY <1>a DEF InOrder
    <3> QED
      BY <2>6, <2>7, <2>8, <3>1, BlankBalanced
  <2>10. \A k \in DOMAIN patches' : patches'[k] \in MapCells /\ Balanced(backend', patches'[k])
    BY <1>a, <2>1, <2>9
  <2>11. MarkingInv'
    BY <2>1, <2>5, <2>7, <2>10 DEF MarkingInv
  <2> QED
    BY <2>1, <2>2, <2>3, <2>11 DEF Counting, RangesInv
<1>2. CASE MarkRange /\ ~Fails
  <2> DEFINE r == Head(event.used_ranges)
  <2>0. phase = "marking" /\ event.used_ranges # <<>> /\ Patched(patches, cells)
        /\ patches = [k \in DOMAIN cells |-> patches[k]]
    BY <1>2 DEF MarkRange, Inductive, OrderInv
  <2>1. /\ event \in ResetEvent /\ event.unit # 0
        /\ \A k \in DOMAIN cells : cells[k] \in MapCells /\ cells[k].end < MaxU
        /\ \A k \in DOMAIN patches : patches[k] \in MapCells /\ Balanced(backend, patches[k])
    BY <1>0, <2>0 DEF CountInv, MarkingInv
  <2>2. /\ Len(r) = 2 /\ event' = [event EXCEPT !.used_ranges = Tail(@)]
        /\ patches' = Mark(event.units, event.unit, patches, r)
        /\ UNCHANGED <<phase, cells, told, used, proper>>
    BY <1>2 DEF MarkRange
  <2>3. /\ r \in Seq(Counts) /\ event' \in ResetEvent /\ event'.unit = event.unit
        /\ event.units \in Counts /\ event.unit \in Counts
    <3> DEFINE L == Seq(Counts)
    <3>1. event \in [units : Counts, unit : Counts, used_ranges : Seq(L)]
      BY <2>1 DEF ResetEvent
    <3> HIDE DEF L
    <3>2. event.used_ranges \in Seq(L) /\ event.units \in Counts /\ event.unit \in Counts
      BY <3>1
    <3>3. r \in L /\ Tail(event.used_ranges) \in Seq(L)
      BY <2>0, <3>2
    <3>4. event' \in [units : Counts, unit : Counts, used_ranges : Seq(L)] /\ event'.unit = event.unit
      BY <2>2, <3>1, <3>3
    <3> QED
      BY <3>2, <3>3, <3>4 DEF L, ResetEvent
  <2>4. r[1] \in Counts /\ r[2] \in Counts
    BY <2>2, <2>3, Entries
  <2> HIDE DEF r
  <2>5. \A k \in DOMAIN patches' : patches'[k] \in MapCells /\ Balanced(backend, patches'[k])
    BY <1>a, <2>0, <2>1, <2>2, <2>3, <2>4, MarkBalanced
  <2>6. CountInv'
    BY <1>0, <1>a, <2>2 DEF CountInv
  <2>7. BalanceInv'
    BY <1>0, <1>a, <2>2 DEF BalanceInv, Made, Shown
  <2>8. MarkingInv'
    BY <1>a, <2>1, <2>2, <2>3, <2>5 DEF MarkingInv
  <2> QED
    BY <2>0, <2>2, <2>6, <2>7, <2>8 DEF Counting, RangesInv
<1>3. CASE CommitReset /\ ~Fails
  <2>1. phase = "marking" /\ phase' = "live" /\ cells' = patches /\ UNCHANGED <<told, used>>
    BY <1>3 DEF CommitReset
  <2>2. /\ \A k \in DOMAIN cells' : cells'[k] \in MapCells
        /\ \A k \in DOMAIN cells' : Balanced(backend, cells'[k])
    BY <1>0, <2>1 DEF MarkingInv
  <2>3. used' \subseteq Units
    BY <1>0, <2>1 DEF CountInv
  <2> QED
    BY <1>a, <2>1, <2>2, <2>3, CountingShows
<1> QED
  BY <1>b, <1>1, <1>2, <1>3

(* Cells put in place of others. *)
LEMMA CountingUpdate ==
  ASSUME Inductive, Counting, Shown, NEW p, NEW use, NEW true, UpdateCells(p, use, true),
         UNCHANGED <<mapperVars, resultVars>>, use \subseteq Units,
         \A k \in DOMAIN p : p[k] \in MapCells
  PROVE  Counting'
<1>0. CountInv /\ BalanceInv /\ Made
  BY DEF Counting, Made
<1>1. CASE Fails
  BY <1>0, <1>1, CountingFails
<1>2. CASE ~Fails
  <2>1. /\ phase' = "live" /\ told' = told /\ used' = use
        /\ cells' = [k \in DOMAIN cells |-> effective_cell(p, k)]
    BY <1>2 DEF UpdateCells
  <2>2. proper' => proper /\ \A k \in DOMAIN p : AddsUp(p[k])
    BY <1>2 DEF UpdateCells
  <2>3. \A k \in DOMAIN cells' : /\ k \in DOMAIN cells
                                 /\ \/ cells'[k] = cells[k]
                                    \/ k \in DOMAIN p /\ cells'[k] = p[k]
    BY <2>1 DEF effective_cell
  <2>4. \A k \in DOMAIN cells' : cells'[k] \in MapCells
    BY <1>0, <2>3 DEF CountInv
  <2>5. ASSUME proper'
        PROVE  \A k \in DOMAIN cells' : Balanced(backend, cells'[k])
    <3>1. \A k \in DOMAIN cells : Balanced(backend, cells[k])
      BY <1>0, <2>2, <2>5 DEF BalanceInv
    <3>2. \A k \in DOMAIN p : Balanced(backend, p[k])
      BY <2>2, <2>5 DEF Balanced, AddsUp
    <3> QED
      BY <2>3, <3>1, <3>2
  <2>6. used' \subseteq Units
    BY <2>1
  <2> QED
    BY <2>1, <2>4, <2>5, <2>6, CountingShows
<1> QED
  BY <1>1, <1>2

LEMMA CountingCells ==
  ASSUME Inductive, Counting, LiveResetReason \/ LiveCells \/ LiveCellsTrue
  PROVE  Counting'
<1>0. CountInv /\ BalanceInv
  BY DEF Counting
<1>a. Shown /\ Made /\ Shaped(cells) /\ UNCHANGED <<mapperVars, resultVars>>
  <2>1. Shown /\ UNCHANGED <<mapperVars, resultVars>>
    BY DisplayFrame DEF Display
  <2> QED
    BY <2>1 DEF Inductive, OrderInv, Made
<1>b. CASE Fails
  BY <1>a, <1>b, CountingFails
<1>1. CASE LiveResetReason /\ ~Fails
  <2>1. phase = "live" /\ phase' = "live" /\ UNCHANGED <<cells, told, used, proper>>
    BY <1>1 DEF LiveResetReason, Comes
  <2>2. CountInv' /\ BalanceInv'
    BY <1>0, <1>a, <2>1 DEF CountInv, BalanceInv
  <2> QED
    BY <2>1, <2>2 DEF Counting, RangesInv, MarkingInv
<1>2. CASE LiveCells /\ ~Fails
  <2>1. PICK e \in CellEvents : UpdateCells(Updates(e), used, FALSE)
    BY <1>2 DEF LiveCells
  <2>2. \A k \in DOMAIN Updates(e) : Updates(e)[k] \in MapCells
    BY <1>a, UpdatesShape
  <2>3. used \subseteq Units
    BY <1>0 DEF CountInv
  <2> QED
    BY <1>a, <2>1, <2>2, <2>3, CountingUpdate
<1>3. CASE LiveCellsTrue /\ ~Fails
  <2> DEFINE p(taken) == [k \in {k \in DOMAIN cells : ~Faithful(cells[k], taken)} |->
                            Recount(cells[k], taken)]
  <2>1. PICK taken \in Uses : UpdateCells(p(taken), taken, TRUE)
    BY <1>3 DEF LiveCellsTrue
  <2>2. \A k \in DOMAIN cells : Recount(cells[k], taken) \in MapCells
    BY <1>0, RecountTyped DEF CountInv
  <2>3. \A k \in DOMAIN p(taken) : p(taken)[k] \in MapCells
    BY <2>2
  <2>4. taken \subseteq Units
    BY UsesAssumption
  <2> HIDE DEF p
  <2> QED
    BY <1>a, <2>1, <2>3, <2>4, CountingUpdate
<1> QED
  BY <1>b, <1>1, <1>2, <1>3

LEMMA CountingInit == Init => Counting
<1> SUFFICES ASSUME Init PROVE Counting
  OBVIOUS
<1>1. /\ phase = "choose" /\ backend = NoBackend /\ unit = 0 /\ cells = <<>>
      /\ told = [use |-> {}, true |-> FALSE] /\ used \in Uses
  BY DEF Init
<1>2. used \subseteq Units /\ unit \in Counts
  BY <1>1, UsesAssumption, WidthAssumption DEF Counts
<1>3. "use" \in DOMAIN told /\ told.use \subseteq Units
  BY <1>1
<1>4. CountInv
  BY <1>1, <1>2, <1>3 DEF CountInv
<1> QED
  BY <1>1, <1>4 DEF Counting, BalanceInv, RangesInv, MarkingInv, Made, Shown

LEMMA CountingStep ==
  ASSUME RangeMapsAddUp, Inductive, Counting, [Next]_vars
  PROVE  Counting'
<1>1. CASE UNCHANGED vars
  <2>1. UNCHANGED <<phase, backend, unit, cells, told, used, proper, event, patches>>
    BY <1>1
  <2>2. CountInv' /\ BalanceInv'
    BY <2>1 DEF Counting, CountInv, BalanceInv, Made, Shown
  <2>3. RangesInv' /\ MarkingInv'
    BY <2>1 DEF Counting, RangesInv, MarkingInv
  <2> QED
    BY <2>2, <2>3 DEF Counting
<1>2. CASE Next
  BY <1>1, <1>2, CountingMade, CountingRanges, CountingReset, CountingCells DEF Next, Ended
<1> QED
  BY <1>1, <1>2

-----------------------------------------------------------------------------
(* The counts of the display and of an event under way, if the builders that      *)
(* work on ranges make cells that add up.                                         *)
THEOREM CountsInvariance == RangeMapsAddUp => (Spec => [](Inductive /\ Counting))
<1> SUFFICES ASSUME RangeMapsAddUp PROVE Spec => [](Inductive /\ Counting)
  OBVIOUS
<1>1. Init => Inductive /\ Counting
  BY InductiveInit, CountingInit
<1>2. Inductive /\ Counting /\ [Next]_vars => (Inductive /\ Counting)'
  BY InductiveStep, CountingStep
<1> QED
  BY <1>1, <1>2, PTL DEF Spec

(* Every count of the display is a uint64_t: whatever ranges a writer sends, none *)
(* takes more out of a cell than is in it, and none adds beyond the type.         *)
THEOREM MapTypes == RangeMapsAddUp => (Spec => []TypeOK)
<1> SUFFICES ASSUME RangeMapsAddUp PROVE Spec => []TypeOK
  OBVIOUS
<1>1. ASSUME Inductive, Counting
      PROVE  TypeOK
  <2>1. phase \in {"choose", "probed", "scan", "preflight-defrag", "preflight-growth", "present",
                   "live", "ranges", "marking", "failed"}
    BY <1>1 DEF Inductive, PhaseInv
  <2>2. ASSUME NEW k \in DOMAIN cells, NEW f \in DOMAIN cells[k]
        PROVE  cells[k][f] \in 0 .. MaxU
    <3>1. cells[k] \in MapCells
      BY <1>1 DEF Counting, CountInv
    <3>2. f \in {"start", "end", "free", "used", "unknown", "outside", "bad", "fragmented",
                 "directory"}
      BY <3>1 DEF MapCells
    <3> QED
      BY <3>1, <3>2, CellCountsTyped DEF Counts
  <2> QED
    BY <1>1, <2>1, <2>2 DEF TypeOK, Counting, CountInv
<1> QED
  BY <1>1, CountsInvariance, PTL

(* What a cell counts adds up to its units, through every sequence of ranges,     *)
(* resets and updates, until an update whose own counts do not add up; a reset    *)
(* repairs even that.                                                             *)
THEOREM CountsAddUp == RangeMapsAddUp => (Spec => []Accounted)
<1> SUFFICES ASSUME RangeMapsAddUp PROVE Spec => []Accounted
  OBVIOUS
<1>1. Counting => Accounted
  BY DEF Counting, BalanceInv, Accounted, Balanced, AddsUp, Made
<1> QED
  BY <1>1, CountsInvariance, PTL

-----------------------------------------------------------------------------
(* Units and counts *)

(* The units of a cell when units are counted from o, and a cell that counts  *)
(* them exactly.                                                              *)
Here(o, c) == {u \in Units : c.start <= u + o /\ u + o <= c.end}
Exactly(o, c, taken) ==
  c.free = Cardinality(Here(o, c) \ taken) /\ c.used = Cardinality(Here(o, c) \cap taken)

LEMMA FaithfulExactly ==
  \A c, taken : Faithful(c, taken) <=> Exactly(Origin, c, taken)
BY DEF Faithful, Exactly, Within, Here

LEMMA UnitsFinite ==
  /\ Total \in Nat /\ UnitSize \in Nat /\ UnitSize > 0 /\ Units \subseteq Nat
  /\ IsFiniteSet(Units) /\ \A S : S \subseteq Units => IsFiniteSet(S)
<1>1. Total \in Nat /\ UnitSize \in Nat /\ UnitSize > 0
  BY UsesAssumption, WidthAssumption
<1>2. IsFiniteSet(Units) /\ Units \subseteq Nat
  BY <1>1, FS_Interval DEF Units
<1> QED
  BY <1>1, <1>2, FS_Subset

(* Some units go from one set to another: what the sizes become. *)
Goes(both, from, to, less, more) ==
  /\ both \subseteq from /\ to \cap both = {} /\ less = from \ both /\ more = to \cup both
LEMMA Shifted ==
  ASSUME NEW from, NEW to, NEW both, NEW less, NEW more, IsFiniteSet(from), IsFiniteSet(to),
         Goes(both, from, to, less, more)
  PROVE  /\ Cardinality(both) \in Nat /\ Cardinality(both) <= Cardinality(from)
         /\ Cardinality(less) = Cardinality(from) - Cardinality(both)
         /\ Cardinality(more) = Cardinality(to) + Cardinality(both)
<1>0. /\ both \subseteq from /\ to \cap both = {} /\ less = from \ both /\ more = to \cup both
      /\ from \cap both = both
  BY DEF Goes
<1>1. IsFiniteSet(both)
  BY <1>0, FS_Subset
<1>2. Cardinality(from) \in Nat /\ Cardinality(both) \in Nat /\ Cardinality(to) \in Nat
  BY <1>1, FS_CardinalityType
<1>3. Cardinality(both) <= Cardinality(from)
  BY <1>0, FS_Subset
<1>5. Cardinality(from \ both) = Cardinality(from) - Cardinality(both)
  BY <1>0, <1>1, FS_Difference
<1>6. Cardinality(to \cup both) = Cardinality(to) + Cardinality(both)
  <2>1. Cardinality(to \cup both)
          = Cardinality(to) + Cardinality(both) - Cardinality(to \cap both)
    BY <1>1, FS_Union
  <2>2. Cardinality(to \cap both) = 0
    BY <1>0, FS_EmptySet
  <2> QED
    BY <1>2, <2>1, <2>2
<1> QED
  BY <1>0, <1>2, <1>3, <1>5, <1>6

(* What Moved does to the two counts when the cell has that many units. *)
LEMMA MovedExact ==
  ASSUME NEW c \in MapCells, NEW overlap \in Nat
  PROVE  /\ overlap <= c.free => /\ Moved(c, overlap, TRUE).free = c.free - overlap
                                 /\ Moved(c, overlap, TRUE).used = c.used + overlap
         /\ overlap <= c.used => /\ Moved(c, overlap, FALSE).free = c.free + overlap
                                 /\ Moved(c, overlap, FALSE).used = c.used - overlap
<1>0. c.free \in Nat /\ c.used \in Nat
  BY CellCountsTyped, CountsNat
<1>1. c = [start |-> c.start, end |-> c.end, free |-> c.free, used |-> c.used,
           unknown |-> c.unknown, outside |-> c.outside, bad |-> c.bad,
           fragmented |-> c.fragmented, directory |-> c.directory]
  BY DEF MapCells
<1>2. ASSUME overlap <= c.free
      PROVE  /\ Moved(c, overlap, TRUE).free = c.free - overlap
             /\ Moved(c, overlap, TRUE).used = c.used + overlap
  <2>1. Least(overlap, c.free) = overlap
    BY <1>0, <1>2 DEF Least
  <2>2. Moved(c, overlap, TRUE) = [c EXCEPT !.free = c.free - overlap, !.used = c.used + overlap]
    BY <2>1 DEF Moved
  <2> QED
    BY <1>1, <2>2
<1>3. ASSUME overlap <= c.used
      PROVE  /\ Moved(c, overlap, FALSE).free = c.free + overlap
             /\ Moved(c, overlap, FALSE).used = c.used - overlap
  <2>1. Least(overlap, c.used) = overlap
    BY <1>0, <1>3 DEF Least
  <2>2. \E f, d : Moved(c, overlap, FALSE)
                    = [c EXCEPT !.used = c.used - overlap, !.free = c.free + overlap,
                                !.fragmented = f, !.directory = d]
    BY <2>1, Zenon DEF Moved
  <2> QED
    BY <1>1, <2>2
<1> QED
  BY <1>2, <1>3

(* What a range of units shares with a cell, in units and as Common counts it. *)
LEMMA CommonCounts ==
  ASSUME NEW c, c.start \in Nat, c.end \in Nat, c.start <= c.end,
         NEW first \in Nat, NEW last \in Nat, first < last, last <= Total
  PROVE  /\ c.end >= first /\ c.start < last =>
              Cardinality(Here(0, c) \cap (first .. last - 1)) = Common(c, first, last)
         /\ ~(c.end >= first /\ c.start < last) => Here(0, c) \cap (first .. last - 1) = {}
<1>0. Total \in Nat
  BY UnitsFinite
<1>1. ASSUME c.end >= first, c.start < last
      PROVE  Cardinality(Here(0, c) \cap (first .. last - 1)) = Common(c, first, last)
  <2> DEFINE from == Most(c.start, first)
             to == Least(c.end + 1, last)
  <2>1. from \in Nat /\ to \in Nat /\ from < to
    BY <1>1 DEF Most, Least
  <2>2. Here(0, c) \cap (first .. last - 1) = from .. to - 1
    BY <1>0, <1>1 DEF Here, Units, Most, Least
  <2> HIDE DEF from, to
  <2>3. Cardinality(from .. to - 1) = to - from
    <3>1. Cardinality(from .. to - 1) = IF from > to - 1 THEN 0 ELSE (to - 1) - from + 1
      BY <2>1, FS_Interval
    <3> QED
      BY <2>1, <3>1
  <2> QED
    BY <2>2, <2>3 DEF Common, from, to
<1>2. ASSUME ~(c.end >= first /\ c.start < last)
      PROVE  Here(0, c) \cap (first .. last - 1) = {}
  BY <1>0, <1>2 DEF Here, Units
<1> QED
  BY <1>1, <1>2

LEMMA TimesMono ==
  ASSUME NEW a \in Nat, NEW b \in Nat, a <= b, NEW s \in Nat
  PROVE  a * s <= b * s
<1>1. PICK d \in Nat : b = a + d
  <2>1. b - a \in Nat /\ b = a + (b - a)
    OBVIOUS
  <2> QED
    BY <2>1
<1>2. (a + d) * s = a * s + d * s
  OBVIOUS
<1>3. a * s \in Nat
  OBVIOUS
<1>4. d * s \in Nat
  OBVIOUS
<1> QED
  BY <1>1, <1>2, <1>3, <1>4

(* The units of a range of bytes. *)
LEMMA UnitBounds ==
  ASSUME NEW a \in Nat, NEW b \in Nat, NEW s \in Nat, s > 0
  PROVE  /\ a \div s \in Nat /\ ceiling_units(b, s) \in Nat
         /\ \A u \in Nat : a < (u + 1) * s <=> a \div s <= u
         /\ \A u \in Nat : u * s < b <=> u < ceiling_units(b, s)
         /\ \A t \in Nat : b <= t * s => ceiling_units(b, s) <= t
<1>1. /\ a % s \in 0 .. s - 1 /\ a \div s \in Nat /\ a = s * (a \div s) + (a % s)
      /\ b % s \in 0 .. s - 1 /\ b \div s \in Nat /\ b = s * (b \div s) + (b % s)
  OBVIOUS
<1> DEFINE x == a \div s
           y == b \div s
           m == a % s
           n == b % s
<1>2. x \in Nat /\ y \in Nat /\ m \in 0 .. s - 1 /\ n \in 0 .. s - 1
      /\ a = s * x + m /\ b = s * y + n
  BY <1>1
<1>3. ceiling_units(b, s) = IF n # 0 THEN y + 1 ELSE y
  BY <1>2 DEF ceiling_units
<1> HIDE DEF x, y, m, n
<1>4. ASSUME NEW u \in Nat
      PROVE  a < (u + 1) * s <=> x <= u
  <2>1. x <= u => x * s <= u * s
    BY <1>2, TimesMono
  <2>2. u + 1 <= x => (u + 1) * s <= x * s
    BY <1>2, TimesMono
  <2>3. (u + 1) * s = u * s + s /\ u * s \in Nat /\ x * s \in Nat /\ s * x = x * s
    BY <1>2
  <2> QED
    BY <1>2, <2>1, <2>2, <2>3
<1>5. ASSUME NEW u \in Nat
      PROVE  u * s < b <=> u < (IF n # 0 THEN y + 1 ELSE y)
  <2>1. u <= y => u * s <= y * s
    BY <1>2, TimesMono
  <2>2. u + 1 <= y => (u + 1) * s <= y * s
    BY <1>2, TimesMono
  <2>3. y + 1 <= u => (y + 1) * s <= u * s
    BY <1>2, TimesMono
  <2>4. y <= u => y * s <= u * s
    BY <1>2, TimesMono
  <2>5. (u + 1) * s = u * s + s /\ u * s \in Nat /\ y * s \in Nat /\ s * y = y * s
        /\ (y + 1) * s = y * s + s
    BY <1>2
  <2> QED
    BY <1>2, <2>1, <2>2, <2>3, <2>4, <2>5
<1>6. ASSUME NEW t \in Nat, b <= t * s
      PROVE  (IF n # 0 THEN y + 1 ELSE y) <= t
  <2>1. ~(t * s < b)
    BY <1>2, <1>6
  <2> QED
    BY <1>2, <1>5, <2>1
<1> QED
  BY <1>2, <1>3, <1>4, <1>5, <1>6 DEF x

LEMMA BytesUnits ==
  ASSUME NEW a \in Nat, NEW n \in Nat, n > 0, a + n <= Total * UnitSize
  PROVE  LET first == a \div UnitSize
             last == ceiling_units(a + n, UnitSize)
         IN /\ first \in Nat /\ last \in Nat /\ first < last /\ last <= Total
            /\ Bytes(a, n) = first .. last - 1
<1> DEFINE first == a \div UnitSize
           last == ceiling_units(a + n, UnitSize)
<1>1. Total \in Nat /\ UnitSize \in Nat /\ UnitSize > 0
  BY UnitsFinite
<1>2. a + n \in Nat
  OBVIOUS
<1>3. /\ first \in Nat /\ last \in Nat
      /\ \A u \in Nat : a < (u + 1) * UnitSize <=> first <= u
      /\ \A u \in Nat : u * UnitSize < a + n <=> u < last
      /\ last <= Total
  BY <1>1, <1>2, UnitBounds
<1> HIDE DEF first, last
<1>4. Bytes(a, n) = {u \in Units : u < last /\ first <= u}
  BY <1>1, <1>3 DEF Bytes, Units
<1>5. first < last
  <2>1. a < (first + 1) * UnitSize /\ (first = 0 \/ ~(a < (first - 1 + 1) * UnitSize))
    BY <1>3
  <2>2. first * UnitSize <= a
    <3>1. CASE first = 0
      BY <1>1, <3>1
    <3>2. CASE first # 0
      <4>1. ~(a < first * UnitSize)
        <5>1. first - 1 + 1 = first
          BY <1>3
        <5> QED
          BY <2>1, <3>2, <5>1
      <4>2. first * UnitSize \in Nat
        BY <1>1, <1>3
      <4> QED
        BY <4>1, <4>2
    <3> QED
      BY <3>1, <3>2
  <2>3. first * UnitSize < a + n
    <3>1. first * UnitSize \in Nat
      BY <1>1, <1>3
    <3> QED
      BY <2>2, <3>1
  <2> QED
    BY <1>3, <2>3
<1>6. {u \in Units : u < last /\ first <= u} = first .. last - 1
  BY <1>1, <1>3 DEF Units
<1> QED
  BY <1>3, <1>4, <1>5, <1>6 DEF first, last

(* A cell counts exactly after a range that holds only units it may take. *)
LEMMA MovedExactly ==
  ASSUME NEW c \in MapCells, c.start <= c.end, NEW d, d.start = c.start, d.end = c.end,
         NEW first \in Nat, NEW last \in Nat, first < last, last <= Total,
         c.end >= first, c.start < last, NEW use, Exactly(0, c, use)
  PROVE  /\ (first .. last - 1) \cap use = {}
              => Exactly(0, Moved(c, Common(d, first, last), TRUE), use \cup (first .. last - 1))
         /\ first .. last - 1 \subseteq use
              => Exactly(0, Moved(c, Common(d, first, last), FALSE), use \ (first .. last - 1))
<1> DEFINE B == first .. last - 1
           W == Here(0, c)
           n == Common(d, first, last)
<1>1. c.start \in Nat /\ c.end \in Nat /\ c.free \in Nat /\ c.used \in Nat
  BY CellCountsTyped, CountsNat
<1>2. IsFiniteSet(W)
  BY UnitsFinite DEF Here
<1>3. n = Common(c, first, last)
  BY DEF Common
<1>4. Cardinality(W \cap B) = n
  BY <1>1, <1>3, CommonCounts
<1>5. n \in Nat
  BY <1>1, <1>3, CommonNat
<1>6. c.free = Cardinality(W \ use) /\ c.used = Cardinality(W \cap use)
  BY DEF Exactly
<1>7. ASSUME NEW t \in BOOLEAN
      PROVE  Here(0, Moved(c, n, t)) = W
  <2>1. Moved(c, n, t).start = c.start /\ Moved(c, n, t).end = c.end
    BY <1>5, MovedFields
  <2> QED
    BY <2>1 DEF Here
<1> DEFINE free == W \ use
           held == W \cap use
           both == W \cap B
<1>8. IsFiniteSet(free) /\ IsFiniteSet(held)
  BY <1>2, FS_Subset
<1>9. c.free = Cardinality(free) /\ c.used = Cardinality(held) /\ n = Cardinality(both)
  BY <1>4, <1>6
<1> HIDE DEF B, W, n
<1>10. ASSUME B \cap use = {}
       PROVE  Exactly(0, Moved(c, n, TRUE), use \cup B)
  <2> DEFINE less == W \ (use \cup B)
             more == W \cap (use \cup B)
  <2>1. Goes(both, free, held, less, more)
    BY <1>10 DEF Goes
  <2> HIDE DEF free, held, both, less, more
  <2>2. n <= c.free /\ Cardinality(less) = c.free - n /\ Cardinality(more) = c.used + n
    BY <1>8, <1>9, <2>1, Shifted
  <2>3. Moved(c, n, TRUE).free = c.free - n /\ Moved(c, n, TRUE).used = c.used + n
    BY <1>5, <2>2, MovedExact
  <2>4. Here(0, Moved(c, n, TRUE)) = W
    BY <1>7
  <2> QED
    BY <2>2, <2>3, <2>4, Zenon DEF Exactly, less, more
<1>11. ASSUME B \subseteq use
       PROVE  Exactly(0, Moved(c, n, FALSE), use \ B)
  <2> DEFINE less == W \cap (use \ B)
             more == W \ (use \ B)
  <2>1. Goes(both, held, free, less, more)
    BY <1>11 DEF Goes
  <2> HIDE DEF free, held, both, less, more
  <2>2. n <= c.used /\ Cardinality(less) = c.used - n /\ Cardinality(more) = c.free + n
    BY <1>8, <1>9, <2>1, Shifted
  <2>3. Moved(c, n, FALSE).free = c.free + n /\ Moved(c, n, FALSE).used = c.used - n
    BY <1>5, <2>2, MovedExact
  <2>4. Here(0, Moved(c, n, FALSE)) = W
    BY <1>7
  <2> QED
    BY <2>2, <2>3, <2>4, Zenon DEF Exactly, less, more
<1> QED
  BY <1>10, <1>11 DEF B, n

(* And one it does not reach counts as before. *)
LEMMA MissedExactly ==
  ASSUME NEW c \in MapCells, c.start <= c.end,
         NEW first \in Nat, NEW last \in Nat, first < last, last <= Total,
         ~(c.end >= first /\ c.start < last), NEW use, Exactly(0, c, use)
  PROVE  /\ Exactly(0, c, use \cup (first .. last - 1))
         /\ Exactly(0, c, use \ (first .. last - 1))
<1> DEFINE B == first .. last - 1
           W == Here(0, c)
<1>1. c.start \in Nat /\ c.end \in Nat
  BY CellCountsTyped, CountsNat
<1>2. W \cap B = {}
  BY <1>1, CommonCounts
<1> HIDE DEF B, W
<1>3. /\ W \ (use \cup B) = W \ use /\ W \cap (use \cup B) = W \cap use
      /\ W \ (use \ B) = W \ use /\ W \cap (use \ B) = W \cap use
  BY <1>2
<1> QED
  BY <1>3 DEF Exactly, B, W

(* One range of an event, released or taken. *)
LEMMA ApplyRangeExact ==
  ASSUME Shaped(cells), InOrder(cells), \A k \in DOMAIN cells : cells[k] \in MapCells,
         unit = UnitSize,
         NEW p, Patched(p, cells), \A k \in DOMAIN p : p[k] \in MapCells,
         NEW use, \A k \in DOMAIN cells : Exactly(0, effective_cell(p, k), use),
         NEW first_byte \in Counts, NEW length \in Counts, NEW to_used \in BOOLEAN,
         first_byte + length <= Total * UnitSize,
         IF to_used THEN Bytes(first_byte, length) \cap use = {}
                    ELSE Bytes(first_byte, length) \subseteq use,
         apply_range(p, first_byte, length, to_used) # Error
  PROVE  LET q == apply_range(p, first_byte, length, to_used) IN
         \A k \in DOMAIN cells :
           Exactly(0, effective_cell(q, k), IF to_used THEN use \cup Bytes(first_byte, length)
                                                       ELSE use \ Bytes(first_byte, length))
<1> DEFINE first == first_byte \div unit
           last == ceiling_units(first_byte + length, unit)
           new == [k \in Reached(first, last) |->
                     Moved(effective_cell(p, k), Common(cells[k], first, last), to_used)]
           q == apply_range(p, first_byte, length, to_used)
           after == IF to_used THEN use \cup Bytes(first_byte, length)
                               ELSE use \ Bytes(first_byte, length)
<1>1. first_byte \in Nat /\ length \in Nat
  BY CountsNat
<1>2. CASE length = 0
  <2>1. Bytes(first_byte, length) = {}
    BY <1>2 DEF Bytes
  <2>2. after = use
    BY <2>1
  <2>3. q = p
    BY <1>2 DEF apply_range
  <2> QED
    BY <2>2, <2>3
<1>3. CASE length # 0
  <2>1. /\ first \in Nat /\ last \in Nat /\ first < last /\ last <= Total
        /\ Bytes(first_byte, length) = first .. last - 1
    BY <1>1, <1>3, BytesUnits
  <2>2. q = Patch(p, new)
    BY <1>3 DEF apply_range
  <2>3. DOMAIN new = Reached(first, last)
        /\ \A k \in Reached(first, last) :
             new[k] = Moved(effective_cell(p, k), Common(cells[k], first, last), to_used)
    OBVIOUS
  <2> HIDE DEF q, new, first, last, after
  <2>4. ASSUME NEW k \in DOMAIN cells
        PROVE  /\ k \in Reached(first, last) => effective_cell(q, k) = new[k]
               /\ k \notin Reached(first, last) => effective_cell(q, k) = effective_cell(p, k)
    BY <2>2, <2>3, Zenon DEF Patch, effective_cell
  <2>5. ASSUME NEW k \in DOMAIN cells
        PROVE  Exactly(0, effective_cell(q, k), after)
    <3> DEFINE c == effective_cell(p, k)
               d == cells[k]
    <3>1. c \in MapCells /\ c.start = d.start /\ c.end = d.end
      BY <2>5 DEF effective_cell, Patched, Placed
    <3>2. d.start <= d.end
      BY <2>5 DEF InOrder
    <3>3. Exactly(0, c, use)
      BY <2>5
    <3>4. k \in Reached(first, last) <=> (c.end >= first /\ c.start < last)
      BY <2>5, <3>1 DEF Reached
    <3>5. CASE k \in Reached(first, last)
      <4>1. effective_cell(q, k) = Moved(c, Common(d, first, last), to_used)
        BY <2>3, <2>4, <3>5
      <4> HIDE DEF c, d
      <4>2. CASE to_used
        <5>1. after = use \cup (first .. last - 1) /\ (first .. last - 1) \cap use = {}
              /\ to_used = TRUE
          BY <2>1, <4>2 DEF after
        <5>2. Exactly(0, Moved(c, Common(d, first, last), TRUE), use \cup (first .. last - 1))
          BY <2>1, <3>1, <3>2, <3>3, <3>4, <3>5, <5>1, MovedExactly
        <5> QED
          BY <4>1, <5>1, <5>2
      <4>3. CASE ~to_used
        <5>1. after = use \ (first .. last - 1) /\ first .. last - 1 \subseteq use
              /\ to_used = FALSE
          BY <2>1, <4>3 DEF after
        <5>2. Exactly(0, Moved(c, Common(d, first, last), FALSE), use \ (first .. last - 1))
          BY <2>1, <3>1, <3>2, <3>3, <3>4, <3>5, <5>1, MovedExactly
        <5> QED
          BY <4>1, <5>1, <5>2
      <4> QED
        BY <4>2, <4>3
    <3>6. CASE k \notin Reached(first, last)
      <4>1. effective_cell(q, k) = c
        BY <2>4, <3>6
      <4>2. after \in {use \cup (first .. last - 1), use \ (first .. last - 1)}
        BY <2>1 DEF after
      <4> HIDE DEF c, d
      <4>3. /\ Exactly(0, c, use \cup (first .. last - 1))
            /\ Exactly(0, c, use \ (first .. last - 1))
        BY <2>1, <3>1, <3>2, <3>3, <3>4, <3>6, MissedExactly
      <4> QED
        BY <4>1, <4>2, <4>3
    <3> QED
      BY <3>5, <3>6
  <2> QED
    BY <2>5 DEF q, after
<1> QED
  BY <1>2, <1>3

(* The bytes of one entry of a reset, cut off at the end of the volume. *)
Held(r) == Bytes(r[1], r[2])
LEMMA CutBytes ==
  ASSUME NEW a \in Nat, NEW n \in Nat, n # 0
  PROVE  LET limit == Total * UnitSize
             m == Least(n, limit - a)
         IN /\ a >= limit => Bytes(a, n) = {}
            /\ a < limit => m \in Nat /\ m > 0 /\ a + m <= limit /\ Bytes(a, n) = Bytes(a, m)
<1> DEFINE limit == Total * UnitSize
           m == Least(n, limit - a)
<1>1. Total \in Nat /\ UnitSize \in Nat /\ UnitSize > 0
  BY UnitsFinite
<1>2. limit \in Nat
  BY <1>1
<1>3. ASSUME NEW u \in Units
      PROVE  u \in Nat /\ u * UnitSize \in Nat /\ (u + 1) * UnitSize \in Nat
             /\ (u + 1) * UnitSize = u * UnitSize + UnitSize
             /\ (u + 1) * UnitSize <= limit
  <2>1. u \in Nat /\ u + 1 \in Nat /\ u + 1 <= Total
    BY <1>1 DEF Units
  <2>2. (u + 1) * UnitSize <= limit
    BY <1>1, <2>1, TimesMono
  <2>3. u * UnitSize \in Nat
    BY <1>1, <2>1
  <2>4. (u + 1) * UnitSize = u * UnitSize + UnitSize
    BY <1>1, <2>1
  <2> HIDE DEF limit
  <2> QED
    BY <1>1, <2>1, <2>2, <2>3, <2>4
<1> HIDE DEF limit
<1>4. ASSUME a >= limit
      PROVE  Bytes(a, n) = {}
  <2>1. \A u \in Units : ~(a < (u + 1) * UnitSize)
    BY <1>2, <1>3, <1>4
  <2> QED
    BY <2>1 DEF Bytes
<1>5. ASSUME a < limit
      PROVE  m \in Nat /\ m > 0 /\ a + m <= limit /\ Bytes(a, n) = Bytes(a, m)
  <2>1. m \in Nat /\ m > 0 /\ a + m <= limit /\ (m = n \/ (m < n /\ a + m = limit))
    BY <1>2, <1>5 DEF Least
  <2> HIDE DEF m
  <2>2. ASSUME NEW u \in Units
        PROVE  u * UnitSize < a + n <=> u * UnitSize < a + m
    <3>1. u * UnitSize \in Nat /\ u * UnitSize < limit
      BY <1>1, <1>2, <1>3
    <3> QED
      BY <1>2, <2>1, <3>1
  <2>3. Bytes(a, n) = Bytes(a, m)
    BY <2>1, <2>2 DEF Bytes
  <2> QED
    BY <2>1, <2>3
<1> QED
  BY <1>4, <1>5 DEF limit

(* One used range of a true reset. *)
LEMMA MarkExact ==
  ASSUME Shaped(cells), InOrder(cells), \A k \in DOMAIN cells : cells[k] \in MapCells,
         NEW cs, cs = [k \in DOMAIN cells |-> cs[k]], Patched(cs, cells),
         \A k \in DOMAIN cells : cs[k] \in MapCells,
         NEW use, \A k \in DOMAIN cells : Exactly(0, cs[k], use),
         NEW r, r[1] \in Counts, r[2] \in Counts, r[2] # 0, Held(r) \cap use = {}
  PROVE  \A k \in DOMAIN cells : Exactly(0, Mark(Total, UnitSize, cs, r)[k], use \cup Held(r))
<1> DEFINE limit == Total * UnitSize
           m == Least(r[2], limit - r[1])
           first == r[1] \div UnitSize
           last == ceiling_units(r[1] + m, UnitSize)
           B == first .. last - 1
           marked == Mark(Total, UnitSize, cs, r)
<1>1. r[1] \in Nat /\ r[2] \in Nat /\ limit \in Nat
  <2>1. Total \in Nat /\ UnitSize \in Nat
    BY UnitsFinite
  <2>2. limit \in Nat
    BY <2>1
  <2> QED
    BY <2>2, CountsNat
<1>2. DOMAIN cs = DOMAIN cells
  OBVIOUS
<1>3. CASE r[1] >= limit
  <2>1. Held(r) = {}
    BY <1>1, <1>3, CutBytes DEF Held
  <2>2. use \cup Held(r) = use
    BY <2>1
  <2>3. marked = cs
    BY <1>3 DEF Mark
  <2> QED
    BY <2>2, <2>3
<1>4. CASE ~(r[1] >= limit)
  <2>0. r[1] < limit
    BY <1>1, <1>4
  <2>1. m \in Nat /\ m > 0 /\ r[1] + m <= limit /\ Held(r) = Bytes(r[1], m)
    BY <1>1, <2>0, CutBytes DEF Held
  <2>2. /\ first \in Nat /\ last \in Nat /\ first < last /\ last <= Total
        /\ Bytes(r[1], m) = B
    <3> HIDE DEF m
    <3> QED
      BY <1>1, <2>1, BytesUnits
  <2>3. marked = [k \in DOMAIN cs |->
                    IF k \in Reached(first, last)
                      THEN Moved(cs[k], Common(cs[k], first, last), TRUE) ELSE cs[k]]
    BY <1>4 DEF Mark
  <2>4. use \cup Held(r) = use \cup B /\ B \cap use = {}
    BY <2>1, <2>2
  <2> HIDE DEF marked, first, last, m, limit
  <2>5. ASSUME NEW k \in DOMAIN cells
        PROVE  Exactly(0, marked[k], use \cup B)
    <3> DEFINE c == cs[k]
    <3>1. c \in MapCells /\ c.start = cells[k].start /\ c.end = cells[k].end
      BY <1>2, <2>5 DEF Patched, Placed
    <3>2. c.start <= c.end
      BY <2>5, <3>1 DEF InOrder
    <3>3. Exactly(0, c, use)
      BY <2>5
    <3>4. k \in Reached(first, last) <=> (c.end >= first /\ c.start < last)
      BY <2>5, <3>1 DEF Reached
    <3>5. marked[k] = IF k \in Reached(first, last) THEN Moved(c, Common(c, first, last), TRUE)
                                                    ELSE c
      BY <1>2, <2>3, <2>5
    <3> HIDE DEF c
    <3>6. CASE k \in Reached(first, last)
      <4>1. Exactly(0, Moved(c, Common(c, first, last), TRUE), use \cup B)
        BY <2>2, <2>4, <3>1, <3>2, <3>3, <3>4, <3>6, MovedExactly
      <4> QED
        BY <3>5, <3>6, <4>1
    <3>7. CASE k \notin Reached(first, last)
      <4>1. Exactly(0, c, use \cup B)
        BY <2>2, <3>1, <3>2, <3>3, <3>4, <3>7, MissedExactly
      <4> QED
        BY <3>5, <3>7, <4>1
    <3> QED
      BY <3>6, <3>7
  <2> QED
    BY <2>4, <2>5 DEF marked
<1> QED
  BY <1>3, <1>4

(* A blank cell counts all its units as free. *)
LEMMA BlankExact ==
  ASSUME NEW c \in MapCells, c.start <= c.end
  PROVE  Exactly(0, Blank(c, Total), {})
<1> DEFINE W == Here(0, c)
           inside == IF c.start >= Total THEN 0 ELSE Least(c.end + 1, Total) - c.start
           d == Blank(c, Total)
<1>1. c.start \in Nat /\ c.end \in Nat /\ Total \in Nat
  BY CellCountsTyped, CountsNat, UnitsFinite
<1>2. c = [start |-> c.start, end |-> c.end, free |-> c.free, used |-> c.used,
           unknown |-> c.unknown, outside |-> c.outside, bad |-> c.bad,
           fragmented |-> c.fragmented, directory |-> c.directory]
  BY DEF MapCells
<1>3. \E o : d = [c EXCEPT !.free = inside, !.used = 0, !.unknown = 0, !.outside = o,
                           !.fragmented = 0, !.directory = 0, !.bad = 0]
  BY Zenon DEF Blank
<1> HIDE DEF inside, d
<1>4. d.free = inside /\ d.used = 0 /\ d.start = c.start /\ d.end = c.end
  BY <1>2, <1>3
<1>5. Here(0, d) = W
  BY <1>4 DEF Here
<1>6. Cardinality(W) = inside
  <2>1. CASE c.start >= Total
    <3>1. W = {}
      BY <1>1, <2>1 DEF Here, Units
    <3> QED
      BY <2>1, <3>1, FS_EmptySet DEF inside
  <2>2. CASE ~(c.start >= Total)
    <3> DEFINE from == c.start
               to == Least(c.end + 1, Total)
    <3>1. from \in Nat /\ to \in Nat /\ from < to
      BY <1>1, <2>2 DEF Least
    <3>2. W = from .. to - 1
      BY <1>1, <2>2 DEF Here, Units, Least
    <3>3. inside = to - from
      BY <2>2 DEF inside
    <3> HIDE DEF from, to
    <3>4. Cardinality(from .. to - 1) = IF from > to - 1 THEN 0 ELSE (to - 1) - from + 1
      BY <3>1, FS_Interval
    <3>5. Cardinality(from .. to - 1) = to - from
      BY <3>1, <3>4
    <3> QED
      BY <3>2, <3>3, <3>5
  <2> QED
    BY <2>1, <2>2
<1>7. W \ {} = W /\ W \cap {} = {} /\ Cardinality({}) = 0
  BY FS_EmptySet
<1> QED
  BY <1>4, <1>5, <1>6, <1>7, Zenon DEF Exactly, d

-----------------------------------------------------------------------------
(* The third invariant, of the exact counts. *)

(* As long as the display is trusted its unit is the volume's and every cell    *)
(* counts exactly; there is at least one.                                       *)
ShownExact ==
  Made => /\ 1 \in DOMAIN cells
          /\ trusted => unit = UnitSize /\ \A k \in DOMAIN cells : Exactly(Origin, cells[k], used)

(* Under ranges that were true so far the cells with their patches count what    *)
(* the ranges have told.                                                         *)
RangesExact ==
  phase = "ranges" =>
    /\ "true" \in DOMAIN told
    /\ told.true => /\ trusted
                    /\ \A k \in DOMAIN cells : Exactly(Origin, effective_cell(patches, k), told.use)

(* Under a true reset the copy counts the used units but those of the entries    *)
(* that are left, which are in use and disjoint.                                 *)
Remain(rs) == UNION {Held(rs[k]) : k \in DOMAIN rs}
Entry(r, use) == Len(r) = 2 /\ r[2] # 0 /\ Held(r) \subseteq use
Apart(rs) == \A j, k \in DOMAIN rs : j # k => Held(rs[j]) \cap Held(rs[k]) = {}
MarkingExact ==
  phase = "marking" /\ told.true =>
    /\ Origin = 0 /\ unit = UnitSize /\ event.units = Total /\ event.unit = UnitSize
    /\ \A k \in DOMAIN event.used_ranges : Entry(event.used_ranges[k], used)
    /\ Apart(event.used_ranges)
    /\ \A k \in DOMAIN cells : Exactly(0, patches[k], used \ Remain(event.used_ranges))

Exactness == ShownExact /\ RangesExact /\ MarkingExact

(* One entry less. *)
LEMMA OneHeld ==
  ASSUME NEW S, NEW rs \in Seq(S), rs # <<>>, NEW use, \A k \in DOMAIN rs : Entry(rs[k], use),
         Apart(rs)
  PROVE  /\ Entry(Head(rs), use) /\ Held(Head(rs)) \cap (use \ Remain(rs)) = {}
         /\ (use \ Remain(rs)) \cup Held(Head(rs)) = use \ Remain(Tail(rs))
         /\ \A k \in DOMAIN Tail(rs) : Entry(Tail(rs)[k], use)
         /\ Apart(Tail(rs))
<1>1. /\ Head(rs) = rs[1] /\ 1 \in DOMAIN rs
      /\ \A k \in DOMAIN Tail(rs) : /\ k + 1 \in DOMAIN rs /\ k + 1 # 1 /\ k \in Nat
                                    /\ Tail(rs)[k] = rs[k + 1]
      /\ \A k \in DOMAIN rs : k # 1 => k - 1 \in DOMAIN Tail(rs) /\ Tail(rs)[k - 1] = rs[k]
  OBVIOUS
<1>2. Entry(Head(rs), use)
  BY <1>1
<1>3. \A k \in DOMAIN Tail(rs) : Entry(Tail(rs)[k], use)
  BY <1>1
<1>4. Apart(Tail(rs))
  <2> SUFFICES ASSUME NEW j \in DOMAIN Tail(rs), NEW k \in DOMAIN Tail(rs), j # k
               PROVE  Held(Tail(rs)[j]) \cap Held(Tail(rs)[k]) = {}
    BY Zenon DEF Apart
  <2>1. j + 1 # k + 1 /\ j + 1 \in DOMAIN rs /\ k + 1 \in DOMAIN rs
    BY <1>1
  <2>2. Held(rs[j + 1]) \cap Held(rs[k + 1]) = {}
    BY <2>1, Zenon DEF Apart
  <2>3. Tail(rs)[j] = rs[j + 1] /\ Tail(rs)[k] = rs[k + 1]
    BY <1>1
  <2> QED
    BY <2>2, <2>3, Zenon
<1>5. Remain(rs) = Held(Head(rs)) \cup Remain(Tail(rs))
  <2>1. ASSUME NEW u \in Remain(rs)
        PROVE  u \in Held(Head(rs)) \cup Remain(Tail(rs))
    <3>1. PICK k \in DOMAIN rs : u \in Held(rs[k])
      BY <2>1, Zenon DEF Remain
    <3>2. CASE k = 1
      BY <1>1, <3>1, <3>2, Zenon
    <3>3. CASE k # 1
      <4>1. k - 1 \in DOMAIN Tail(rs) /\ Tail(rs)[k - 1] = rs[k]
        BY <1>1, <3>1, <3>3
      <4>2. u \in Held(Tail(rs)[k - 1])
        BY <3>1, <4>1
      <4> QED
        BY <4>1, <4>2, Zenon DEF Remain
    <3> QED
      BY <3>2, <3>3
  <2>2. Held(Head(rs)) \subseteq Remain(rs)
    BY <1>1, ZenonT(60) DEF Remain
  <2>3. ASSUME NEW u \in Remain(Tail(rs))
        PROVE  u \in Remain(rs)
    <3>1. PICK k \in DOMAIN Tail(rs) : u \in Held(Tail(rs)[k])
      BY <2>3, Zenon DEF Remain
    <3> QED
      BY <1>1, <3>1, ZenonT(60) DEF Remain
  <2> QED
    BY <2>1, <2>2, <2>3, Zenon
<1>6. Held(Head(rs)) \cap Remain(Tail(rs)) = {}
  <2> SUFFICES ASSUME NEW u \in Held(Head(rs)), u \in Remain(Tail(rs)) PROVE FALSE
    OBVIOUS
  <2>1. PICK k \in DOMAIN Tail(rs) : u \in Held(Tail(rs)[k])
    BY Zenon DEF Remain
  <2>2. k + 1 \in DOMAIN rs /\ k + 1 # 1 /\ u \in Held(rs[k + 1]) /\ u \in Held(rs[1])
    BY <1>1, <2>1, Zenon
  <2>3. Held(rs[k + 1]) \cap Held(rs[1]) = {}
    BY <1>1, <2>2, Zenon DEF Apart
  <2> QED
    BY <2>2, <2>3
<1>7. Held(Head(rs)) \subseteq use
  BY <1>2 DEF Entry
<1> QED
  BY <1>2, <1>3, <1>4, <1>5, <1>6, <1>7, Zenon

(* Every map has a cell. *)
LEMMA MadeSome ==
  ASSUME NEW report \in Reports, NEW adapter, NEW requested \in Nat,
         Cells(adapter, report, requested) # Error
  PROVE  1 \in DOMAIN Cells(adapter, report, requested)
<1>1. ASSUME NEW first, Contiguous(report.cells, first, report.total)
      PROVE  1 \in DOMAIN report.cells
  <2>1. report.cells \in Seq(MapCells) /\ report.cells # <<>>
    BY <1>1, ReportsAssumption DEF Contiguous
  <2>2. \A S : \A cs \in Seq(S) : cs # <<>> => 1 \in DOMAIN cs
    OBVIOUS
  <2> QED
    BY <2>1, <2>2
<1>2. \A cs, ranges, field : DOMAIN overlay_ranges(cs, ranges, field) = DOMAIN cs
  BY DEF overlay_ranges
<1>3. ASSUME NEW total \in Nat, NEW ranges, aggregate_ranges(total, requested, ranges) # Error
      PROVE  1 \in DOMAIN aggregate_ranges(total, requested, ranges)
  <2> DEFINE n == CellCount(total, requested)
             bound(k) == cell_boundary(k, total, n)
             counts(k) == CellCounts(Ordered(total, ranges), bound(k - 1), bound(k))
             ds == [k \in 1 .. n |-> Cell(bound(k - 1), bound(k), counts(k))]
  <2>1. n \in Nat /\ n >= 1
    BY DEF CellCount, Most, Least
  <2>2. aggregate_ranges(total, requested, ranges) = ds
    BY <1>3 DEF aggregate_ranges
  <2> HIDE DEF n, bound, counts
  <2>3. DOMAIN ds = 1 .. n
    OBVIOUS
  <2> HIDE DEF ds
  <2> QED
    BY <2>1, <2>2, <2>3
<1>4. generic_free_range_map(report, requested) # Error
        => 1 \in DOMAIN generic_free_range_map(report, requested)
  <2>1. report.total \in Nat
    BY ReportsAssumption
  <2> QED
    BY <1>2, <1>3, <2>1 DEF generic_free_range_map
<1>5. map_ext(report, requested) # Error => 1 \in DOMAIN map_ext(report, requested)
  BY <1>2, <1>4 DEF map_ext
<1>6. validate_native_map(report) => 1 \in DOMAIN report.cells
  BY <1>1 DEF validate_native_map
<1>7. map_fat_valid(report) => 1 \in DOMAIN report.cells
  BY <1>1 DEF map_fat_valid
<1> QED
  BY <1>4, <1>5, <1>6, <1>7 DEF Cells

(* A true report is shown exactly. *)
LEMMA ScanExact ==
  ASSUME RangeMapsExact, NEW report \in Reports, NEW requested \in {2, 3, Total + 2},
         Cells(MapAdapter(backend), report, requested) # Error,
         Truthful(report), used \subseteq Units
  PROVE  LET made == Cells(MapAdapter(backend), report, requested) IN
         \A k \in DOMAIN made : Exactly(Origin, made[k], used)
<1> DEFINE made == Cells(MapAdapter(backend), report, requested)
<1>1. CASE MapAdapter(backend) \in {"fat", "native"}
  <2>1. made = report.cells
    BY <1>1 DEF Cells
  <2>2. \A k \in DOMAIN report.cells : Faithful(report.cells[k], used)
    BY <1>1 DEF Truthful
  <2> QED
    BY <2>1, <2>2, FaithfulExactly
<1>2. CASE MapAdapter(backend) \notin {"fat", "native"}
  <2>1. made \in {generic_free_range_map(report, requested), map_ext(report, requested)}
    BY <1>2 DEF Cells
  <2>2. Origin = 0 /\ Spanned(report.free) = Units \ used /\ report.total = Total
    BY <1>2 DEF Origin, Truthful
  <2>3. made # Error
    OBVIOUS
  <2>4. \A m \in {generic_free_range_map(report, requested), map_ext(report, requested)} :
          m # Error /\ report.total = Total =>
            \A k \in DOMAIN m :
              LET here == {u \in Units : m[k].start <= u /\ u <= m[k].end}
              IN /\ m[k].free = Cardinality(here \cap Spanned(report.free))
                 /\ m[k].used = Cardinality(here \ Spanned(report.free))
    BY Zenon DEF RangeMapsExact
  <2> HIDE DEF made
  <2>5. ASSUME NEW k \in DOMAIN made
        PROVE  Exactly(0, made[k], used)
    <3> DEFINE here == {u \in Units : made[k].start <= u /\ u <= made[k].end}
    <3>1. /\ made[k].free = Cardinality(here \cap Spanned(report.free))
          /\ made[k].used = Cardinality(here \ Spanned(report.free))
      BY <2>1, <2>2, <2>3, <2>4, <2>5, Zenon
    <3>2. Here(0, made[k]) = here
      <4>1. \A u \in Units : u + 0 = u
        BY UnitsFinite
      <4> QED
        BY <4>1 DEF Here
    <3>3. here \cap (Units \ used) = here \ used /\ here \ (Units \ used) = here \cap used
      OBVIOUS
    <3> HIDE DEF here
    <3> QED
      BY <2>2, <3>1, <3>2, <3>3, Zenon DEF Exactly
  <2> QED
    BY <2>2, <2>5 DEF made
<1> QED
  BY <1>1, <1>2

LEMMA ExactInit == Init => Exactness
BY DEF Init, Exactness, ShownExact, RangesExact, MarkingExact, Made, Shown

(* Before the map is shown. *)
LEMMA ExactMade ==
  ASSUME RangeMapsExact, Counting, Exactness,
         \/ TakeNamed \/ Identify \/ NoneRecognises \/ Scan \/ ScanFails
         \/ PreflightDefrag \/ PreflightGrowth \/ Present
  PROVE  Exactness'
<1>1. CASE TakeNamed \/ Identify \/ NoneRecognises \/ ScanFails
  <2>1. phase' \in {"choose", "probed", "scan", "failed"}
    BY <1>1 DEF TakeNamed, Identify, NoneRecognises, ScanFails, Choose
  <2> QED
    BY <2>1 DEF Exactness, ShownExact, RangesExact, MarkingExact, Made, Shown
<1>2. CASE Scan
  <2>1. UNCHANGED <<backend, used>> /\ phase' \in {"preflight-defrag", "present"}
    BY <1>2 DEF Scan
  <2>2. PICK report \in Reports, requested \in {2, 3, Total + 2} :
          /\ unit' = report.unit /\ trusted' = Truthful(report)
          /\ Cells(MapAdapter(backend), report, requested) # Error
          /\ cells' = Cells(MapAdapter(backend), report, requested)
    BY <1>2 DEF Scan, Accepted
  <2>3. 1 \in DOMAIN cells'
    <3>1. requested \in Nat
      BY UnitsFinite
    <3> QED
      BY <2>2, <3>1, MadeSome
  <2>4. ASSUME trusted'
        PROVE  unit' = UnitSize /\ \A k \in DOMAIN cells' : Exactly(Origin, cells'[k], used)
    <3>1. Truthful(report) /\ used \subseteq Units
      BY <2>2, <2>4 DEF Counting, CountInv
    <3>2. unit' = UnitSize
      BY <2>2, <3>1 DEF Truthful
    <3> QED
      BY <2>2, <3>1, <3>2, ScanExact
  <2>5. Origin' = Origin
    BY <2>1 DEF Origin
  <2>6. ShownExact'
    BY <2>1, <2>3, <2>4, <2>5 DEF ShownExact
  <2> QED
    BY <2>1, <2>6 DEF Exactness, RangesExact, MarkingExact
<1>3. CASE PreflightDefrag \/ PreflightGrowth \/ Present
  <2>1. /\ UNCHANGED <<backend, used, unit, cells, trusted>>
        /\ phase \in {"preflight-defrag", "preflight-growth", "present"}
        /\ phase' \in {"preflight-growth", "present", "live", "failed"}
    BY <1>3 DEF PreflightDefrag, PreflightGrowth, Preflight, Present
  <2>2. Origin' = Origin /\ Made
    BY <2>1 DEF Origin, Made
  <2>3. ShownExact'
    BY <2>1, <2>2 DEF Exactness, ShownExact
  <2> QED
    BY <2>1, <2>3 DEF Exactness, RangesExact, MarkingExact
<1> QED
  BY <1>1, <1>2, <1>3

(* Back to the display: refused, untrue, or exact. *)
LEMMA ExactShows ==
  ASSUME phase' = "live", UNCHANGED <<mapperVars, resultVars>>, 1 \in DOMAIN cells',
         trusted' => unit = UnitSize /\ \A k \in DOMAIN cells' : Exactly(Origin, cells'[k], used')
  PROVE  Exactness'
<1>1. UNCHANGED <<unit, backend>>
  OBVIOUS
<1>2. Origin' = Origin
  BY <1>1 DEF Origin
<1>3. ShownExact'
  BY <1>1, <1>2 DEF ShownExact
<1> QED
  BY <1>3 DEF Exactness, RangesExact, MarkingExact

LEMMA ExactFails ==
  ASSUME Exactness, Made, Fails, UNCHANGED <<mapperVars, resultVars>>
  PROVE  Exactness'
<1>1. phase' = "live" /\ UNCHANGED cells /\ ~trusted' /\ 1 \in DOMAIN cells
  BY DEF Fails, Exactness, ShownExact
<1> QED
  BY <1>1, ExactShows

(* One range of an event. *)
LEMMA ExactMove ==
  ASSUME Inductive, Counting, Exactness, MoveRange, ~Fails
  PROVE  Exactness'
<1> DEFINE r == Head(event.ranges)
           released == IF event.allocate_only THEN patches
                       ELSE apply_range(patches, r[1], r[3], FALSE)
           taken == IF released = Error THEN Error ELSE apply_range(released, r[2], r[3], TRUE)
           source == IF event.allocate_only THEN {} ELSE Bytes(r[1], r[3])
           target == Bytes(r[2], r[3])
<1>0. ShownExact /\ RangesExact /\ CountInv /\ RangesInv
  BY DEF Exactness, Counting
<1>1. /\ phase = "ranges" /\ event.ranges # <<>> /\ Patched(patches, cells)
      /\ Made /\ Shaped(cells) /\ InOrder(cells) /\ UNCHANGED <<unit, backend>>
  BY DEF MoveRange, Inductive, OrderInv, Made, Shown
<1>2. /\ UNCHANGED <<phase, cells, used, trusted>>
      /\ \/ patches' = patches /\ told' = [told EXCEPT !.true = FALSE]
         \/ patches' = taken /\ taken # Error /\ Len(r) = 3 /\ told' = Tell(r)
  BY DEF MoveRange, Keep
<1>3. Origin' = Origin
  BY <1>1 DEF Origin
<1>4. ShownExact'
  BY <1>0, <1>1, <1>2, <1>3 DEF ShownExact, Made, Shown
<1>5. MarkingExact'
  BY <1>1, <1>2 DEF MarkingExact
<1>6. CASE told' = [told EXCEPT !.true = FALSE]
  <2>1. "true" \in DOMAIN told
    BY <1>0, <1>1 DEF RangesExact
  <2>2. "true" \in DOMAIN told' /\ ~told'.true
    BY <1>6, <2>1
  <2>3. RangesExact'
    BY <2>2, Zenon DEF RangesExact
  <2> QED
    BY <1>4, <1>5, <2>3 DEF Exactness
<1>7. CASE patches' = taken /\ taken # Error /\ Len(r) = 3 /\ told' = Tell(r)
  <2>1. /\ "true" \in DOMAIN told' /\ told'.use = (told.use \ source) \cup target
        /\ told'.true <=> /\ told.true /\ Origin = 0
                          /\ r[1] + r[3] <= Total * UnitSize /\ r[2] + r[3] <= Total * UnitSize
                          /\ source \subseteq told.use /\ target \cap (told.use \ source) = {}
    <3>1. told' = [use |-> (told.use \ source) \cup target,
                   true |-> /\ told.true /\ Origin = 0
                            /\ r[1] + r[3] <= Total * UnitSize /\ r[2] + r[3] <= Total * UnitSize
                            /\ source \subseteq told.use /\ target \cap (told.use \ source) = {}]
      BY <1>7, Zenon DEF Tell
    <3> HIDE DEF r, source, target
    <3> QED
      BY <3>1, Zenon
  <2>2. r[1] \in Counts /\ r[2] \in Counts /\ r[3] \in Counts
    <3> DEFINE L == Seq(Counts)
    <3>1. event \in [ranges : Seq(L), allocate_only : BOOLEAN]
      BY <1>0, <1>1 DEF RangesInv, RangeEvent
    <3> HIDE DEF L
    <3>2. event.ranges \in Seq(L)
      BY <3>1
    <3>3. r \in L
      BY <1>1, <3>2
    <3> QED
      BY <1>7, <3>3, Entries DEF L
  <2>3. /\ \A k \in DOMAIN cells : cells[k] \in MapCells
        /\ \A k \in DOMAIN patches : patches[k] \in MapCells
        /\ unit \in Counts \ {0}
    BY <1>0, <1>1 DEF CountInv, RangesInv
  <2>4. ASSUME told'.true
        PROVE  trusted' /\ \A k \in DOMAIN cells : Exactly(0, effective_cell(taken, k), told'.use)
    <3>1. /\ Origin = 0 /\ told.true
          /\ r[1] + r[3] <= Total * UnitSize /\ r[2] + r[3] <= Total * UnitSize
          /\ source \subseteq told.use /\ target \cap (told.use \ source) = {}
      BY <2>1, <2>4, Zenon
    <3>2. trusted /\ \A k \in DOMAIN cells : Exactly(0, effective_cell(patches, k), told.use)
      BY <1>0, <1>1, <3>1, Zenon DEF RangesExact
    <3>3. unit = UnitSize
      BY <1>0, <1>1, <3>2 DEF ShownExact
    <3>4. /\ released # Error /\ Patched(released, cells)
          /\ \A k \in DOMAIN released : released[k] \in MapCells
          /\ \A k \in DOMAIN cells : Exactly(0, effective_cell(released, k), told.use \ source)
      <4>1. released # Error
        BY <1>7
      <4>2. CASE event.allocate_only
        <5>1. told.use \ source = told.use
          BY <4>2
        <5> QED
          BY <1>1, <2>3, <3>2, <4>1, <4>2, <5>1
      <4>3. CASE ~event.allocate_only
        <5>1. released = apply_range(patches, r[1], r[3], FALSE) /\ source = Bytes(r[1], r[3])
          BY <4>3
        <5> HIDE DEF released, taken, r, source, target
        <5>2. apply_range(patches, r[1], r[3], FALSE) # Error
          BY <4>1, <5>1
        <5>3. Patched(released, cells)
          BY <1>1, <5>1, <5>2, ApplyRangePatches
        <5>4. \A k \in DOMAIN released : released[k] \in MapCells
          BY <1>1, <2>2, <2>3, <5>1, <5>2, ApplyRangeBalanced
        <5>5. \A k \in DOMAIN cells : Exactly(0, effective_cell(released, k), told.use \ source)
          <6>1. Bytes(r[1], r[3]) \subseteq told.use
            BY <3>1, <5>1
          <6> QED
            BY <1>1, <2>2, <2>3, <3>1, <3>2, <3>3, <5>1, <5>2, <6>1, ApplyRangeExact
        <5> QED
          BY <4>1, <5>3, <5>4, <5>5
      <4> QED
        BY <4>2, <4>3
    <3>5. taken = apply_range(released, r[2], r[3], TRUE)
      BY <3>4
    <3>6. apply_range(released, r[2], r[3], TRUE) # Error
      BY <1>7, <3>5
    <3>7. \A k \in DOMAIN cells :
            Exactly(0, effective_cell(taken, k), (told.use \ source) \cup target)
      <4> DEFINE use == told.use \ source
      <4>1. Bytes(r[2], r[3]) \cap use = {} /\ target = Bytes(r[2], r[3])
        BY <3>1
      <4> HIDE DEF released, taken, r, source, target, use
      <4>2. \A k \in DOMAIN cells : Exactly(0, effective_cell(released, k), use)
        BY <3>4 DEF use
      <4>3. \A k \in DOMAIN cells :
              Exactly(0, effective_cell(taken, k), use \cup Bytes(r[2], r[3]))
        BY <1>1, <2>2, <2>3, <3>1, <3>3, <3>4, <3>5, <3>6, <4>1, <4>2, ApplyRangeExact
      <4> QED
        BY <4>1, <4>3 DEF use
    <3>8. trusted'
      BY <1>2, <3>2
    <3> QED
      BY <2>1, <3>7, <3>8
  <2>5. \A k : effective_cell(patches, k)' = effective_cell(taken, k)
    BY <1>2, <1>7 DEF effective_cell
  <2> HIDE DEF taken
  <2>6. told'.true => Origin = 0
    BY <2>1, Zenon
  <2>7. RangesExact'
    BY <1>2, <1>3, <2>1, <2>4, <2>5, <2>6 DEF RangesExact
  <2> QED
    BY <1>4, <1>5, <2>7 DEF Exactness
<1> QED
  BY <1>2, <1>6, <1>7

LEMMA ExactRanges ==
  ASSUME Inductive, Counting, Exactness, LiveRanges \/ MoveRange \/ CommitRanges
  PROVE  Exactness'
<1>0. ShownExact /\ RangesExact /\ CountInv /\ RangesInv
  BY DEF Exactness, Counting
<1>a. /\ Made /\ Shaped(cells) /\ InOrder(cells) /\ UNCHANGED <<mapperVars, resultVars>>
      /\ 1 \in DOMAIN cells
  <2>1. Shown /\ UNCHANGED <<mapperVars, resultVars>>
    BY DisplayFrame DEF Display
  <2> QED
    BY <1>0, <2>1 DEF Inductive, OrderInv, Made, ShownExact
<1>b. Origin' = Origin
  BY <1>a DEF Origin
<1>c. CASE Fails
  BY <1>a, <1>c, ExactFails
<1>1. CASE LiveRanges /\ ~Fails
  <2>1. /\ phase' = "ranges" /\ patches' = NoPatches
        /\ told' = [use |-> used, true |-> trusted] /\ UNCHANGED <<cells, used, trusted>>
    BY <1>1 DEF LiveRanges
  <2>2. \A k : effective_cell(patches, k)' = cells[k]
    BY <2>1 DEF effective_cell, NoPatches
  <2>3. told'.true = trusted /\ told'.use = used /\ "true" \in DOMAIN told'
    BY <2>1
  <2>4. ShownExact'
    BY <1>0, <1>a, <1>b, <2>1 DEF ShownExact
  <2>5. RangesExact'
    BY <1>0, <1>a, <1>b, <2>1, <2>2, <2>3 DEF RangesExact, ShownExact
  <2> QED
    BY <2>1, <2>4, <2>5 DEF Exactness, MarkingExact
<1>2. CASE CommitRanges
  <2>1. /\ phase = "ranges" /\ phase' = "live" /\ trusted' = told.true
        /\ cells' = [k \in DOMAIN cells |-> effective_cell(patches, k)]
        /\ used' = IF told.true THEN told.use ELSE used
    BY <1>2 DEF CommitRanges
  <2>2. DOMAIN cells' = DOMAIN cells /\ \A k \in DOMAIN cells : cells'[k] = effective_cell(patches, k)
    BY <2>1
  <2>3. ASSUME trusted'
        PROVE  unit = UnitSize /\ \A k \in DOMAIN cells' : Exactly(Origin, cells'[k], used')
    <3>1. told.true /\ used' = told.use
      BY <2>1, <2>3
    <3>2. trusted /\ \A k \in DOMAIN cells : Exactly(Origin, effective_cell(patches, k), told.use)
      BY <1>0, <2>1, <3>1 DEF RangesExact
    <3>3. unit = UnitSize
      BY <1>0, <1>a, <3>2 DEF ShownExact
    <3> QED
      BY <2>2, <3>1, <3>2, <3>3
  <2> QED
    BY <1>a, <2>1, <2>2, <2>3, ExactShows
<1> QED
  BY <1>c, <1>1, <1>2, ExactMove

LEMMA ExactReset ==
  ASSUME Inductive, Counting, Exactness, LiveReset \/ MarkRange \/ CommitReset
  PROVE  Exactness'
<1>0. ShownExact /\ MarkingExact /\ CountInv /\ MarkingInv
  BY DEF Exactness, Counting
<1>a. /\ Made /\ Shaped(cells) /\ InOrder(cells) /\ UNCHANGED <<mapperVars, resultVars>>
      /\ 1 \in DOMAIN cells /\ \A k \in DOMAIN cells : cells[k] \in MapCells
  <2>1. Shown /\ UNCHANGED <<mapperVars, resultVars>>
    BY DisplayFrame DEF Display
  <2> QED
    BY <1>0, <2>1 DEF Inductive, OrderInv, Made, ShownExact, CountInv
<1>b. Origin' = Origin
  BY <1>a DEF Origin
<1>c. CASE Fails
  BY <1>a, <1>c, ExactFails
<1>1. CASE LiveReset /\ ~Fails
  <2>1. PICK e \in ResetEvents :
          /\ phase' = "marking" /\ event' = [e EXCEPT !.unit = ResetUnit(e)]
          /\ patches' = [k \in DOMAIN cells |-> Blank(cells[k], e.units)]
          /\ told' = [use |-> used, true |-> TrueReset(e)] /\ UNCHANGED <<cells, used, trusted>>
    BY <1>1 DEF LiveReset
  <2>2. ShownExact'
    BY <1>0, <1>a, <1>b, <2>1 DEF ShownExact
  <2>3. RangesExact'
    BY <2>1 DEF RangesExact
  <2>4. ASSUME told'.true
        PROVE  /\ Origin = 0 /\ unit = UnitSize /\ event'.units = Total /\ event'.unit = UnitSize
               /\ \A k \in DOMAIN event'.used_ranges : Entry(event'.used_ranges[k], used)
               /\ Apart(event'.used_ranges)
               /\ \A k \in DOMAIN cells : Exactly(0, patches'[k], used \ Remain(event'.used_ranges))
    <3>1. told'.true = TrueReset(e)
      BY <2>1
    <3>2. TrueReset(e)
      BY <2>4, <3>1
    <3> DEFINE rs == e.used_ranges
    <3>3. /\ Origin = 0 /\ unit = UnitSize /\ e.units = Total /\ ResetUnit(e) = UnitSize
          /\ \A k \in DOMAIN rs : Len(rs[k]) = 2 /\ rs[k][2] # 0
          /\ Remain(rs) = used /\ Apart(rs)
      BY <3>2, Zenon DEF TrueReset, Remain, Apart, Held
    <3>4. \A k \in DOMAIN rs : Held(rs[k]) \subseteq Remain(rs)
      BY Zenon DEF Remain
    <3>5. event'.units = Total /\ event'.unit = UnitSize /\ event'.used_ranges = rs
      <4> DEFINE L == Seq(Seq(Counts))
      <4>1. e \in [units : Counts, unit : Counts, used_ranges : L]
        BY EventsAssumption DEF ResetEvent
      <4> HIDE DEF L
      <4> QED
        BY <2>1, <3>3, <4>1
    <3> HIDE DEF rs
    <3>6. \A k \in DOMAIN rs : Entry(rs[k], used)
      BY <3>3, <3>4 DEF Entry
    <3>7. used \ Remain(rs) = {}
      BY <3>3
    <3>8. ASSUME NEW k \in DOMAIN cells
          PROVE  Exactly(0, patches'[k], {})
      <4>1. patches'[k] = Blank(cells[k], Total)
        BY <2>1, <3>3, <3>8
      <4>2. cells[k].start <= cells[k].end
        BY <1>a, <3>8 DEF InOrder
      <4> QED
        BY <1>a, <3>8, <4>1, <4>2, BlankExact
    <3> QED
      BY <3>3, <3>5, <3>6, <3>7, <3>8, Zenon
  <2>5. MarkingExact'
    <3>1. unit' = unit
      BY <1>a
    <3> QED
      BY <1>b, <2>1, <2>4, <3>1, Zenon DEF MarkingExact
  <2> QED
    BY <2>2, <2>3, <2>5 DEF Exactness
<1>2. CASE MarkRange /\ ~Fails
  <2> DEFINE rs == event.used_ranges
             r == Head(rs)
  <2>1. /\ phase = "marking" /\ rs # <<>> /\ Patched(patches, cells)
        /\ patches = [k \in DOMAIN cells |-> patches[k]]
    BY <1>2 DEF MarkRange, Inductive, OrderInv
  <2>2. /\ event' = [event EXCEPT !.used_ranges = Tail(@)]
        /\ patches' = Mark(event.units, event.unit, patches, r)
        /\ UNCHANGED <<phase, cells, told, used, trusted>>
    BY <1>2 DEF MarkRange
  <2>3. ShownExact'
    BY <1>0, <1>a, <1>b, <2>1, <2>2 DEF ShownExact
  <2>4. RangesExact'
    BY <2>1, <2>2 DEF RangesExact
  <2>5. ASSUME told.true
        PROVE  /\ Origin = 0 /\ unit = UnitSize /\ event'.units = Total /\ event'.unit = UnitSize
               /\ \A k \in DOMAIN event'.used_ranges : Entry(event'.used_ranges[k], used)
               /\ Apart(event'.used_ranges)
               /\ \A k \in DOMAIN cells : Exactly(0, patches'[k], used \ Remain(event'.used_ranges))
    <3>1. /\ Origin = 0 /\ unit = UnitSize /\ event.units = Total /\ event.unit = UnitSize
          /\ \A k \in DOMAIN rs : Entry(rs[k], used)
          /\ Apart(rs) /\ \A k \in DOMAIN cells : Exactly(0, patches[k], used \ Remain(rs))
      BY <1>0, <2>1, <2>5, Zenon DEF MarkingExact
    <3>2. /\ rs \in Seq(Seq(Counts)) /\ event'.units = event.units /\ event'.unit = event.unit
          /\ event'.used_ranges = Tail(rs)
      <4> DEFINE L == Seq(Seq(Counts))
      <4>1. event \in [units : Counts, unit : Counts, used_ranges : L]
        BY <1>0, <2>1 DEF MarkingInv, ResetEvent
      <4> HIDE DEF L
      <4>2. rs \in L /\ event'.units = event.units /\ event'.unit = event.unit
            /\ event'.used_ranges = Tail(rs)
        BY <2>2, <4>1
      <4> QED
        BY <4>2 DEF L
    <3> HIDE DEF rs
    <3> DEFINE use == used \ Remain(rs)
    <3>3. /\ Entry(r, used) /\ Held(r) \cap use = {} /\ use \cup Held(r) = used \ Remain(Tail(rs))
          /\ \A k \in DOMAIN Tail(rs) : Entry(Tail(rs)[k], used)
          /\ Apart(Tail(rs))
      <4> DEFINE L == Seq(Counts)
      <4>1. rs \in Seq(L)
        BY <3>2
      <4> HIDE DEF L
      <4> QED
        BY <2>1, <3>1, <4>1, OneHeld, Zenon
    <3>4. r[1] \in Counts /\ r[2] \in Counts /\ r[2] # 0
      <4> DEFINE L == Seq(Counts)
      <4>1. rs \in Seq(L)
        BY <3>2
      <4> HIDE DEF L
      <4>2. r \in L
        BY <2>1, <4>1
      <4>3. Len(r) = 2 /\ r[2] # 0
        BY <3>3 DEF Entry
      <4> QED
        BY <4>2, <4>3, Entries DEF L
    <3>5. \A k \in DOMAIN cells : patches[k] \in MapCells
      <4>1. DOMAIN patches = DOMAIN cells
        BY <2>1
      <4> QED
        BY <1>0, <2>1, <4>1 DEF MarkingInv
    <3>6. \A k \in DOMAIN cells : Exactly(0, patches[k], use)
      BY <3>1
    <3> HIDE DEF r, use
    <3>7. \A k \in DOMAIN cells : Exactly(0, Mark(Total, UnitSize, patches, r)[k], use \cup Held(r))
      BY <1>a, <2>1, <3>3, <3>4, <3>5, <3>6, MarkExact
    <3>8. patches' = Mark(Total, UnitSize, patches, r)
      BY <2>2, <3>1
    <3>9. \A k \in DOMAIN cells : Exactly(0, patches'[k], used \ Remain(Tail(rs)))
      BY <3>3, <3>7, <3>8, Zenon
    <3> QED
      BY <3>1, <3>2, <3>3, <3>9, Zenon
  <2>6. MarkingExact'
    <3>1. unit' = unit
      BY <1>a
    <3> QED
      BY <1>b, <2>2, <2>5, <3>1, Zenon DEF MarkingExact
  <2> QED
    BY <2>3, <2>4, <2>6 DEF Exactness
<1>3. CASE CommitReset /\ ~Fails
  <2>1. /\ phase = "marking" /\ phase' = "live" /\ cells' = patches /\ event.used_ranges = <<>>
        /\ trusted' = told.true /\ UNCHANGED used
    BY <1>3 DEF CommitReset
  <2>2. patches = [k \in DOMAIN cells |-> patches[k]]
    BY <2>1 DEF Inductive, OrderInv
  <2>3. DOMAIN cells' = DOMAIN cells
    BY <2>1, <2>2
  <2>4. ASSUME trusted'
        PROVE  unit = UnitSize /\ \A k \in DOMAIN cells' : Exactly(Origin, cells'[k], used')
    <3>1. told.true
      BY <2>1, <2>4
    <3>2. /\ Origin = 0 /\ unit = UnitSize
          /\ \A k \in DOMAIN cells : Exactly(0, patches[k], used \ Remain(<<>>))
      BY <1>0, <2>1, <3>1, Zenon DEF MarkingExact
    <3>3. used \ Remain(<<>>) = used
      BY DEF Remain
    <3> QED
      BY <2>1, <2>3, <3>2, <3>3, Zenon
  <2> QED
    BY <1>a, <2>1, <2>3, <2>4, ExactShows
<1> QED
  BY <1>c, <1>1, <1>2, <1>3

(* A true @@LIVE_MAP counts the cells that changed anew. *)
LEMMA RecountExact ==
  ASSUME NEW c \in MapCells, NEW taken
  PROVE  Exactly(Origin, Recount(c, taken), taken)
<1> DEFINE d == Recount(c, taken)
           free == Cardinality(Within(c) \ taken)
           held == Cardinality(Within(c) \cap taken)
<1>1. c = [start |-> c.start, end |-> c.end, free |-> c.free, used |-> c.used,
           unknown |-> c.unknown, outside |-> c.outside, bad |-> c.bad,
           fragmented |-> c.fragmented, directory |-> c.directory]
  BY DEF MapCells
<1>2. d = [c EXCEPT !.free = free, !.used = held, !.fragmented = 0, !.directory = 0]
  BY DEF Recount
<1> HIDE DEF d, free, held
<1>3. d.free = free /\ d.used = held /\ d.start = c.start /\ d.end = c.end
  BY <1>1, <1>2
<1>4. Here(Origin, d) = Within(c)
  BY <1>3 DEF Here, Within
<1> QED
  BY <1>3, <1>4, Zenon DEF Exactly, d, free, held

LEMMA ExactCells ==
  ASSUME Inductive, Counting, Exactness, LiveResetReason \/ LiveCells \/ LiveCellsTrue
  PROVE  Exactness'
<1>0. ShownExact /\ CountInv
  BY DEF Exactness, Counting
<1>a. /\ Made /\ UNCHANGED <<mapperVars, resultVars>> /\ 1 \in DOMAIN cells
      /\ \A k \in DOMAIN cells : cells[k] \in MapCells
  <2>1. Shown /\ UNCHANGED <<mapperVars, resultVars>>
    BY DisplayFrame DEF Display
  <2> QED
    BY <1>0, <2>1 DEF Made, ShownExact, CountInv
<1>b. CASE Fails
  BY <1>a, <1>b, ExactFails
<1>1. CASE LiveResetReason /\ ~Fails
  <2>1. phase = "live" /\ phase' = "live" /\ UNCHANGED <<cells, used, trusted>>
    BY <1>1 DEF LiveResetReason, Comes
  <2>2. trusted' => unit = UnitSize /\ \A k \in DOMAIN cells' : Exactly(Origin, cells'[k], used')
    BY <1>0, <1>a, <2>1 DEF ShownExact
  <2> QED
    BY <1>a, <2>1, <2>2, ExactShows
<1>2. CASE LiveCells /\ ~Fails
  <2>1. PICK e \in CellEvents : UpdateCells(Updates(e), used, FALSE)
    BY <1>2 DEF LiveCells
  <2>2. phase' = "live" /\ ~trusted' /\ cells' = [k \in DOMAIN cells |-> effective_cell(Updates(e), k)]
    BY <1>2, <2>1 DEF UpdateCells
  <2>3. 1 \in DOMAIN cells'
    BY <1>a, <2>2
  <2> QED
    BY <1>a, <2>2, <2>3, ExactShows
<1>3. CASE LiveCellsTrue /\ ~Fails
  <2> DEFINE changed(taken) == {k \in DOMAIN cells : ~Faithful(cells[k], taken)}
             p(taken) == [k \in changed(taken) |-> Recount(cells[k], taken)]
  <2>1. PICK taken \in Uses : UpdateCells(p(taken), taken, TRUE)
    BY <1>3 DEF LiveCellsTrue
  <2>2. trusted /\ phase = "live"
    BY <1>3 DEF LiveCellsTrue, Comes
  <2>3. /\ phase' = "live" /\ used' = taken
        /\ cells' = [k \in DOMAIN cells |-> effective_cell(p(taken), k)]
    BY <1>3, <2>1 DEF UpdateCells
  <2>4. unit = UnitSize
    BY <1>0, <1>a, <2>2 DEF ShownExact
  <2>5. ASSUME NEW k \in DOMAIN cells
        PROVE  Exactly(Origin, effective_cell(p(taken), k), taken)
    <3>1. CASE k \in changed(taken)
      <4>1. effective_cell(p(taken), k) = Recount(cells[k], taken)
        BY <3>1 DEF effective_cell
      <4> QED
        BY <1>a, <2>5, <4>1, RecountExact
    <3>2. CASE k \notin changed(taken)
      <4>1. effective_cell(p(taken), k) = cells[k]
        BY <3>2 DEF effective_cell
      <4>2. Faithful(cells[k], taken)
        BY <2>5, <3>2
      <4> QED
        BY <4>1, <4>2, FaithfulExactly
    <3> QED
      BY <3>1, <3>2
  <2> HIDE DEF p
  <2>6. DOMAIN cells' = DOMAIN cells /\ \A k \in DOMAIN cells : Exactly(Origin, cells'[k], used')
    BY <2>3, <2>5
  <2> QED
    BY <1>a, <2>3, <2>4, <2>6, ExactShows
<1> QED
  BY <1>b, <1>1, <1>2, <1>3

LEMMA ExactStep ==
  ASSUME RangeMapsExact, Inductive, Counting, Exactness, [Next]_vars
  PROVE  Exactness'
<1>1. CASE UNCHANGED vars
  <2>1. UNCHANGED <<phase, backend, unit, cells, told, used, trusted, event, patches>>
    BY <1>1
  <2>2. Origin' = Origin
    BY <2>1 DEF Origin
  <2>3. ShownExact'
    BY <2>1, <2>2 DEF Exactness, ShownExact, Made, Shown
  <2>4. RangesExact'
    BY <2>1, <2>2 DEF Exactness, RangesExact, effective_cell
  <2>5. MarkingExact'
    BY <2>1, <2>2 DEF Exactness, MarkingExact
  <2> QED
    BY <2>3, <2>4, <2>5 DEF Exactness
<1>2. CASE Next
  BY <1>1, <1>2, ExactMade, ExactRanges, ExactReset, ExactCells DEF Next, Ended
<1> QED
  BY <1>1, <1>2

(* If the builders that work on ranges count exactly: what the display and an   *)
(* event under way count, as long as all that was told is true.                 *)
THEOREM ExactInvariance ==
  RangeMapsAddUp /\ RangeMapsExact => (Spec => [](Inductive /\ Counting /\ Exactness))
<1> SUFFICES ASSUME RangeMapsAddUp, RangeMapsExact
             PROVE  Spec => [](Inductive /\ Counting /\ Exactness)
  OBVIOUS
<1>1. Init => Inductive /\ Counting /\ Exactness
  BY InductiveInit, CountingInit, ExactInit
<1>2. Inductive /\ Counting /\ Exactness /\ [Next]_vars => (Inductive /\ Counting /\ Exactness)'
  BY InductiveStep, CountingStep, ExactStep
<1> QED
  BY <1>1, <1>2, PTL DEF Spec

-----------------------------------------------------------------------------
(* The display implements UnitMap. *)

(* What UnitMap sees of a list of cells. *)
Bounds(o, cs) == [k \in DOMAIN cs |-> <<cs[k].start - o, cs[k].end - o>>]
View(cs) == [k \in DOMAIN cs |-> [free |-> cs[k].free, used |-> cs[k].used]]

(* UnitMap counts as LiveMap does. *)
LEMMA PromiseCounts == \A S : Promise!Cardinality(S) = Cardinality(S)
BY Zenon DEF Promise!Cardinality, Cardinality

LEMMA ViewExact ==
  ASSUME NEW cs, NEW o \in Nat, NEW use,
         \A k \in DOMAIN cs : cs[k] \in MapCells /\ Exactly(o, cs[k], use)
  PROVE  View(cs) = Promise!Exact(Bounds(o, cs), use)
<1>1. ASSUME NEW k \in DOMAIN cs
      PROVE  [free |-> cs[k].free, used |-> cs[k].used] = Promise!Counts(Bounds(o, cs)[k], use)
  <2> DEFINE b == Bounds(o, cs)[k]
             c == cs[k]
  <2>1. b = <<c.start - o, c.end - o>>
    BY <1>1 DEF Bounds
  <2>2. c.start \in Nat /\ c.end \in Nat
    BY <1>1, CellCountsTyped, CountsNat
  <2>3. b[1] = c.start - o /\ b[2] = c.end - o
    BY <2>1
  <2> HIDE DEF b, c
  <2>4. Promise!Covered(b) = Here(o, c)
    <3>1. Units \subseteq Nat
      BY UnitsFinite
    <3>2. \A u \in Units : (b[1] <= u /\ u <= b[2]) <=> (c.start <= u + o /\ u + o <= c.end)
      BY <2>2, <2>3, <3>1
    <3> QED
      BY <3>2, Zenon DEF Promise!Covered, Here
  <2>5. Exactly(o, c, use)
    BY <1>1 DEF c
  <2>6. c.free = Cardinality(Here(o, c) \ use) /\ c.used = Cardinality(Here(o, c) \cap use)
    BY <2>5 DEF Exactly
  <2> QED
    BY <2>4, <2>6, PromiseCounts, Zenon DEF Promise!Counts, b, c
<1>2. DOMAIN Bounds(o, cs) = DOMAIN cs
  BY DEF Bounds
<1> QED
  BY <1>1, <1>2, Zenon DEF View, Promise!Exact

LEMMA BoundsShape ==
  ASSUME NEW cs, Shaped(cs), 1 \in DOMAIN cs, NEW o
  PROVE  Bounds(o, cs) # <<>> /\ Len(Bounds(o, cs)) = Len(cs)
<1>1. Len(cs) \in Nat /\ DOMAIN cs = 1 .. Len(cs)
  BY ShapedLength
<1> DEFINE bs == Bounds(o, cs)
           n == Len(cs)
<1>2. bs = [k \in 1 .. n |-> bs[k]] /\ DOMAIN bs = 1 .. n
  BY <1>1 DEF Bounds
<1> HIDE DEF bs, n
<1>3. bs \in Seq({bs[k] : k \in 1 .. n})
  BY <1>1, <1>2 DEF n
<1>4. Len(bs) = n
  BY <1>1, <1>2, <1>3 DEF n
<1>5. 1 <= n
  BY <1>1 DEF n
<1> QED
  BY <1>1, <1>4, <1>5 DEF bs, n

(* What a step of the display is to UnitMap. *)
Kept == DOMAIN cells' = DOMAIN cells
        /\ \A k \in DOMAIN cells : cells'[k].start = cells[k].start /\ cells'[k].end = cells[k].end
LEMMA DisplaySteps ==
  ASSUME Inductive, Counting, Exactness, Display
  PROVE  \/ UNCHANGED <<cells, used, trusted>>
         \/ ~trusted' /\ UNCHANGED used /\ DOMAIN cells' = DOMAIN cells
         \/ trusted' /\ UNCHANGED used /\ Kept
         \/ trusted /\ trusted' /\ Kept
<1>a. Shown /\ Shaped(cells)
  BY DisplayFrame DEF Inductive, OrderInv, Made
<1>b. CASE Fails
  BY <1>b DEF Fails
<1>1. CASE (LiveRanges \/ MoveRange \/ LiveReset \/ MarkRange \/ LiveResetReason) /\ ~Fails
  BY <1>1 DEF LiveRanges, MoveRange, LiveReset, MarkRange, LiveResetReason, Keep
<1>2. CASE CommitRanges
  <2>1. /\ phase = "ranges" /\ trusted' = told.true
        /\ cells' = [k \in DOMAIN cells |-> effective_cell(patches, k)]
        /\ used' = IF told.true THEN told.use ELSE used
    BY <1>2 DEF CommitRanges
  <2>2. Patched(patches, cells)
    BY <2>1 DEF Inductive, OrderInv
  <2>3. Kept
    BY <2>1, <2>2 DEF Kept, effective_cell, Patched, Placed
  <2>4. CASE told.true
    <3>1. trusted
      BY <2>1, <2>4 DEF Exactness, RangesExact
    <3> QED
      BY <2>1, <2>3, <2>4, <3>1
  <2>5. CASE ~told.true
    BY <2>1, <2>3, <2>5 DEF Kept
  <2> QED
    BY <2>4, <2>5
<1>3. CASE CommitReset /\ ~Fails
  <2>1. phase = "marking" /\ trusted' = told.true /\ cells' = patches /\ UNCHANGED used
    BY <1>3 DEF CommitReset
  <2>2. patches = [k \in DOMAIN cells |-> patches[k]] /\ Patched(patches, cells)
    BY <2>1 DEF Inductive, OrderInv
  <2>3. DOMAIN patches = DOMAIN cells
    BY <2>2
  <2>4. Kept
    BY <2>1, <2>2, <2>3 DEF Kept, Patched, Placed
  <2>5. DOMAIN cells' = DOMAIN cells
    BY <2>4 DEF Kept
  <2>6. CASE trusted'
    BY <2>1, <2>4, <2>6
  <2>7. CASE ~trusted'
    BY <2>1, <2>5, <2>7
  <2> QED
    BY <2>6, <2>7
<1>4. CASE LiveCells /\ ~Fails
  <2>1. PICK e \in CellEvents : UpdateCells(Updates(e), used, FALSE)
    BY <1>4 DEF LiveCells
  <2>2. ~trusted' /\ used' = used /\ cells' = [k \in DOMAIN cells |-> effective_cell(Updates(e), k)]
    BY <1>4, <2>1 DEF UpdateCells
  <2> QED
    BY <2>2
<1>5. CASE LiveCellsTrue /\ ~Fails
  <2> DEFINE changed(taken) == {k \in DOMAIN cells : ~Faithful(cells[k], taken)}
             p(taken) == [k \in changed(taken) |-> Recount(cells[k], taken)]
  <2>1. PICK taken \in Uses : UpdateCells(p(taken), taken, TRUE)
    BY <1>5 DEF LiveCellsTrue
  <2>2. trusted
    BY <1>5 DEF LiveCellsTrue
  <2>3. trusted' /\ cells' = [k \in DOMAIN cells |-> effective_cell(p(taken), k)]
    BY <1>5, <2>1 DEF UpdateCells
  <2>4. ASSUME NEW k \in DOMAIN cells
        PROVE  Placed(effective_cell(p(taken), k), cells[k])
    <3>1. Placed(cells[k], cells[k])
      BY <1>a, ShapedLength DEF Placed
    <3>2. effective_cell(p(taken), k) \in {cells[k], Recount(cells[k], taken)}
      BY DEF effective_cell
    <3> QED
      BY <3>1, <3>2, RecountPlaced
  <2> HIDE DEF p
  <2>5. Kept
    BY <2>3, <2>4 DEF Kept, Placed
  <2> QED
    BY <2>2, <2>3, <2>5
<1> QED
  BY <1>b, <1>1, <1>2, <1>3, <1>4, <1>5 DEF Display

LEMMA OriginNat == Origin \in Nat
BY DEF Origin

LEMMA DisplayImplements ==
  ASSUME Inductive, Counting, Exactness, Exactness', Inductive', Counting', Display
  PROVE  [Promise!Next]_(Promise!vars)
<1>1. Shown /\ Shown' /\ UNCHANGED backend
  BY DisplayFrame
<1>2. Origin' = Origin
  BY <1>1 DEF Origin
<1> DEFINE bs == Bounds(Origin, cells)
           cs == Bounds(Origin, cells')
<1>3. /\ Shaped(cells) /\ Shaped(cells') /\ 1 \in DOMAIN cells /\ 1 \in DOMAIN cells'
      /\ Made /\ Made'
  BY <1>1 DEF Inductive, OrderInv, Made, Exactness, ShownExact
<1>4. ASSUME UNCHANGED <<cells, used, trusted>>
      PROVE  UNCHANGED Promise!vars
  BY <1>1, <1>2, <1>4 DEF Promise!vars
<1>5. ASSUME trusted'
      PROVE  View(cells') = Promise!Exact(cs, used')
  <2>1. \A k \in DOMAIN cells' : cells'[k] \in MapCells
    BY DEF Counting, CountInv
  <2>2. \A k \in DOMAIN cells' : Exactly(Origin, cells'[k], used')
    BY <1>2, <1>3, <1>5 DEF Exactness, ShownExact
  <2> QED
    BY <2>1, <2>2, OriginNat, ViewExact
<1>6. Kept => cs = bs
  BY DEF Kept, Bounds
<1>7. bs # <<>> /\ cs # <<>> /\ Len(bs) = Len(cells) /\ Len(cs) = Len(cells')
  BY <1>3, BoundsShape
<1>8. ASSUME ~trusted', UNCHANGED used, DOMAIN cells' = DOMAIN cells
      PROVE  Promise!Doubt
  <2>1. Len(cells') = Len(cells)
    <3>1. /\ Len(cells) \in Nat /\ DOMAIN cells = 1 .. Len(cells)
      BY <1>3, ShapedLength
    <3>2. /\ Len(cells') \in Nat /\ DOMAIN cells' = 1 .. Len(cells')
      BY <1>3, ShapedLength
    <3>3. \A m, n \in Nat : 1 .. m = 1 .. n => m = n
      OBVIOUS
    <3> QED
      BY <1>8, <3>1, <3>2, <3>3
  <2> QED
    BY <1>1, <1>2, <1>7, <1>8, <2>1 DEF Promise!Doubt, Bounds
<1>9. ASSUME trusted', UNCHANGED used, Kept
      PROVE  Promise!Report
  <2>1. View(cells') = Promise!Exact(cs, used)
    BY <1>5, <1>9
  <2>2. cs = bs
    BY <1>6, <1>9
  <2> QED
    BY <1>1, <1>2, <1>9, <2>1, <2>2, Zenon DEF Promise!Report, Bounds, View
<1>10. ASSUME trusted, trusted', Kept
       PROVE  Promise!Change
  <2>1. View(cells') = Promise!Exact(bs, used')
    BY <1>5, <1>6, <1>10
  <2>2. cs = bs
    BY <1>6, <1>10
  <2>3. used' \subseteq Units
    BY DEF Counting, CountInv
  <2> QED
    BY <1>1, <1>2, <1>10, <2>1, <2>2, <2>3, Zenon DEF Promise!Change, Bounds, View
<1> QED
  BY <1>4, <1>8, <1>9, <1>10, DisplaySteps DEF Promise!Next

LEMMA MapperImplements ==
  ASSUME Inductive, Counting, Exactness, Exactness', Inductive', Counting',
         \/ TakeNamed \/ Identify \/ NoneRecognises \/ Scan \/ ScanFails
         \/ PreflightDefrag \/ PreflightGrowth \/ Present
  PROVE  [Promise!Next]_(Promise!vars)
<1>1. ~Shown /\ UNCHANGED used
  BY DEF TakeNamed, Identify, NoneRecognises, Scan, ScanFails, PreflightDefrag, PreflightGrowth,
         Preflight, Present, Shown
<1>2. CASE ~Shown'
  BY <1>1, <1>2 DEF Promise!vars
<1>3. CASE Shown'
  <2> DEFINE cs == Bounds(Origin', cells')
  <2>1. Made' /\ Shaped(cells') /\ 1 \in DOMAIN cells'
    BY <1>3 DEF Inductive, OrderInv, Made, Exactness, ShownExact
  <2>2. cs # <<>>
    BY <2>1, BoundsShape
  <2>3. CASE ~trusted'
    BY <1>1, <1>3, <2>2, <2>3 DEF Promise!Next, Promise!Doubt, Bounds
  <2>4. CASE trusted'
    <3>1. \A k \in DOMAIN cells' : cells'[k] \in MapCells
      BY DEF Counting, CountInv
    <3>2. \A k \in DOMAIN cells' : Exactly(Origin', cells'[k], used')
      BY <2>1, <2>4 DEF Exactness, ShownExact
    <3>3. Origin' \in Nat
      BY DEF Origin
    <3>4. View(cells') = Promise!Exact(cs, used)
      BY <1>1, <3>1, <3>2, <3>3, ViewExact
    <3> QED
      BY <1>1, <1>3, <2>4, <3>4, Zenon DEF Promise!Next, Promise!Report, Bounds, View
  <2> QED
    BY <2>3, <2>4
<1> QED
  BY <1>2, <1>3

(* The display implements UnitMap: with true reports and events every cell counts *)
(* its free and used units exactly and a whole event at a time, an untrue or      *)
(* refused one only casts doubt, and a true reset ends it.                        *)
THEOREM DisplayRefines == RangeMapsAddUp /\ RangeMapsExact => (Spec => ExactDisplay)
<1> SUFFICES ASSUME RangeMapsAddUp, RangeMapsExact PROVE Spec => ExactDisplay
  OBVIOUS
<1>1. Init => Promise!Init
  <2> SUFFICES ASSUME Init PROVE Promise!Init
    OBVIOUS
  <2>1. ~Shown /\ used \in Uses
    BY DEF Init, Shown
  <2> QED
    BY <2>1, UsesAssumption DEF Promise!Init
<1> DEFINE I == Inductive /\ Counting /\ Exactness
<1>2. I /\ I' /\ [Next]_vars => [Promise!Next]_(Promise!vars)
  <2> SUFFICES ASSUME I, I', [Next]_vars PROVE [Promise!Next]_(Promise!vars)
    OBVIOUS
  <2>1. CASE UNCHANGED vars
    <3>1. UNCHANGED <<phase, backend, cells, used, trusted>>
      BY <2>1
    <3> QED
      BY <3>1 DEF Promise!vars, Shown, Origin
  <2>2. CASE Next
    BY <2>1, <2>2, DisplayImplements, MapperImplements DEF Next, Display, Ended
  <2> QED
    BY <2>1, <2>2
<1>3. Spec => []I
  BY ExactInvariance
<1> QED
  BY <1>1, <1>2, <1>3, PTL DEF Spec, ExactDisplay, Promise!Spec
=============================================================================
