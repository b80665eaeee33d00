------------------------------- MODULE LiveMap -------------------------------
(***************************************************************************)
(* The allocation map from the worker's report to the live display:        *)
(* native/mapper.cpp chooses a backend, map_backend (native/map.cpp) makes *)
(* and qualifies the map, present_map (native/desktop.cpp) takes it, and   *)
(* native/desktop_live_map.cpp follows the writer's events.                *)
(*                                                                         *)
(* Workers and writers are other programs: what they report is any member  *)
(* of the constant sets below, true or not.                                *)
(***************************************************************************)
EXTENDS AllocationMap, BackendRegistry, FiniteSets

CONSTANTS
  Total,        \* allocation units of the volume
  UnitSize,     \* and their size in bytes
  Uses,         \* allocations the volume can be in
  Requests,     \* calls of the mapper: [fstype, probe]
  Identities,   \* what an identify worker can answer, "" for a failure
  Reports,      \* what a map or analyse worker can report
  RangeEvents,  \* [ranges, allocate_only]
  ResetEvents,  \* [units, unit, used_ranges]
  CellEvents,   \* sequences of [i, cell]
  MaxEvents     \* bound: live events of one run

Units == 0 .. Total - 1
ASSUME WidthAssumption == MaxU \in Nat
ASSUME UsesAssumption ==
  Total \in 1 .. MaxU /\ UnitSize \in Nat \ {0} /\ \A u \in Uses : u \subseteq Units

(* What number() and pair_value() make of JSON: unsigned numbers, lists of them, *)
(* and cells of nine.                                                            *)
Counts == 0 .. MaxU
MapCells == [start : Counts, end : Counts, free : Counts, used : Counts, unknown : Counts,
             outside : Counts, bad : Counts, fragmented : Counts, directory : Counts]
RangeEvent == [ranges : Seq(Seq(Counts)), allocate_only : BOOLEAN]
ResetEvent == [units : Counts, unit : Counts, used_ranges : Seq(Seq(Counts))]
ASSUME EventsAssumption ==
  /\ RangeEvents \subseteq RangeEvent /\ ResetEvents \subseteq ResetEvent
  /\ \A e \in CellEvents : e \in Seq([i : Nat, cell : MapCells])

(* The cells of a FAT worker have no unknown and no outside, which are then read as 0. *)
ASSUME ReportsAssumption ==
  \A r \in Reports :
    /\ r.total \in Nat /\ r.unit \in Counts /\ r.cells \in Seq(MapCells)
    /\ r.adapter = "fat" => \A k \in DOMAIN r.cells : r.cells[k].unknown = 0 /\ r.cells[k].outside = 0

VARIABLES
  phase,
  request, candidate,         \* the mapper's arguments; its place in Candidates
  backend, identified,
  map,                        \* the mapper's result, without the cells
  cells,                      \* cells_
  volume,                     \* what present_map stores on the selected volume
  unit,                       \* unit_size of map_data_
  event, patches,             \* the event being applied; its CellPatches, or its copy of cells_
  events,
  used,                       \* the allocation, as the writer's true events tell it
  trusted, proper,            \* history: nothing untrue, no ill-formed cells since the report
  told,                       \* history: the allocation after the ranges applied so far
  said, passed,               \* history: the map's own flags, the preflights that passed
  before, outcome             \* history: cells_ when the event came, and how it ended

mapperVars  == <<request, candidate, backend, identified>>
resultVars  == <<map, volume, unit, said, passed>>
eventVars   == <<event, patches, told, before, outcome>>
truthVars   == <<used, trusted, proper>>
vars == <<phase, mapperVars, resultVars, cells, eventVars, events, truthVars>>

-----------------------------------------------------------------------------
(* The mapper's choice of a backend. *)

Generic == {"vfat", "fat", "msdos"}
FatWidths == <<"fat12", "fat16", "fat32">>
RegistryOrder ==
  <<"affs", "apfs", "btrfs", "exfat", "ext2", "ext3", "ext4", "fat12", "fat16", "fat32", "hfs",
    "hfsplus", "minix", "ntfs", "pfs3", "sfs", "swap", "ufs", "xfs", "zfs">>

Candidates ==
  IF request.fstype \in Generic THEN FatWidths
  ELSE IF request.fstype = "" THEN RegistryOrder
  ELSE IF backend_by_fstype(request.fstype) = NoBackend THEN <<>>
  ELSE <<backend_by_fstype(request.fstype)>>

(* A named filesystem is taken at its word; its map will be checked. *)
Named == request.fstype \notin Generic \cup {""} /\ ~request.probe

(* backend_identified_filesystem *)
Recognises(id, answer) == answer # "" /\ backend_by_fstype(answer) = id

Choose(id, answer) ==
  /\ backend' = id /\ candidate' = 1
  /\ identified' = IF request.probe THEN answer ELSE ""      \* only a probe prints it
  /\ phase' = IF request.probe THEN "probed" ELSE "scan"

TakeNamed ==
  /\ phase = "choose" /\ Named /\ Candidates # <<>> /\ Choose(Candidates[1], "")
  /\ UNCHANGED <<request, resultVars, cells, eventVars, events, truthVars>>

Identify ==
  /\ phase = "choose" /\ ~Named /\ candidate <= Len(Candidates)
  /\ \E answer \in Identities :
       \/ /\ Recognises(Candidates[candidate], answer)
          /\ Choose(Candidates[candidate], answer)
       \/ /\ ~Recognises(Candidates[candidate], answer)
          /\ candidate' = candidate + 1 /\ UNCHANGED <<phase, backend, identified>>
  /\ UNCHANGED <<request, resultVars, cells, eventVars, events, truthVars>>

NoneRecognises ==
  /\ phase = "choose" /\ candidate > Len(Candidates)
  /\ phase' = "failed"
  /\ UNCHANGED <<mapperVars, resultVars, cells, eventVars, events, truthVars>>

-----------------------------------------------------------------------------
(* map_backend *)

MapAdapter(id) ==
  CASE id \in {"ext2", "ext3", "ext4"} -> "ext"
    [] id \in {"fat12", "fat16", "fat32"} -> "fat"
    [] id \in {"affs", "exfat", "hfsplus", "ntfs", "xfs"} -> "free-ranges"
    [] OTHER -> "native"

(* Mutant: a FAT map of any width will do. *)
SameFilesystemAnyFat(report) ==
  CASE MapAdapter(backend) = "ext" -> report.filesystem \in {"ext2", "ext3", "ext4"}
    [] MapAdapter(backend) = "fat" -> MapAdapter(backend_by_fstype(report.filesystem)) = "fat"
    [] MapAdapter(backend) = "native" -> backend_by_fstype(report.filesystem) = backend
    [] OTHER -> report.filesystem = backend

(* Whose map it says it is. *)
SameFilesystem(report) ==
  CASE MapAdapter(backend) = "ext" -> report.filesystem \in {"ext2", "ext3", "ext4"}
    [] MapAdapter(backend) \in {"fat", "native"} -> backend_by_fstype(report.filesystem) = backend
    [] OTHER -> report.filesystem = backend

(* Flags reach the result from a worker's own map, and from the NTFS analyser. *)
Carries == MapAdapter(backend) \in {"fat", "native"} \/ backend = "ntfs"
OwnFlag(report, flag) == IF Carries THEN report[flag] ELSE "absent"

Accepted(report, made) ==
  /\ made # Error /\ SameFilesystem(report)
  /\ MapAdapter(backend) = "native" => backend_accepts_map_accuracy(backend, report.accuracy)
  /\ backend = "ntfs" => (report.defrag = "absent") = (report.growth = "absent")

(* The registry's accuracy, unless the worker's own map states one. *)
Accuracy(report) == IF MapAdapter(backend) = "native" THEN report.accuracy ELSE "exact"
Unknown(report, made) ==
  CASE MapAdapter(backend) = "native" -> report.unknown
    [] MapAdapter(backend) = "fat" -> 0
    [] OTHER -> Sum(made, "unknown")

(* The flags of a map before any preflight: what no preflight will settle is   *)
(* qualified, and a backend that writes nothing has no flags of its own.       *)
Mutable == backend_registry[backend].operations # {}
RunPreflight(report) ==
  \/ backend_registry[backend].qualification = "worker"
  \/ /\ backend_registry[backend].qualification = "map-or-worker"
     /\ "absent" \in {OwnFlag(report, "defrag"), OwnFlag(report, "growth")}
FirstFlag(report, flag) ==
  IF OwnFlag(report, flag) = "absent" /\ Mutable /\ ~RunPreflight(report) THEN "yes"
  ELSE OwnFlag(report, flag)

(* Positions 0 .. Total - 1 of the volume; FAT counts its clusters from 2. *)
Origin == IF MapAdapter(backend) = "fat" THEN 2 ELSE 0
Within(c) == {u \in Units : c.start <= u + Origin /\ u + Origin <= c.end}
Faithful(c, taken) ==
  /\ c.free = Cardinality(Within(c) \ taken) /\ c.used = Cardinality(Within(c) \cap taken)
Spanned(ranges) == {u \in Units : \E k \in DOMAIN ranges :
                                    ranges[k].start <= u /\ u < ranges[k].end}

(* The report says what the volume is. *)
Truthful(report) ==
  /\ report.total = Total /\ report.unit = UnitSize
  /\ IF MapAdapter(backend) \in {"fat", "native"}
       THEN \A k \in DOMAIN report.cells : Faithful(report.cells[k], used)
       ELSE Spanned(report.free) = Units \ used

Scan ==
  /\ phase = "scan"
  /\ \E report \in {r \in Reports : r.adapter = MapAdapter(backend)},
        requested \in {2, 3, Total + 2} :
       LET made == Cells(MapAdapter(backend), report, requested) IN
       /\ Accepted(report, made)
       /\ cells' = made /\ unit' = report.unit /\ trusted' = Truthful(report)
       /\ said' = {f \in {"defrag", "growth"} : OwnFlag(report, f) = "yes"}
       /\ map' = [filesystem |-> report.filesystem, accuracy |-> Accuracy(report),
                  unknown |-> Unknown(report, made), total |-> report.total,
                  defrag |-> FirstFlag(report, "defrag"), growth |-> FirstFlag(report, "growth")]
       /\ phase' = IF Mutable /\ RunPreflight(report) THEN "preflight-defrag" ELSE "present"
  /\ UNCHANGED <<mapperVars, volume, passed, eventVars, events, used, proper>>

(* The worker fails, or what it reports is refused. *)
ScanFails ==
  /\ phase = "scan" /\ phase' = "failed"
  /\ UNCHANGED <<mapperVars, resultVars, cells, eventVars, events, truthVars>>

(* Mutant: what the first writer said stands for both. *)
PreflightOnce(here, flag, next) ==
  /\ phase = here /\ phase' = "present"
  /\ \E answer \in {"yes", "no"} :
       /\ passed' = IF answer = "yes" THEN passed \cup {flag} ELSE passed
       /\ map' = [map EXCEPT !.defrag = IF @ = "absent" THEN answer ELSE @,
                             !.growth = IF @ = "absent" THEN answer ELSE @]

(* mutation_qualification: a refusal, a failure and a timeout are the same. The *)
(* map's own flag, if there is one, stays.                                      *)
Preflight(here, flag, next) ==
  /\ phase = here /\ phase' = next
  /\ \E answer \in {"yes", "no"} :
       /\ passed' = IF answer = "yes" THEN passed \cup {flag} ELSE passed
       /\ map' = [map EXCEPT ![flag] = IF @ = "absent" THEN answer ELSE @]
PreflightDefrag ==
  /\ Preflight("preflight-defrag", "defrag", "preflight-growth")
  /\ UNCHANGED <<mapperVars, volume, unit, said, cells, eventVars, events, truthVars>>
PreflightGrowth ==
  /\ Preflight("preflight-growth", "growth", "present")
  /\ UNCHANGED <<mapperVars, volume, unit, said, cells, eventVars, events, truthVars>>

-----------------------------------------------------------------------------
(* present_map *)

InOrder(cs) == \A k \in DOMAIN cs :
  cs[k].start <= cs[k].end /\ (k > 1 => cs[k - 1].end < cs[k].start)

(* desktop_verify_identity: the volume was discovered as request.fstype. *)
Verified ==
  IF request.fstype \in Generic
    THEN MapAdapter(backend_by_fstype(map.filesystem)) = "fat"
    ELSE backend_by_fstype(request.fstype) = backend_by_fstype(map.filesystem)

Exact == map.accuracy # "summary" /\ map.unknown = 0

Present ==
  /\ phase = "present"
  /\ IF InOrder(cells) /\ backend_by_fstype(map.filesystem) # NoBackend /\ Verified
       THEN /\ phase' = "live"
            /\ volume' = [filesystem |-> backend_by_fstype(map.filesystem), exact |-> Exact,
                          defrag |-> Exact /\ map.defrag = "yes",
                          growth |-> Exact /\ map.growth = "yes"]
       ELSE phase' = "failed" /\ UNCHANGED volume
  /\ UNCHANGED <<mapperVars, map, unit, said, passed, cells, eventVars, events, truthVars>>

-----------------------------------------------------------------------------
(* @@LIVE_RANGE and @@LIVE_RANGES: desktop_live_ranges *)

NoEvent == [ranges |-> <<>>, allocate_only |-> FALSE]
NoPatches == [k \in {} |-> 0]

(* An event comes; the caller notes an exception and goes on. *)
Comes == phase = "live" /\ events < MaxEvents /\ events' = events + 1
Fails ==
  /\ phase' = "live" /\ event' = NoEvent /\ patches' = NoPatches /\ outcome' = "failed"
  /\ trusted' = FALSE /\ UNCHANGED <<cells, told, used, proper>>

(* Mutant: a unit that a range only begins is not counted. *)
ceiling_units_floor(bytes, size) == bytes \div size

ceiling_units(bytes, size) == bytes \div size + (IF bytes % size # 0 THEN 1 ELSE 0)
effective_cell(p, k) == IF k \in DOMAIN p THEN p[k] ELSE cells[k]

(* The cells that hold a unit of first .. last - 1. *)
Reached(first, last) == {k \in DOMAIN cells : cells[k].end >= first /\ cells[k].start < last}
Common(c, first, last) == Least(c.end + 1, last) - Most(c.start, first)

(* std::round of a / b *)
Rounded(a, b) == (2 * a + b) \div (2 * b)

(* Mutant: more may be taken than the cell has. *)
MovedUncapped(c, overlap, to_used) ==
  IF to_used THEN [c EXCEPT !.free = @ - overlap, !.used = @ + overlap]
             ELSE [c EXCEPT !.used = @ - overlap, !.free = @ + overlap]

(* Mutant: what is freed leaves its fragments behind. *)
MovedUnshared(c, overlap, to_used) ==
  LET moved == Least(overlap, IF to_used THEN c.free ELSE c.used)
  IN IF to_used THEN [c EXCEPT !.free = @ - moved, !.used = @ + moved]
     ELSE [c EXCEPT !.used = @ - moved, !.free = @ + moved]

(* The cell after overlap of its units became used or free.  What is freed takes *)
(* its share of the fragmented and directory counts with it.                     *)
Moved(c, overlap, to_used) ==
  LET available == IF to_used THEN c.free ELSE c.used
      moved == Least(overlap, available)
      left == available - moved
      share(n) == Least(n, Rounded(moved * n, Most(1, available)))
      keep(n) == Least(n - share(n), left)
  IN IF to_used THEN [c EXCEPT !.free = left, !.used = @ + moved]
     ELSE [c EXCEPT !.used = left, !.free = @ + moved,
                    !.fragmented = keep(@), !.directory = keep(@)]
Representable(c) == c.end < MaxU /\ c.free <= MaxU /\ c.used <= MaxU

(* The patches with those of new put in. *)
Patch(p, new) ==
  [k \in DOMAIN new \cup DOMAIN p |-> IF k \in DOMAIN new THEN new[k] ELSE p[k]]

apply_range(p, first_byte, length, to_used) ==
  LET first == first_byte \div unit
      last == ceiling_units(first_byte + length, unit)
      new == [k \in Reached(first, last) |->
                Moved(effective_cell(p, k), Common(cells[k], first, last), to_used)]
  IN CASE p = Error -> Error
       [] p # Error /\ length = 0 -> p
       [] OTHER -> IF first_byte > MaxU - length \/ \E k \in DOMAIN new : ~Representable(new[k])
                     THEN Error ELSE Patch(p, new)

(* What a true range tells: the source was in use, the destination was not. *)
Bytes(first, length) ==
  {u \in Units : length > 0 /\ u * UnitSize < first + length /\ first < (u + 1) * UnitSize}
Tell(r) ==
  LET source == IF event.allocate_only THEN {} ELSE Bytes(r[1], r[3])
      target == Bytes(r[2], r[3])
  IN [use |-> (told.use \ source) \cup target,
      true |-> /\ told.true /\ Origin = 0
               /\ r[1] + r[3] <= Total * UnitSize /\ r[2] + r[3] <= Total * UnitSize
               /\ source \subseteq told.use /\ target \cap (told.use \ source) = {}]

LiveRanges ==
  /\ Comes /\ before' = cells
  /\ IF unit = 0 THEN Fails
     ELSE /\ \E e \in RangeEvents : event' = e
          /\ phase' = "ranges" /\ patches' = NoPatches /\ outcome' = "none"
          /\ told' = [use |-> used, true |-> trusted]
          /\ UNCHANGED <<cells, truthVars>>
  /\ UNCHANGED <<mapperVars, resultVars>>

(* Mutant: the cells are changed as the ranges come. *)
KeepAtOnce(p) ==
  /\ patches' = NoPatches /\ cells' = [k \in DOMAIN cells |-> effective_cell(p, k)]

Keep(p) == patches' = p /\ UNCHANGED cells

(* One range: the source is released, then the destination taken.  An entry  *)
(* that is not a triple is passed over.                                      *)
MoveRange ==
  /\ phase = "ranges" /\ event.ranges # <<>>
  /\ LET r == Head(event.ranges)
         released == IF event.allocate_only THEN patches
                     ELSE apply_range(patches, r[1], r[3], FALSE)
         taken == IF released = Error THEN Error ELSE apply_range(released, r[2], r[3], TRUE)
     IN CASE Len(r) # 3 -> /\ event' = [event EXCEPT !.ranges = Tail(@)]
                           /\ told' = [told EXCEPT !.true = FALSE]
                           /\ UNCHANGED <<phase, patches, outcome, cells, truthVars>>
          [] Len(r) = 3 /\ taken = Error -> Fails
          [] OTHER -> /\ event' = [event EXCEPT !.ranges = Tail(@)]
                      /\ Keep(taken) /\ told' = Tell(r)
                      /\ UNCHANGED <<phase, outcome, truthVars>>
  /\ UNCHANGED <<mapperVars, resultVars, events, before>>

(* commit_patches *)
CommitRanges ==
  /\ phase = "ranges" /\ event.ranges = <<>>
  /\ phase' = "live" /\ outcome' = "done" /\ event' = NoEvent /\ patches' = NoPatches
  /\ cells' = [k \in DOMAIN cells |-> effective_cell(patches, k)]
  /\ trusted' = told.true /\ used' = IF told.true THEN told.use ELSE used
  /\ UNCHANGED <<mapperVars, resultVars, events, proper, told, before>>

-----------------------------------------------------------------------------
(* @@LIVE_RESET: desktop_live_reset *)

Blank(c, total) ==
  LET inside == IF c.start >= total THEN 0 ELSE Least(c.end + 1, total) - c.start
  IN [c EXCEPT !.free = inside, !.used = 0, !.unknown = 0,
               !.outside = c.end + 1 - c.start - inside,
               !.fragmented = 0, !.directory = 0, !.bad = 0]

(* mark: the bytes of r behind the filesystem's end are cut off. *)
Mark(total, size, cs, r) ==
  LET limit == total * size
      first == r[1] \div size
      last == ceiling_units(r[1] + Least(r[2], limit - r[1]), size)
  IN IF r[1] >= limit THEN cs
     ELSE [k \in DOMAIN cs |->
             IF k \in Reached(first, last)
               THEN Moved(cs[k], Common(cs[k], first, last), TRUE) ELSE cs[k]]

ResetUnit(e) == IF e.unit # 0 THEN e.unit ELSE unit
ResetRefused(e) ==
  ~InOrder(cells) \/ ResetUnit(e) = 0 \/ Last(cells).end + 1 > MaxU
    \/ e.units \notin 1 .. Last(cells).end + 1

(* A true reset gives the whole filesystem, every used byte once, in ranges that *)
(* are not empty: mark takes the unit in which an empty one begins.  Its own unit *)
(* size does not replace the map's, with which later ranges are translated.       *)
TrueReset(e) ==
  LET held(k) == Bytes(e.used_ranges[k][1], e.used_ranges[k][2]) IN
  /\ Origin = 0 /\ e.units = Total
  /\ ResetUnit(e) = UnitSize /\ unit = UnitSize
  /\ \A k \in DOMAIN e.used_ranges : Len(e.used_ranges[k]) = 2 /\ e.used_ranges[k][2] # 0
  /\ UNION {held(k) : k \in DOMAIN e.used_ranges} = used
  /\ \A j, k \in DOMAIN e.used_ranges : j # k => held(j) \cap held(k) = {}

(* The cells are blanked in a copy. *)
LiveReset ==
  /\ Comes /\ before' = cells
  /\ \E e \in ResetEvents :
       IF ResetRefused(e) THEN Fails
       ELSE /\ phase' = "marking" /\ outcome' = "none"
            /\ event' = [e EXCEPT !.unit = ResetUnit(e)]
            /\ patches' = [k \in DOMAIN cells |-> Blank(cells[k], e.units)]
            /\ told' = [use |-> used, true |-> TrueReset(e)]
            /\ UNCHANGED <<cells, truthVars>>
  /\ UNCHANGED <<mapperVars, resultVars>>

(* One used range; an entry that is not a pair refuses the whole reset. *)
MarkRange ==
  /\ phase = "marking" /\ event.used_ranges # <<>>
  /\ LET r == Head(event.used_ranges)
     IN IF Len(r) # 2 \/ event.units * event.unit > MaxU THEN Fails
        ELSE /\ event' = [event EXCEPT !.used_ranges = Tail(@)]
             /\ patches' = Mark(event.units, event.unit, patches, r)
             /\ UNCHANGED <<phase, cells, told, outcome, truthVars>>
  /\ UNCHANGED <<mapperVars, resultVars, events, before>>

CommitReset ==
  /\ phase = "marking" /\ event.used_ranges = <<>>
  /\ IF event.units * event.unit > MaxU \/ (map.total - event.units) * event.unit > MaxU
       THEN Fails
       ELSE /\ phase' = "live" /\ outcome' = "done" /\ event' = NoEvent /\ patches' = NoPatches
            /\ cells' = patches /\ trusted' = told.true /\ proper' = TRUE
            /\ UNCHANGED <<told, used>>
  /\ UNCHANGED <<mapperVars, resultVars, events, before>>

(* A reset that only gives its reason changes nothing. *)
LiveResetReason ==
  /\ Comes /\ before' = cells
  /\ IF InOrder(cells)
       THEN outcome' = "done" /\ UNCHANGED <<phase, cells, event, patches, told, truthVars>>
       ELSE Fails
  /\ UNCHANGED <<mapperVars, resultVars>>

-----------------------------------------------------------------------------
(* @@LIVE_MAP: desktop_live_cells *)

(* The updates by cell, the last one for a cell stands; i counts from 0. *)
Updates(e) ==
  LET of(k) == {n \in DOMAIN e : e[n].i = k - 1}
  IN [k \in {k \in DOMAIN cells : of(k) # {}} |-> e[Max(of(k))].cell]

(* Mutant: the neighbours are those before the event. *)
validate_patched_old(p) ==
  \A k \in DOMAIN p :
    /\ p[k].start <= p[k].end
    /\ k > 1 => cells[k - 1].end < p[k].start
    /\ k < Len(cells) => p[k].end < cells[k + 1].start

validate_patched_cell_order(p) ==
  \A k \in DOMAIN p :
    /\ p[k].start <= p[k].end
    /\ k > 1 => effective_cell(p, k - 1).end < p[k].start
    /\ k < Len(cells) => p[k].end < effective_cell(p, k + 1).start

(* The counts of a cell add up to its units. *)
AddsUp(c) ==
  /\ c.free + c.used + c.unknown + c.outside
       + (IF MapAdapter(backend) = "native" THEN c.bad ELSE 0) = Span(c)
  /\ c.fragmented <= c.used /\ c.directory <= c.used

UpdateCells(p, use, true) ==
  IF validate_patched_cell_order(p)
    THEN /\ phase' = "live" /\ outcome' = "done" /\ UNCHANGED <<event, patches, told>>
         /\ cells' = [k \in DOMAIN cells |-> effective_cell(p, k)]
         /\ trusted' = true /\ used' = use
         /\ proper' = (proper /\ \A k \in DOMAIN p : AddsUp(p[k]))
    ELSE Fails

LiveCells ==
  /\ Comes /\ before' = cells
  /\ \E e \in CellEvents :
       IF Len(e) <= Len(cells) THEN UpdateCells(Updates(e), used, FALSE) ELSE Fails
  /\ UNCHANGED <<mapperVars, resultVars>>

(* A true one: the cells that changed, as they are now. *)
Recount(c, taken) == [c EXCEPT !.free = Cardinality(Within(c) \ taken),
                               !.used = Cardinality(Within(c) \cap taken),
                               !.fragmented = 0, !.directory = 0]
LiveCellsTrue ==
  /\ Comes /\ before' = cells /\ trusted /\ proper
  /\ \E taken \in Uses :
       LET changed == {k \in DOMAIN cells : ~Faithful(cells[k], taken)}
       IN UpdateCells([k \in changed |-> Recount(cells[k], taken)], taken, TRUE)
  /\ UNCHANGED <<mapperVars, resultVars>>

-----------------------------------------------------------------------------
NoMap == [filesystem |-> "", accuracy |-> "", unknown |-> 0, total |-> 0, defrag |-> "absent",
          growth |-> "absent"]
NoVolume == [filesystem |-> "", exact |-> FALSE, defrag |-> FALSE, growth |-> FALSE]

Init ==
  /\ phase = "choose" /\ request \in Requests /\ candidate = 1
  /\ backend = NoBackend /\ identified = "" /\ map = NoMap /\ cells = <<>> /\ volume = NoVolume
  /\ unit = 0 /\ said = {} /\ passed = {} /\ events = 0
  /\ event = NoEvent /\ patches = NoPatches /\ told = [use |-> {}, true |-> FALSE]
  /\ before = <<>> /\ outcome = "none"
  /\ used \in Uses /\ trusted = FALSE /\ proper = TRUE

(* The mapper has ended, or the run has. *)
Ended ==
  /\ phase \in {"failed", "probed"} \/ (phase = "live" /\ events = MaxEvents)
  /\ UNCHANGED vars

Next == \/ TakeNamed \/ Identify \/ NoneRecognises
        \/ Scan \/ ScanFails \/ PreflightDefrag \/ PreflightGrowth \/ Present
        \/ LiveRanges \/ MoveRange \/ CommitRanges
        \/ LiveReset \/ MarkRange \/ CommitReset \/ LiveResetReason \/ LiveCells \/ LiveCellsTrue \/ Ended

Spec == Init /\ [][Next]_vars

-----------------------------------------------------------------------------
(* Properties *)

Shown == phase \in {"live", "ranges", "marking"}

(* Every count of the display is a uint64_t: no range takes more out of a cell *)
(* than is in it, no matter what the writer reports.                           *)
TypeOK ==
  /\ phase \in {"choose", "probed", "scan", "preflight-defrag", "preflight-growth", "present",
                "live", "ranges", "marking", "failed"}
  /\ backend \in Ids \cup {NoBackend} /\ used \subseteq Units
  /\ \A k \in DOMAIN cells : \A f \in DOMAIN cells[k] : cells[k][f] \in 0 .. MaxU

(* Cells stay ascending and disjoint through every update, which lower_bound    *)
(* in apply_range relies on: two updates of one @@LIVE_MAP are compared with    *)
(* each other, not only with the cells they replace.                            *)
CellsInOrder == Shown => InOrder(cells)

(* What a cell counts adds up to its units, from any report map_backend accepts *)
(* through any ranges and resets; a @@LIVE_MAP whose own counts do not add up   *)
(* is the one way to break it, and a reset repairs even that.                   *)
Accounted == Shown /\ proper => \A k \in DOMAIN cells : AddsUp(cells[k])

(* What Accounted takes from the two builders that work on ranges: the cells  *)
(* they make add up.  The other two check the cells they are given.           *)
Tallied(c) ==
  /\ c \in MapCells /\ c.free + c.used + c.unknown + c.outside = Span(c)
  /\ c.fragmented <= c.used /\ c.directory <= c.used
RangeMapsAddUp ==
  \A report \in Reports, requested \in {2, 3, Total + 2} :
    \A made \in {generic_free_range_map(report, requested), map_ext(report, requested)} :
      made # Error => \A k \in DOMAIN made : Tallied(made[k])

(* And what ExactDisplay takes from them: for a list of free ranges of the      *)
(* volume each cell counts its own units in the list and not in it.             *)
RangeMapsExact ==
  \A report \in Reports, requested \in {2, 3, Total + 2} :
    \A made \in {generic_free_range_map(report, requested), map_ext(report, requested)} :
      made # Error /\ report.total = Total =>
        \A k \in DOMAIN made :
          LET here == {u \in Units : made[k].start <= u /\ u <= made[k].end}
          IN /\ made[k].free = Cardinality(here \cap Spanned(report.free))
             /\ made[k].used = Cardinality(here \ Spanned(report.free))

(* An event that is refused, at whatever range, leaves the display as it was. *)
FailureHarmless == outcome = "failed" => cells = before

(* The presented map was made by the backend the volume is known by, and a      *)
(* probe answers only for the candidate whose worker answered, although the     *)
(* three FAT widths and the three EXT versions share their workers.             *)
RightBackend ==
  /\ Shown => volume.filesystem = backend
  /\ phase = "probed" => backend_by_fstype(identified) = backend

(* A volume is qualified for an operation only by an exact map, and only if the *)
(* writer's own preflight for that operation passed, its map said so itself, or *)
(* its backend asks for none.                                                   *)
QualifiedFor(flag) ==
  \/ flag \in passed \cup said
  \/ backend_registry[backend].qualification = "none"
QualifiedByWriter ==
  /\ volume.defrag => volume.exact /\ QualifiedFor("defrag")
  /\ volume.growth => volume.exact /\ QualifiedFor("growth")

(* The display keeps the promise of UnitMap: with true reports and events every *)
(* cell counts exactly, whole events at a time, and a true reset makes it exact *)
(* again after untrue ones.                                                     *)
Promise == INSTANCE UnitMap WITH
  Units <- Units,
  used <- used,
  trusted <- trusted /\ Shown,
  bounds <- IF Shown THEN [k \in DOMAIN cells |-> <<cells[k].start - Origin, cells[k].end - Origin>>]
            ELSE <<>>,
  view <- IF Shown THEN [k \in DOMAIN cells |-> [free |-> cells[k].free, used |-> cells[k].used]]
          ELSE <<>>
ExactDisplay == Promise!Spec
=============================================================================
