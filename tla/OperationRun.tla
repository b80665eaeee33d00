---------------------------- MODULE OperationRun ----------------------------
(***************************************************************************)
(* One privileged operation from request to durable write: the admission   *)
(* of the request (native/helper_policy.cpp), the operation engine that    *)
(* parses it and checks the target (native/operation_engine.cpp), the      *)
(* module host that finds, loads and serves a filesystem module            *)
(* (native/filesystem_module_host.c), over the device checks of            *)
(* DeviceSafety.  The module itself is external: it uses the host's        *)
(* services in any order, keeps a journal of what it works on and writes   *)
(* only under a journal; its staging file is left out.  The process may    *)
(* die at any step; a later run may recover from the journal.              *)
(***************************************************************************)
EXTENDS DeviceSafety, BackendRegistry

CONSTANTS
  GenericNames,   \* identifiers the engine accepts for an unknown filesystem
  PolicyNames,    \* identifiers the policy accepts
  Paths,          \* absolute paths a client names
  Attached,       \* tokens --filesystem=<value>: [token -> value]
  Files,          \* file names in /System/Filesystems
  Installations,  \* what may be installed there: [Files -> module or NoModule]
  Arguments,      \* argument lists a client sends
  Refresh,        \* TARGET_IDENTITY_REFRESH_WRITES
  MaxFailures,    \* bound: failed writes between two looks at the identity
  MaxRuns         \* bound: operations started

ASSUME HostAssumption == Refresh \in Nat \ {0} /\ MaxFailures \in Nat /\ MaxRuns \in Nat \ {0}
ASSUME FilesAssumption == "OFS.so" \in Files

VARIABLES
  auth,       \* what the policy authorised: [op, device, fs, plain]
  op, device, fs,  \* what the engine runs
  blk,        \* the engine's stat said block device
  file,       \* the module file selected
  loaded,     \* history: the module that was loaded
  handle,     \* the open target's binding: [bound, writes]
  lost,       \* history: writes since the last look that reached a medium with another identity
  failed,     \* history: writes that failed since the last look
  journal,    \* the identity in the journal on disk, Nothing without one
  runs        \* operations left

requestVars == <<auth, op, device, fs>>
engineVars  == <<blk, file, loaded>>
targetVars  == <<handle, lost, failed, journal>>
hostVars    == <<requestVars, engineVars, targetVars, runs>>
deviceVars  == <<machineVars, checkVars, openVars>>
vars        == <<deviceVars, pc, hostVars>>

Mutating == {"defrag", "growth-defrag", "recover"}
NoModule == [format |-> "", caps |-> {}, trusted |-> FALSE, v2 |-> FALSE]
NoHandle == [bound |-> Nothing, writes |-> 0]
Nobody == [op |-> "", device |-> "", fs |-> "", plain |-> TRUE]

-----------------------------------------------------------------------------
(* helper_policy.cpp.  A token is a name; "--unknown" is any option that neither *)
(* program knows, and any token may be the value of an option.                   *)

Valued == {"--filesystem", "--confirm", "--journal", "--growth-percent", "--batch-clusters",
           "--ram-buffer", "--live-map-cells"}
Informational == {"--version", "--list-plugins", "--list-installed-modules"}
Dashed == Valued \cup Informational \cup DOMAIN Attached \cup {"--write", "--unknown"}
ASSUME ArgumentsAssumption == \A a \in Arguments : Len(a) \in Nat /\ DOMAIN a = 1 .. Len(a)
ASSUME TokensAssumption ==
  /\ (Mutating \cup Paths) \cap Dashed = {}
  /\ DOMAIN Attached \cap (Valued \cup {"--write"}) = {}

(* A loop over the list from one token on that passes over the value of an     *)
(* option it takes for one with a value: the places where it looks for an      *)
(* option (one such set).                                                      *)
Readings(a, from, takes) ==
  {S \in SUBSET (from .. Len(a)) :
     \A i \in from .. Len(a) : i \in S <=> (i = from \/ ~(i - 1 \in S /\ a[i - 1] \in takes))}

(* A request and where the two programs look for options in it: the loop of    *)
(* validate_operation_args starts at the third token and knows the values of   *)
(* all options, the engine's starts at the first and knows one option's value. *)
Requests ==
  UNION {{[args |-> a, policy |-> S, engine |-> E] :
            S \in Readings(a, 3, Valued), E \in Readings(a, 1, {"--filesystem"})} : a \in Arguments}

WellFormed(a, S) ==
  \A i \in S : a[i] = "--write" \/ (a[i] \in Valued /\ i < Len(a) /\ a[i + 1] # "")
Places(r, name) == {i \in r.policy : r.args[i] = name}
Once(r, name) == \E i \in Places(r, name) : Places(r, name) = {i}
ValueOf(r, name) == r.args[(CHOOSE i \in Places(r, name) : TRUE) + 1]
Commanded(a) == Len(a) >= 2 /\ a[1] \in Mutating /\ a[2] \in Paths

(* Mutant: an option may be given twice. *)
validate_repeated(r) ==
  /\ Commanded(r.args) /\ WellFormed(r.args, r.policy)
  /\ \A name \in {"--filesystem", "--write", "--confirm", "--journal"} : Places(r, name) # {}
  /\ ValueOf(r, "--filesystem") \in PolicyNames

(* A request carries its own authority once: the filesystem, --write, the     *)
(* target again as confirmation, one journal of the caller's state directory, *)
(* and the fixed reserve exactly for Growth Defrag.                           *)
validate_operation_args(r) ==
  /\ Commanded(r.args) /\ WellFormed(r.args, r.policy)
  /\ \A name \in {"--filesystem", "--write", "--confirm", "--journal"} : Once(r, name)
  /\ ValueOf(r, "--filesystem") \in PolicyNames
  /\ ValueOf(r, "--confirm") = r.args[2]
  /\ ValueOf(r, "--journal") = "state.journal"
  /\ IF r.args[1] = "growth-defrag"
       THEN Once(r, "--growth-percent") /\ ValueOf(r, "--growth-percent") = "10"
       ELSE Places(r, "--growth-percent") = {}

Reject(r) ==
  /\ pc = "request" /\ ~validate_operation_args(r)
  /\ pc' = "exited" /\ runs' = runs - 1
  /\ UNCHANGED <<deviceVars, requestVars, engineVars, targetVars>>

-----------------------------------------------------------------------------
(* operation_engine.cpp. *)

(* The argument loop: --filesystem takes the next token, the last one given    *)
(* counts, in either form; the first two other tokens without a dash are the   *)
(* operation and the device; every other token is passed on.                   *)
Operands(r) == {i \in r.engine : r.args[i] \notin Dashed}
Earliest(I) == CHOOSE i \in I : \A j \in I : i <= j
Latest(I) == CHOOSE i \in I : \A j \in I : j <= i
OperationAt(r) == Earliest(Operands(r))
DeviceAt(r) == Earliest(Operands(r) \ {OperationAt(r)})
NamesFilesystem(token) == token = "--filesystem" \/ token \in DOMAIN Attached
FilesystemOf(r) ==
  LET I == {i \in r.engine : NamesFilesystem(r.args[i])}
      at == Latest(I)
  IN IF I = {} THEN "" ELSE IF r.args[at] = "--filesystem" THEN r.args[at + 1] ELSE Attached[r.args[at]]

(* An informational switch, --filesystem without a value or a missing operand: *)
(* the engine answers and ends.                                                *)
Unvalued(r, i) == r.args[i] = "--filesystem" /\ i = Len(r.args)
Answered(r) ==
  \/ \E i \in r.engine : r.args[i] \in Informational \/ Unvalued(r, i)
  \/ ~\E i, j \in Operands(r) : i # j

(* What the policy read; plain: no value of an option is spelled as the option *)
(* that names the filesystem.                                                  *)
Authority(r) ==
  [op |-> r.args[1], device |-> r.args[2], fs |-> ValueOf(r, "--filesystem"),
   plain |-> \A i \in (3 .. Len(r.args)) \ r.policy : ~NamesFilesystem(r.args[i])]

Runnable(f, o) ==
  LET known == backend_by_fstype(f)
  IN IF known = NoBackend THEN f \in GenericNames /\ o \in Mutating ELSE operation_for(known, o)

(* An admitted request starts the engine with the same arguments. *)
EngineParse(r) ==
  /\ pc = "request" /\ validate_operation_args(r)
  /\ auth' = Authority(r) /\ runs' = runs - 1
  /\ \/ Answered(r) /\ pc' = "exited" /\ UNCHANGED <<op, device, fs>>
     \/ /\ ~Answered(r)
        /\ op' = r.args[OperationAt(r)] /\ device' = r.args[DeviceAt(r)] /\ fs' = FilesystemOf(r)
        /\ pc' = CASE fs' = "" \/ ~Runnable(fs', op') -> "exited"
                   [] backend_by_fstype(fs') = NoBackend -> "find"
                   [] OTHER -> "stat"
  /\ UNCHANGED <<deviceVars, engineVars, targetVars>>

(* ifs_filesystem_module_find_v2: exactly one trusted V2 module for the format. *)
(* The directory is external and an upgrade may change it at any moment: every  *)
(* look at it finds one of Installations.                                       *)
Probed(module) == module.trusted /\ module.v2
ModuleFind(modules) ==
  /\ pc = "find"
  /\ LET matches == {f \in Files : Probed(modules[f]) /\ modules[f].format = fs} IN
     IF Cardinality(matches) = 1
       THEN pc' = "stat" /\ file' = CHOOSE f \in matches : TRUE
       ELSE pc' = "exited" /\ UNCHANGED file
  /\ UNCHANGED <<deviceVars, requestVars, blk, loaded, targetVars, runs>>

EngineStat ==
  /\ pc = "stat" /\ blk' = (path \in Devices)
  /\ pc' = IF path \in Inodes \/ Present(path) THEN "mounted" ELSE "exited"
  /\ UNCHANGED <<deviceVars, requestVars, file, loaded, targetVars, runs>>

(* ld_path_is_mounted resolves the path anew. *)
EngineMounted ==
  /\ pc = "mounted"
  /\ IF path \in Inodes \/ Present(path)
       THEN StartCheck(path, "mounted", "system") /\ UNCHANGED openVars
       ELSE Died
  /\ UNCHANGED <<machineVars, hostVars>>

(* ld_block_device_has_system_use, for what was a block device. *)
EngineSystem ==
  /\ pc = "system"
  /\ CASE ~blk -> pc' = "dispatch" /\ UNCHANGED <<checkVars, openVars>>
       [] blk /\ path \in Devices /\ Present(path) ->
            StartCheck(path, "system", "dispatch") /\ UNCHANGED openVars
       [] OTHER -> Died
  /\ UNCHANGED <<machineVars, hostVars>>

(* The workers that run a V2 module: of the loaders only the one for Amiga     *)
(* volumes, for those that carry the OFS signature.  All others hand the       *)
(* volume to an interface of their own, which is not modelled.                 *)
V2Loader == [affs |-> [file |-> "OFS.so", format |-> "ofs"]]

(* The generic module runs in this process; a registered backend's worker is   *)
(* executed, if it is installed.                                               *)
Dispatch ==
  /\ pc = "dispatch"
  /\ LET known == backend_by_fstype(fs) IN
     IF known = NoBackend
       THEN pc' = "load" /\ UNCHANGED file
       ELSE \/ pc' = "exited" /\ UNCHANGED file
            \/ known \in DOMAIN V2Loader /\ pc' = "load" /\ file' = V2Loader[known].file
  /\ UNCHANGED <<deviceVars, requestVars, blk, loaded, targetVars, runs>>

-----------------------------------------------------------------------------
(* filesystem_module_host.c. *)

Required(operation) ==
  CASE operation = "defrag" -> {"analyse", "relayout", "recover"}
    [] operation = "growth-defrag" -> {"analyse", "growth", "recover"}
    [] operation = "recover" -> {"recover"}
    [] OTHER -> {"analyse"}

(* The format the caller asks the module for. *)
Format == LET known == backend_by_fstype(fs) IN
          IF known \in DOMAIN V2Loader THEN V2Loader[known].format ELSE fs

(* Mutant: the format of the loaded module is not compared again. *)
LoadAny(modules) ==
  /\ pc = "load"
  /\ IF Probed(modules[file]) /\ Required(op) \subseteq modules[file].caps
       THEN pc' = "running" /\ loaded' = modules[file]
       ELSE pc' = "exited" /\ UNCHANGED loaded
  /\ UNCHANGED <<deviceVars, requestVars, blk, file, targetVars, runs>>

(* ifs_filesystem_module_run: Stop handlers, then the module is opened, its    *)
(* trust, ABI and format checked again, and run_command compares what it can   *)
(* do with what the operation needs.                                           *)
Load(modules) ==
  /\ pc = "load"
  /\ IF /\ Probed(modules[file]) /\ modules[file].format = Format
        /\ Required(op) \subseteq modules[file].caps
       THEN pc' = "running" /\ loaded' = modules[file]
       ELSE pc' = "exited" /\ UNCHANGED loaded
  /\ UNCHANGED <<deviceVars, requestVars, blk, file, targetVars, runs>>

(* target_open: recovery asks for the identity it finds in the journal. *)
OpenTarget ==
  /\ op = "recover" => journal # Nothing
  /\ TryOpen(IF op = "recover" THEN journal ELSE Nothing)
  /\ UNCHANGED hostVars

(* flock, then wrap_target, which reads the identity to bind from the device again. *)
Lock ==
  /\ pc = "lock" /\ UNCHANGED machineVars
  /\ IF rival = fd
       THEN Leave("running") /\ UNCHANGED targetVars
       ELSE /\ lock' = fd /\ pc' = "running"
            /\ handle' = [bound |-> ld_device_format_identity(fd), writes |-> 0]
            /\ lost' = 0 /\ failed' = 0
            /\ UNCHANGED <<checkVars, expected, fd, excl, want, journal>>
  /\ UNCHANGED <<requestVars, engineVars, runs>>

Holding == pc = "running" /\ handle # NoHandle

(* file_atomic: the journal names the bound target, before anything is written. *)
SaveJournal ==
  /\ Holding /\ op # "recover" /\ journal = Nothing /\ journal' = handle.bound
  /\ UNCHANGED <<deviceVars, pc, requestVars, engineVars, handle, lost, failed, runs>>

RemoveJournal ==
  /\ Holding /\ journal # Nothing /\ journal' = Nothing
  /\ UNCHANGED <<deviceVars, pc, requestVars, engineVars, handle, lost, failed, runs>>

(* The device under the descriptor has another identity than was bound. *)
Foreign == ld_device_format_identity(fd) # handle.bound

(* The histories after a look at the identity that found nothing wrong: a bare *)
(* device number agrees with any medium.                                       *)
Looked == failed' = 0 /\ lost' = IF Foreign THEN lost ELSE 0

(* Mutant: the refresh counter starts again without a look at the device. *)
WriteCheckBlind ==
  /\ Holding /\ journal # Nothing /\ pc' = "pwrite"
  /\ handle' = [handle EXCEPT !.writes = IF @ >= Refresh THEN 0 ELSE @]
  /\ UNCHANGED <<deviceVars, requestVars, engineVars, lost, failed, journal, runs>>

(* Mutant: one write too many between two looks at the device. *)
WriteCheckLate ==
  /\ Holding /\ journal # Nothing /\ pc' = "pwrite"
  /\ IF handle.writes > Refresh
       THEN /\ ld_device_matches_identity(fd, handle.bound) /\ Looked
            /\ handle' = [handle EXCEPT !.writes = 0]
       ELSE UNCHANGED <<handle, lost, failed>>
  /\ UNCHANGED <<deviceVars, requestVars, engineVars, journal, runs>>

(* target_write up to the write: the binding of the descriptor always holds,   *)
(* the hardware identity is looked at when Refresh writes have succeeded.      *)
WriteCheck ==
  /\ Holding /\ journal # Nothing /\ pc' = "pwrite"
  /\ IF handle.writes >= Refresh
       THEN /\ ld_device_matches_identity(fd, handle.bound) /\ Looked
            /\ handle' = [handle EXCEPT !.writes = 0]
       ELSE UNCHANGED <<handle, lost, failed>>
  /\ UNCHANGED <<deviceVars, requestVars, engineVars, journal, runs>>

(* ld_pwrite_full succeeds, or fails, perhaps after a part, and is not counted. *)
(* The last value of lost stands for more.                                      *)
MaxLost == Refresh + MaxFailures + 1
Strayed == IF Foreign /\ lost < MaxLost THEN lost + 1 ELSE lost
Pwrite ==
  /\ pc = "pwrite" /\ pc' = "running"
  /\ \/ handle' = [handle EXCEPT !.writes = @ + 1] /\ lost' = Strayed /\ UNCHANGED failed
     \/ failed < MaxFailures /\ failed' = failed + 1 /\ lost' \in {lost, Strayed} /\ UNCHANGED handle
  /\ UNCHANGED <<deviceVars, requestVars, engineVars, journal, runs>>

(* target_sync: the identity is looked at, then fsync; when that fails nothing changes. *)
Sync ==
  /\ Holding /\ ld_device_matches_identity(fd, handle.bound) /\ Looked
  /\ handle' = [handle EXCEPT !.writes = 0]
  /\ UNCHANGED <<deviceVars, pc, requestVars, engineVars, journal, runs>>

NoTarget(to) == Leave(to) /\ handle' = NoHandle /\ lost' = 0 /\ failed' = 0
CloseTarget ==
  /\ Holding /\ NoTarget("running")
  /\ UNCHANGED <<machineVars, requestVars, engineVars, journal, runs>>

(* The module returns, or the process dies where it stands: the descriptors   *)
(* close, the journal stays.                                                  *)
Exit ==
  /\ pc \notin {"request", "exited"} /\ NoTarget("exited")
  /\ UNCHANGED <<machineVars, requestVars, engineVars, journal, runs>>

NextOperation ==
  /\ pc = "exited" /\ runs > 0 /\ pc' = "request"
  /\ auth' = Nobody /\ op' = "" /\ device' = "" /\ fs' = ""
  /\ blk' = FALSE /\ file' = "" /\ loaded' = NoModule
  /\ UNCHANGED <<deviceVars, targetVars, runs>>

Done == pc = "exited" /\ runs = 0 /\ UNCHANGED vars

Init ==
  /\ InitMachine /\ InitOpen /\ pc = "request"
  /\ auth = Nobody /\ op = "" /\ device = "" /\ fs = ""
  /\ blk = FALSE /\ file = "" /\ loaded = NoModule
  /\ handle = NoHandle /\ lost = 0 /\ failed = 0 /\ journal = Nothing /\ runs = MaxRuns

Next ==
  \/ \E r \in Requests : EngineParse(r) \/ Reject(r)
  \/ EngineStat \/ EngineMounted \/ EngineSystem \/ Dispatch
  \/ \E modules \in Installations : ModuleFind(modules) \/ Load(modules)
  \/ (Check \/ Open \/ Accept) /\ UNCHANGED hostVars
  \/ OpenTarget \/ Lock \/ SaveJournal \/ RemoveJournal
  \/ WriteCheck \/ Pwrite \/ Sync \/ CloseTarget \/ Exit \/ NextOperation
  \/ pc \notin {"request", "exited"} /\ Machine /\ UNCHANGED hostVars
  \/ Done

Spec == Init /\ [][Next]_vars

-----------------------------------------------------------------------------
(* Properties *)

TypeOK ==
  /\ TypeMachine /\ TypeOpen
  /\ op \in Mutating \cup {""} /\ blk \in BOOLEAN /\ file \in Files \cup {""}
  /\ handle \in [bound : Identities \cup {Nothing}, writes : 0 .. Refresh]
  /\ lost \in 0 .. MaxLost /\ failed \in 0 .. MaxFailures
  /\ journal \in Identities \cup {Nothing} /\ runs \in 0 .. MaxRuns
  /\ (handle # NoHandle) <=> (lock # Nothing)

(* ld_device_number_is_mounted and the image checks answer "not in use" only   *)
(* when no overlapping storage has been mounted or swapped on, and no loop     *)
(* device has been over the image, for the whole of the check; but for what    *)
(* they cannot see: a mount under an anonymous number, a table that could not  *)
(* be read, a loop device over an image that lost its name, and the partitions *)
(* of a device that turned out an exact mapping only after its own visit.      *)
Missed ==
  UNION {Children(related[i].dev) : i \in {j \in DOMAIN related : related[j].exact}} \ RelatedDevices
Unseen(c) ==
  \/ c = OverLoop \/ c.kind = "anon"
  \/ c.kind \in {"mount", "media"} /\ "mounts" \in unread
  \/ (c = OverName \/ (obj \in Inodes /\ c.on \in Devices)) /\ "loops" \in unread
  \/ \E p \in Missed : Overlaps(c.on, p) /\ c.on \notin RelatedDevices
Answers == {"system", "dispatch", "open", "accept"}
CheckSound == pc \in Answers => \A c \in since : Unseen(c)

(* The comment of ld_regular_file_write_conflict_identity: an image passes for *)
(* writing only when no loop device references its inode any more.             *)
LoopReferencesFound == pc \in Answers /\ unread = {} => OverLoop \notin since

(* The object that is written is the object whose stat was checked, although  *)
(* the path is resolved, checked and opened in steps; nothing that overlaps   *)
(* it is mounted or used as swap while it is open (the checks keep out what   *)
(* was there before, O_EXCL what comes after); and flock keeps out every      *)
(* other process of this program.                                             *)
WritesCheckedObject == fd # Nothing => fd = expected
ExclusiveTarget == fd \in Devices => \A u \in uses : ~Overlaps(u.on, fd)
OneWriter == lock # Nothing => rival # lock
TargetIsOurs == WritesCheckedObject /\ ExclusiveTarget /\ OneWriter

(* After an exchange under an open target that its identity tells, at most     *)
(* Refresh writes that succeed, and those that fail, reach the wrong medium    *)
(* before the next look stops them.  Media that the identity describes alike   *)
(* are not told apart, and a bare device number tells none.                    *)
LostWritesBounded ==
  handle # NoHandle /\ handle.bound[1] # "number" => lost <= Refresh + failed

(* What the engine runs is what validate_operation_args authorised, although   *)
(* the two programs parse the argument list by different rules: the operation  *)
(* and the device always, and the filesystem unless the value of another       *)
(* option is spelled as the option that names it.                              *)
RunsAuthorised ==
  pc \notin {"request", "exited"} =>
    /\ op = auth.op /\ device = auth.device
    /\ auth.plain => fs = auth.fs

(* The module that runs is a trusted one for this filesystem that can recover *)
(* what it does, although the directory may change after the module is found. *)
RunsRightModule ==
  pc \in {"running", "open", "accept", "lock", "pwrite"} =>
    /\ loaded # NoModule /\ loaded.trusted /\ loaded.format = Format
    /\ "recover" \in loaded.caps
=============================================================================
