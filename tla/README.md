# Verification of Defragmenter

TLA+ models of Defragmenter, their TLC configurations and TLAPS proofs. Every
definition is translated from the source named for it in `PROJECT.json` ("map").

## The system

Defragmenter analyses and rearranges disk volumes. Paths below are relative to
`src/defragger/`.

| part | source | state | operations |
|---|---|---|---|
| desktop session | `native/desktop.cpp`, `desktop_process_session.cpp` | busy/stopping/closing flags, active run id, volumes and what their analysis qualified, the helper and local-analysis transports, nested dialogs | actions of the user, events of the helper, callbacks of child processes |
| desktop policy | `native/desktop_policy.cpp` | none | which controls are live, which mutation a volume admits |
| privileged helper | `native/privileged_helper.cpp` | active pid/id, readiness, pending Stop, watchdog, one worker thread | run, stop, ping, quit; supervision of one child; watchdog |
| helper policy, operation engine | `native/helper_policy.cpp`, `operation_engine.cpp` | none | admission of privileged command lines; checks of the target, choice and start of a module |
| runtime registry | `native/runtime.cpp` | none | the backends, their names, operations and map accuracies |
| mapper, allocation map, live map | `native/mapper.cpp`, `map.cpp`, `desktop_live_map.cpp` | the cells of a map | building a map from worker output, applying live events |
| process capture | `native/process.cpp` | child, two reader threads | bounded capture with timeout and cancellation |
| filesystem module host | `native/filesystem_module_host.c` | bound target, lock, journal, staging file, write counter | the services a filesystem module calls |
| device safety | `src/core/ld_device.c` | opened target, its identity | identity, mount, swap and holder checks |
| generic layout | `src/core/ld_generic_layout.c` | the caller's arrays | placing files in a region, or one file in free ranges, with a growth reserve |
| test media | `test_media/` | state file, partition plan | building and verifying validation disks |

How they interact. The desktop is a GTK program without privileges. An analysis
of a path the user can read runs as a child of the desktop; everything else is
sent, one JSON line per request, to the helper, which pkexec starts as root and
which answers with one JSON line per event. The helper runs one program at a
time (the operation engine, the mapper, udisksctl), admitted by the helper
policy, in a process group of its own, and forwards its output. A Stop is
SIGINT to that group; a writer first installs its handlers and prints a ready
marker, and a Stop that comes earlier is queued. A watchdog thread sends
SIGKILL when SIGINT was ignored. The engine opens the target through the device
safety checks and loads a filesystem module, which works through the services
of the module host.

What is hard about it:

* three threads, a child, the kernel's process table and the desktop interleave
  in the helper; pids are captured under a lock and signalled after it;
* a Stop can come before the spawn, before readiness, while the operation ends
  and while the next one starts, and names no run;
* the desktop may die, the helper may die, a child may ignore SIGINT, a spawn, a
  thread or an `fdopen` may fail half-way;
* a GTK dialog serves other callbacks while the handler that opened it is
  suspended, so a handler's local state and its checks are stale afterwards;
* discovery, image probe, analysis, operation and close end in any order;
* a path is resolved, checked, opened, bound and written in steps, and mounts,
  swap, RAID, loop devices, renames and media exchanges happen between them;
* the process may die at any step, and a recovery run finds another medium;
* workers and writers are other programs: what they report need not be true,
  may be refused half-way, and the display must survive it;
* unsigned arithmetic near UINT64_MAX in layouts and maps.

What makes each part correct:

* helper: one run at a time, told started and finished once and in order; an
  idle helper owns no process; a Stop is neither lost nor early nor misdirected;
  what was interrupted ends; the helper leaves when its desktop does;
* desktop: one operation at a time; Stop reaches the run it was meant for and
  ends it; a cancelled operation is never sent; the window is destroyed only when
  nothing runs; close is carried out; a mutation is admitted on an analysis of its own volume;
  success is shown for what was done;
* process capture: both readers end, limits hold, no child is left, a timeout
  and a cancellation are told apart;
* module host and device safety: what is written is the object that was checked,
  nobody else uses it, two operations never share it, an exchanged medium costs a
  bounded number of writes as far as identities tell media apart;
* policy and engine: the engine runs what was authorised, with a trusted module
  for that filesystem;
* allocation map: cells cover the volume in order and their counts add up, a
  refused event changes nothing, true events keep every count exact, and only the
  writer's own word qualifies a volume;
* generic layout: plans are disjoint, aligned, inside and carry the reserve; a
  refusal leaves nothing behind and is never a false alarm;
* test media: the plan's partitions are disjoint and within the disk; an
  interrupted build is recognised.

## Modules

| module | what it is |
|---|---|
| `PrivilegedHelper` | the helper with its threads, child and kernel |
| `OperationProtocol` | what the helper promises about a run |
| `MCPrivilegedHelper` | TLC instance of the helper |
| `PrivilegedHelperProofs`, `HelperStopProofs` | theorems about the helper, and about its Stops |
| `DesktopSession` | the desktop's session logic with the helper as it sees it |
| `MCDesktopSession` | TLC instance of the desktop |
| `DesktopSessionProofs` | theorems about the desktop |
| `RunCapture` | `run_capture` with its reader threads and the child |
| `MCRunCapture` | TLC instance of the capture |
| `RunCaptureProofs` | theorems about the capture |
| `BackendRegistry` | the registry and its lookups |
| `DeviceSafety` | checks, checked open and identities of `ld_device.c`, and the machine around them |
| `OperationRun` | a privileged operation: policy, engine, module host; extends the two above |
| `MCOperationRun` | TLC instance: a small machine, requests, installed modules |
| `DeviceSafetyProofs`, `OperationRunProofs` | theorems about the machine's claims, and about the operation |
| `AllocationMap` | the map builder's algorithms as operators |
| `LiveMap` | mapper, `map_backend`, `present_map` and the live events; extends `AllocationMap`, `BackendRegistry` |
| `UnitMap` | what the displayed map promises |
| `MCLiveMap` | TLC instance: reports and events |
| `LiveMapProofs` | theorems about the map and the display |
| `GenericLayout` | the two planners and what is asked of them |
| `MCGenericLayout` | TLC instance: the calls checked |
| `GenericLayoutProofs` | theorems about the planners |

### PrivilegedHelper

A step is one critical section of `active_mutex_`, one `kill`, one `waitpid` or
one `emit`. The variables under the lock are the members of `Helper`
(`activePid`, `activeId`, `stopReady`, `waitsForOutput`, `pendingStop`,
`workerRunning`, and the watchdog's `wdShutdown`, `wdArmed`, `wdPid`). `mpc`,
`wpc` and `dpc` are the program counters of the main, worker and watchdog threads,
with the locals they carry over an unlock (`mpid`, `wchild`, `dpid`). `proc`
is the kernel's view of each pid: free, starting (alive without handlers),
running, zombie, or foreign (reused by somebody else).

| actions | code |
|---|---|
| `GuiRun`, `GuiStop`, `GuiOther`, `GuiQuit`, `GuiCloseStdin`, `GuiCloseStdout` | the desktop's side of the pipes |
| `MainReady`, `MainLoop`, `MainEof`, `HandleOther`, `HandleQuit` | `Helper::run` |
| `HandleRunReject` ... `HandleRunNoThread` | `handle_run` |
| `HandleStop`, `StopKill`, `StopArm`, `StopAnswer` | `handle_stop`, `deliver_stop` |
| `Saw`, `SawKill`, `SawArm`, `SawJoin`, `Shutdown`, `JoinDog` | `stop_active_and_wait`, the destructor |
| `LaunchFail` ... `Finish` | `run_request`: spawn, publish, started, queued Stop, output, `stop_and_reap`, idle section, finished |
| `DogArmed` ... `DogExit` | `stop_watchdog_loop` |
| `ChildReady`, `ChildOutput`, `ChildExit`, `Foreign` | the operation and the kernel |

History variables record what the properties speak about: the events told of
each run (`transcript`), runs refused, runs whose Stop was acknowledged or that
were interrupted, writers signalled before their handlers, signals to a pid the
helper did not own. Request texts, JSON, and progress throttling are left out.
An event is seen when emitted: the desktop may act on it at once or later.

### DesktopSession

Everything runs on GTK's main thread. Calls between handlers (`start`, `submit`,
`start_helper`, `completed`) are steps selected by `pc` during which nothing else
of the desktop runs; at `pc = "loop"` any callback may run. `dialogs` is the stack
of open dialogs and so of suspended handlers: a callback that opens a dialog
returns to the loop and its rest is another action (`Confirm`, `CompletedTail`,
`DiscoveryTail`, `ProbeTail`, `Chooser`). The window can be reached only without
dialogs, which are modal. Because `read_next` asks for the next helper line when
the handler of the last returned, a dialog opened below `receive` also holds
back the helper's later lines (`Reading`).

Destroying the window ends `gtk_main`, not the nested loops: `main` returns, and the
destructor shuts the transports down, only when every suspended handler has
returned (`Alive`). Until then its callbacks, and the rest of the handler once
its dialog is answered, run without a window, up to and including `start`.

`busy`, `stopping`, `closing`, `activeId`, `requestId`, `helperReady`, `result`,
`discovering`, `probing`, `wanted`, `selTimer`, `stopTimer` are the members of
the same name; `job` is `purpose_` with its target. `exact` is a volume's
qualification, with whose analysis set it. `transport`, `toHelper`, `fromHelper`
are the helper's pipes; `hrun`, `hfin`, `hstop` a reduction of
`PrivilegedHelper` to what its client sees: it reads requests in order, answers
a Stop, ends a run and reports it, or dies. `cancelled` is history.

What decides whether a volume admits an operation is reduced to: mounted or not,
qualified or not, and a free choice for the rest (read-only, journal, format).

### RunCapture

`pc` is the calling thread of `run_capture` (spawn, poll, check, kill, reap, the
two joins, report); `reader`, `exceeded`, `kept` belong to the two `read_stream`
threads. The child and one descendant hold the write ends (`writers`); the
descendant is in the child's process group or has left it. Output is counted:
`written = kept + pipe + lost`. `Poll` is `waitpid(WNOHANG)`, `Check` the choice
between excess output, cancellation and timeout, `Kill` the SIGKILL to the group.
With `autoReap` (SIGCHLD ignored, chosen initially) `waitpid` fails once the child is
gone. `failed` is history: the streams on which a read failed.

### DeviceSafety and OperationRun

`OperationRun` follows one request (`auth`, what was authorised) through
`validate_operation_args`, the engine's own parse (`op`, `device`, `fs`), its stat and its
two checks, the choice of a module, `target_open`, and the services a module
calls. `pc` is the place in the program; a call of a check is a loop of its own
(`mode`, `ret`, `obj`, `related`, `scan`) and returns to `ret`.

| actions | code |
|---|---|
| `Reject`, `EngineParse` | `helper_command`, `validate_operation_args`, the engine's `main` |
| `ModuleFind`, `Load`, `Dispatch` | `ifs_filesystem_module_find_v2`, `ifs_filesystem_module_call`, `run_command` |
| `EngineStat`, `EngineMounted`, `EngineSystem` | the engine's preflight |
| `Visit`, `VisitFails`, `WalkDone`, `ReadMounts`, `ReadSwaps` | `ld_collect_related_devices`, `ld_device_number_is_mounted` |
| `MountSource`, `LoopBacking`, `FileSwap` | the checks of an image |
| `OpenTarget`, `Open`, `Accept`, `Lock` | `ld_device_try_open`, `target_open` |
| `SaveJournal`, `RemoveJournal` | `file_atomic`, `file_remove` |
| `WriteCheck`, `Pwrite`, `Sync`, `CloseTarget` | `target_write`, `target_sync`, `target_close` |
| `Exit`, `NextOperation` | the module returns or the process dies; the next request, perhaps a recovery |

The machine is external: uses (mounts, swap), assembled stacked devices, a loop
device with its backing file and the name it was given, what the target path leads
to, the medium in the drive, and a rival process of this program. Its changes
(`Machine`) interleave with every step. The kernel's rule, an exclusive claim
excludes others on the device, its disk and its partitions, is `Claimable`.
`since` is history: what has stood in the way of the running check since its
beginning. The module is external and uses the services in any order, but writes
only under a journal.

A request is an argument list with the places where each of the two programs looks
for an option in it (`Readings`): the policy passes over the value of every option
that has one, the engine over that of `--filesystem` only. Any token may stand as
a value, one that looks like an option included. An identity is its kind and a
label that the medium gives the device; nothing is assumed of labels, so two media
may share one, as two cards of one layout in one reader do (the hardware identity is
the reader's serial with start and size) and clones by their UUID.

A read of `/proc` that fails half-way, a directory of sysfs that does not open and
a backing file that cannot be read are taken by some of the checks for "not there":
`Overlook` does so, and `unread` remembers it. A mount may be listed under a number
that is not its device's, as Btrfs is (`anon`).

`expected` is what `ld_device_try_open` saw before the open, `fd` what the path
named at the open, and `bound` what `wrap_target` read; a target is written under
all three. `lost` counts, since the last look, the writes that reached a medium
with another identity than the bound one, a part of a failed write among them, and
`failed` the writes that failed.

Abstractions. The staging file and the directories above it and the journal are
left out. `ifs_filesystem_module_run` is what the generic
modules and the Amiga loader use; the interfaces of the other loaders are not
modelled, so for them an operation ends at the dispatch. There is one loop device.

### AllocationMap and LiveMap

`AllocationMap` has the pure algorithms: boundaries, merging, complement,
aggregation, overlay, and the acceptance of each adapter's report. `Error` is
an exception. `LiveMap` has the mapper's loop over candidates, `map_backend` with
its preflights, `present_map`, and the three kinds of live events. `@@LIVE_RANGES`
and `@@LIVE_RESET` are one action per range and one for the commit, because an
exception can come between them: ranges collect in `patches` (the `CellPatches` of
the code), a reset works there on its blanked copy of all cells. Workers and writers are external: every report and event is any
member of a constant set, true or not. `used`, `trusted`, `proper`, `told` are
history: the allocation as the writer's true events tell it, and whether
everything since the last complete report was true and well formed.

`UnitMap` is the abstract promise: as long as what was told is true every cell
counts exactly, a report or a doubt leaves the allocation as it is, and a complete
true report ends a doubt. `ExactDisplay` is the
refinement: the view is empty before `present_map` and the cells' counts after it.

### GenericLayout

Each action is one turn of a loop of `layout_pass` or `plan_file_extent_pass`;
`pass` is 1 (decide) or 2 (write). Numbers are 0 .. `MaxU`, a small UINT64_MAX, and
every overflow check of the code is a guard.

## Runs

| run | question | bounds |
|---|---|---|
| `helper_safety` | types, `FollowOnAccepted`, `IdleOwnsNoChild`, `WriterStopSafe`, `StopNotLost`, `SignalsJustified`, refinement of `OperationProtocol` | 2 runs, 2 pids, 1 Stop, 1 line in the pipe; the desktop may stop reading |
| `helper_liveness` | `InterruptedEnds`, `HelperLeaves`, `AckedStopEnds` | 1 run, 1 Stop, pids reused, the desktop may die |
| `helper_pid_reuse` | violated: `NoStraySignal` | pids reused |
| `desktop_operations` | `OneOperation`, `StopsOwnRun`, `CancelledNeverSent`, `ClosesWhenIdle` | 2 disks, 3 requests |
| `desktop_liveness` | `StopEnds`, `LocalStopEnds`, and `CloseEnds` with discovery and image probe | 1 image, 2 requests |
| `desktop_misqualified` | violated: `QualifiedByOwnAnalysis` | 2 disks |
| `desktop_misreported` | violated: `CompletedMeansRan` | 1 disk |
| `capture` | types, `ResultIsComplete`, `NoSurvivor`, `CaptureEnds` | limit 1, pipe 2, 3 bytes per stream, forking child, timeout |
| `operation` | types, `CheckSound`, `TargetIsOurs`, `LostWritesBounded`, `RunsAuthorised`, `RunsRightModule` | a disk with two partitions, four devices stacked over the first, the last with partitions, a fifth over the second and one of those; a loop device, an image, a medium known by hardware and one by number; mounts under true and anonymous numbers, user mounts and swap where they differ; 9 related devices; 2 changes of the machine; 2 operations; identity refreshed after 2 writes, 1 failed write |
| `operation_loop` | violated: `LoopReferencesFound` | the same machine, 1 operation |
| `maps` | types, `CellsInOrder`, `Accounted`, `FailureHarmless`, `RightBackend`, `QualifiedByWriter`, refinement of `UnitMap` | 5 units of 2 bytes in 2, 3 or 5 cells, reports with the right, a wrong and no unit size, `MaxU` 40, 2 live events, empty ranges among them |
| `layout` | types, `FailureUntouched`, `PlanSound`, `WholeFile`, `NoSpaceIsTrue` | up to 3 objects or 3 free ranges, sizes up to 11 and near `MaxU` = 1100 |

Why the bounds are enough: the helper's hazards are between a run, its Stop and
the next run, which two runs and one Stop contain; two pids are needed to tell
the new child from the old, and one pid is all a reuse takes. On the desktop a
request id is used by a run or by a stop request, so three give run, Stop, run:
the shortest sequence in which a Stop could reach the wrong run. Analyses that
run locally use no id and are not bounded. `MaxRequests` limits what the user
asks for, never an answer. In the capture a limit of one byte, a pipe of two and
three bytes of output make every case of the limit: below, exactly at it, past it
within one read, and more waiting in a full pipe.

For the operation, two changes are what it takes to undo a change (mount and
unmount, swap the card and back, attach and unlink) or to combine two; the topology
has devices reached only through a parent and only through a holder, one device
that becomes an exact mapping only after its own visit (the stated exception
`Missed` is needed, and its removal fails), and in some orders of the directory one
device more than the table of related devices holds (`MaxRelated`). Every other
exception of the properties is reached too: an anonymous mount, an unread table, a
list that is not `plain`, and more lost writes than `Refresh` where one failed.
Two operations are one that
dies and its recovery. Five units of two bytes with two and three cells make
cells of unequal size, ranges that end inside a unit, and units at a cell's edge;
two events are one that spoils the display and one that repairs it. The
planners' interesting sizes are around the rounding of the reserve (1, 10, 11),
around an alignment, and at the end of the number range.

Deadlock is checked in every run; every specification says where it ends.

### Fairness

* Helper, `FairSpec`: each of the three threads runs while it can (the
  scheduler's promise). Nothing is assumed of the child: it may ignore SIGINT
  and never exit, and need not read or write. A writer that never installs its
  handlers is the stated exception of `AckedStopEnds` (`WriterStarting`): the code
  does not signal it before. A mapper or udisksctl is signalled at once and is not
  excepted.
* Desktop, `StopSpec`: handlers run to their end, the user answers dialogs, GLib
  serves a source that keeps becoming ready, the helper reads its input, and a
  run that was sent a Stop ends (which is `AckedStopEnds` and `InterruptedEnds`
  of the helper). Nothing is assumed of a run that was not stopped. For the local
  analysis: the timer fires, and SIGKILL ends a process; SIGINT may be ignored.
  `CloseEnds` is under a hypothesis, `EverythingEnds`: as long as anything the user
  started runs, something of it ends, because the user may start an operation after
  asking to close (`action` does not look at `closing_`).
* Capture, `FairSpec`: the caller and both readers run, time passes. The child may
  block, ignore everything and never exit.
* `OperationRun`, `LiveMap` and `GenericLayout` state safety only.

## Findings

1. `helper_pid_reuse`: a Stop, quit or end of input read between the worker's
   `waitpid` and its idle section signals a process group the helper no longer
   owns, against the comment in `owned_child_is_running`.
2. `desktop_misqualified`: `present_map` stores the qualification on the volume
   selected when the analysis ends. Press Analyse while lsblk or the image probe
   runs, and the selection has changed by then.
3. `desktop_misreported`: the automatic analysis of a new selection can start
   under an open confirmation; continuing then overwrites `purpose_`, the mutation
   is not sent, and the end of the analysis is shown as its success.

4. `operation_loop`: a loop device is found by the name in `loop/backing_file`;
   once the image was unlinked or renamed, the check for writing passes while the
   loop device still writes its inode, against the comment at `ld_device.c:813`.

Not findings of a run, but limits the properties state openly.

What `CheckSound` excepts (`Unseen`), beside the loop device of finding 4: a mount
that mountinfo gives under an anonymous number; an entry behind a read that failed,
which `ld_device_number_is_mounted` (`ld_device.c:312-343`),
`ld_mount_source_matches_regular_identity` (`672`) and
`ld_regular_file_has_loop_mapping` (`743`) take for the end of the table, while
`ld_block_device_has_system_use` does not (`606`); and what is mounted on a partition
the walk missed (`Missed`). The walk visits every entry of its table once, so a device
first listed as a parent, and exact only after its visit, never has its partitions
listed, although the comment at `ld_device.c:221` wants them checked. For block
devices the exclusive open is what still refuses the target (`TargetIsOurs` does not
rest on the walk).

What identities do not tell: media that the identity describes alike, and a bare
device number, which agrees with anything. `LostWritesBounded` counts writes to a
medium of another identity and says nothing of a number. Recovery compares the
journal's identity (`filesystem_module_host.c:95`) before `wrap_target` reads the one
to bind (`103`): a medium exchanged in between is bound, although
`docs/ARCHITECTURE.md:50` says that recovery identity is never guessed. What the code
guarantees there is the comparison, which is one guard, so no property is stated.

What the two parsers do not agree on: a value spelled as the option that names
the filesystem (`--ram-buffer --filesystem=fat32`), which the policy passes over
(`helper_policy.cpp:146-151`) and the engine obeys (`operation_engine.cpp:50-58`).
`RunsAuthorised` excepts the filesystem of such lists (`plain`), never the operation or
the device. In the same way the engine answers `--version` as a value and ends with
success without having run. `desktop_operation_arguments` makes no such list.

What a destroyed window leaves running: under an open confirmation a close that was
requested during discovery is carried out by `maybe_finish_close` when discovery
ends, and Continue then starts and submits an operation without a window
(`desktop.cpp:1685-1700` after `1501` or `1554`), although the text at
`desktop.cpp:1297` says "Waiting for the active operation to finish its journalled
transaction before closing." `ClosesWhenIdle` speaks of the moment of destruction;
that no run is at the helper while the window is closed does not hold. The same
way it can be destroyed under the error dialog of `completed`. The use of destroyed
widgets that follows is not modelled further: the handler goes on.

Others: `@@LIVE_MAP` cells need not add up (`Accounted`); FAT cells are numbered from cluster
2 while live ranges count from byte 0, so `ExactDisplay` speaks of reports and cell
updates only for FAT; a reset may bring its own unit size, which does not replace the
map's, so that ranges after it are translated with the old one
(`desktop_live_map.cpp:145` and `207`), and an empty used range that begins inside
a unit marks that unit (`desktop_live_map.cpp:170`): `TrueReset` calls a reset true
only with the map's unit size and without empty ranges, which the proof of
`DisplayRefines` asked for and TLC confirmed; `run_capture` ends the program when its second thread cannot
be created.

## Proofs

### The helper

`PrivilegedHelperProofs` proves, for every set of runs and pids, every bound, with
or without pid reuse and with or without a dying desktop, from the assumptions
named in `PrivilegedHelper` (`NoRun` and `NoPid` are not members of their sets,
the bounds are numbers):

| theorem | statement |
|---|---|
| `TypeCorrect` | `Spec => []TypeOK`, which includes that no thread is about to signal pid -1 |
| `IdleIsClean` | `Spec => []IdleOwnsNoChild` |
| `FollowOn` | `Spec => []FollowOnAccepted` |
| `WriterSafety` | `Spec => []WriterStopSafe` |
| `Refinement` | `Spec => ImplementsProtocol` |
| `Invariance` | `Supervision` and the properties it carries are invariant |

The argument. None of the properties is inductive: each depends on where the
worker is. `Supervision` says so, part by part:

* `RunningInv`: the running flag is set exactly between claim and idle section.
* `ChildInv`: the only process the helper owns is the worker's child, and only
  at the places of `run_request` where it has one. With `RunningInv` this gives
  `IdleOwnsNoChild`.
* `PlaceInv`: a run id is in one place only: unsent, in the pipe, in main's
  hands, or the worker's. `ToldInv` and `OpenInv` tie the place to what was told
  of the run, so that started and finished come once: this is the refinement.
* `ActiveInv`, `WaitsInv`: a published pid is the worker's child, and whether
  Stop waits for readiness is decided by the program the worker runs.
* `MarkerInv`, `ReadyInv`, `QueuedStopInv`, `StopTargetInv`: a ready marker in the
  pipe means handlers are installed; `stop_ready_` means it was read; a queued
  Stop of a writer is not delivered before; the pid main captured for a Stop is
  that of a child with handlers, or no longer this child. Hence `WriterStopSafe`.
* `PoliteInv`: for a run sent when everything before was told finished, the
  worker has passed its idle section by the time the request is read. Hence
  `FollowOnAccepted`.

One lemma per part shows that a step preserves it, with one case per action.
`Strong` in the proofs is `Supervision` with `WriterStopSafe` and
`FollowOnAccepted`.

### The capture

`RunCaptureProofs` proves, for every limit, pipe capacity and amount of output,
`CaptureTypes` (`Spec => []TypeOK`, with no stream past the limit), `Completeness`
(`Spec => []ResultIsComplete`) and `GroupIsGone` (`Spec => []NoSurvivor`). The
invariant `Capture` has four parts: `AccountInv` (every byte is kept, waiting or
lost, and a loss is flagged), `ReaderInv` (a reader that stopped below the limit
saw the end of file, after which nobody can write again), `CallerInv` (a join is
passed only when its reader stopped; a result is reported only with both flags
clear, and stopped readers do not set them later), `KilledInv` (once the group was
signalled none of it runs, since only a running child forks).

### Stops in the helper

`HelperStopProofs` extends that invariant by what is known of a Stop on its way, from
the same assumptions: `StopInvariance`, `StopKept` (`Spec => []StopNotLost`, pids
reused or not) and `SignalsWarranted` (`Spec => [](~PidReuse => SignalsJustified)`;
with reuse it is false, which is the first finding). The parts: the published run is
the worker's (`IdInv`); the pid main captured is still the child's if the run is
still served (`CapturedInv`); a run whose Stop is about to be or was acknowledged
had been sent and read (`ServedInv`) and is heeded from the `kill` on
(`HeededInv`); a queued Stop was read while that run was active (`QueuedForInv`).
Without reuse, every pid a thread remembers (`wchild`, `mpid`, the watchdog's) is, as
long as it is owned at all, the child of the run it was remembered for
(`ChildPidInv`, `CapturedForInv`, `DoomedInv`).

### The desktop

`DesktopSessionProofs`, for every set of disks and images and every bound on
requests (`PathsAssumption`, `RequestsAssumption`): `DesktopTypes` (`TypeOK`),
`SingleOperation` (`OneOperation`), `StopReachesOwn` (`StopsOwnRun`), `CancelKept`
(`CancelledNeverSent`), `WindowStays` (`ClosesWhenIdle`, from the invariant of the
state before the step and the one after it). `OneOperation` is not
inductive, because `start` looks at nothing but the helper's readiness. The
invariant follows the run: it is queued, with the helper, ended there, or its
finished line is on the way back, in exactly one of these, and is the active one;
when `completed` is called it has been all the way (`FlightInv`). An active run
keeps the session busy, excludes the local analysis and has its helper
(`ActiveInv`); before the ready line was read nothing was sent and nothing old is
left (`TransportInv`); a Stop that outlived its run is read before the next run
(`StopInv`); a cancelled operation waits for the helper or for `submit` to end it
(`CancelInv`); the window goes as the last thing of a callback (`CloseInv`).

### The machine and the operation

`DeviceSafetyProofs` is about any machine that meets the assumptions of
`DeviceSafety`: partitions lie in their disks and are disjoint, a stacked device
uses sectors of its slaves only, disks share none (`GeometryAssumption`); stacking has
no cycle and a stacked device does not contend with itself (`StackingAssumption`);
numbers and identities are what they look like (`TopologyAssumption`,
`IdentityAssumption`, `LimitsAssumption`, `UsesAssumption`). The kernel keeps claims
apart by name (the device, its disk, its partitions); `SharedSectors` shows that this
keeps them apart by sectors through any depth of stacking. It is an induction over
sets of stacked devices, stated with a smallest counterexample. `ClaimsExclude` is
its consequence for a device held exclusively.

`OperationRunProofs` proves for every such machine, any number of changes, every
refresh period and every list of requests: `OperationTypes`, `TargetExclusive`
(`TargetIsOurs`), `LossBounded` (`LostWritesBounded`), `Authorised`
(`RunsAuthorised`), `RightModule` (`RunsRightModule`). Beside the typing the
invariant says what each place of the program holds, and that what is open is what
was checked (`Phase`), that claims, ours included, were granted (`Claims`), that one
process has the lock (`OneWriter`), that the writes gone astray are among those that
succeeded or failed since the last look (`Binding`), and that what is running was
authorised and its module probed (`Authorisation`).

`LossBounded` assumes nothing of the media's labels, and so bounds only what an
identity can tell. `Authorised` is for every list of tokens: of the constants it
assumes that paths and operations do not begin with a dash, and that a token
`--filesystem=value` is no option of the policy's (`TokensAssumption`). `ParsersAgree`
is its heart: the first two tokens are free ones for both programs, and if no value
names the filesystem the engine sees exactly the one `--filesystem` the policy saw,
although it looks at more places.

### The planners

`GenericLayoutProofs` proves for every width of the numbers that holds the code's
constants (`WidthAssumption`), and every number of objects and free ranges:
`PlannerTypes` (no sum leaves the range, nothing is written past the array),
`PlannersFailUntouched` (`FailureUntouched`) and `PlansAreSound` (`PlanSound`).
The difficulty is that the second pass writes without being able to fail: it must
repeat the first one. The invariant says so with a trail, a function from the
loop index to the locals at that turn, of which the first pass shows that it
exists and which the second follows; from it come order and disjointness of what was
written so far.

`PlansTheWholeFile` (`WholeFile`: the extents of a plan hold the file's units, all
of them, in one extent in the first range that holds the file whole) and `NoSpaceIsNoFalseAlarm` (`NoSpaceIsTrue`: a file is refused only if no
choice of a last range, with the reserve behind it, would have held it) are about
sums over lists. `Together` states such a sum as the number of pairs of a place and
a unit at that place, so that one more range adds its units by a theorem about
cardinalities and no induction over the list is needed. Their invariant `Complete`
relates what remains to the room passed by (`Behind`: all that did not fit, but at
least the unit kept for the extent with the reserve), says that no range passed by
would have suited as the last (`NoneSuits`), and in the second pass that what was
written and what remains are the file.

### The map and the display

`LiveMapProofs` proves for every volume, every report of a worker and every event of
a writer: `OrderKept` (`CellsInOrder`), `RefusalHarmless` (`FailureHarmless`),
`BackendKnown` (`RightBackend`), `WriterQualifies` (`QualifiedByWriter`), and, under
the hypothesis below, `MapTypes` (`TypeOK`: no count leaves its uint64_t) and
`CountsAddUp` (`Accounted`), and `DisplayRefines`: `LiveMap` implements `UnitMap`
(`ExactDisplay`). The assumptions are that the registry is the one
`validate_backend_registry` accepts, that a volume has at least one unit, and that
reports and events hold lists of unsigned numbers and cells of nine of them
(`ReportsAssumption`, `EventsAssumption`), which `number()` and `pair_value()` make of
any JSON. The cells of a FAT worker have no unknown and outside counts
(`tests/test_cpp_runtime.cpp`), and `map_fat` does not look at these.

The invariant of the first four: until the map is shown no event came and the volume is not described
(`PhaseInv`); the chosen backend is the one of the requested name, or a FAT one for
a generic FAT, or any if nothing was asked for, and the map's own name leads to it
except among the EXT versions, where `desktop_verify_identity` decides
(`BackendInv`); a flag of the map is somebody's answer (`QualifiedInv`); an event
under way has changed no cell (`WholeInv`), and its patches have the places of the
cells they will replace (`OrderInv`). `validate_patched_cell_order` compares only the
neighbours of patched cells, and `PatchedOrder` shows that this is enough.

The counts need more. `CountInv` types the cells, `BalanceInv` says that their counts
add up from the report on, and `RangesInv` and `MarkingInv` say the same of the
patches of an event under way: a range can be refused after the one before it was
applied, and it is the patched counts the next one moves. `MovedFields` shows that
the capped move and the rounded share of the fragmented and directory counts never go
below zero nor above what the cell still uses, for every overlap; `MarkingInv` needs
in addition that the last cell ends below UINT64_MAX (`LastEnds`), which a reset
checks once and its marks then rely on. The cells of native and FAT reports are
checked when they come (`validate_native_map`, `map_fat`). Those of the EXT and
free-range adapters are computed by folds over the reported ranges, and that they
add up is the hypothesis `RangeMapsAddUp` of the two theorems; `MCLiveMap` has TLC
evaluate it for every report of the run.

`DisplayRefines` says of every behaviour that, as long as the writer's events are
true, each cell counts exactly the units of its own place that are in use, that an
untrue or refused event only casts doubt, and that a doubt ends only with exact
counts. Its invariant `Exactness`
(`ExactInvariance`) has three parts: the cells shown are exact while they are
trusted (`ShownExact`); under true ranges the cells *with their patches* are exact
for the allocation told so far (`RangesExact`); under a true reset the copy counts
the used units but those of the entries still to come, which are in use and disjoint
(`MarkingExact`). The step lemmas follow the code: `BytesUnits` shows that the rounding of
a byte range down and up covers just the units that hold its bytes, `MovedExact` that a range of
units wholly free, or wholly used, moves a cell's counts by the size of the overlap,
so that the cap of the move is never reached, and `ApplyRangeExact` and `MarkExact`
that this holds in every cell at once. The
refinement then maps the presentation of a map, and every event that is committed or
refused, to `Report`, `Change`, `Doubt` or a stutter of `UnitMap`, and the steps within
an event to a stutter. A second hypothesis
enters, `RangeMapsExact`: the cells the range builders make of a list of free
ranges count that list. TLC evaluates it beside `RangeMapsAddUp`; native and FAT
reports need neither, because their cells come from the worker.

### What is only model-checked

* All liveness, and so the three properties of the helper, the three of the desktop
  and `CaptureEnds`: fairness and ENABLED are outside the prover's reach.
* `RangeMapsAddUp` and `RangeMapsExact`, the hypotheses on the range builders, are
  about what `AllocationMap` computes by folds over lists: that needs induction over
  data.
* `CheckSound`: with `Missed` among its exceptions it may hold of every machine; that
  needs an induction over the walk, and the run's topology is the one that is checked.

## Not modelled, and the plan

Every part is listed in `PROJECT.json` with its status. Not modelled:

* drawing and geometry of the map, themes and pages: no protocol state;
* the JSON codec: a parser and printer of unbounded text, below the models' data;
* the module loaders other than the Amiga one's V2 call, and the filesystem modules:
  their interfaces and algorithms are those of separate libraries;
* test media: a sequence of external tools (sfdisk, mkfs) and of image writers for
  validation disks; its outcome is that of the tools;
* of the parts that are modelled partly: the admission of the mapper and of
  udisksctl, the spelling rules of device paths, what `ld_block_device_info`
  collects for display, the staging file, trusted directories, digests and progress
  lines of the host.

Planned, in this order:

1. Proofs: `CheckSound` on every machine.
2. The reduced helper of `DesktopSession` as a refinement of `PrivilegedHelper`.
3. The state file of the test media worker over interrupted builds.
