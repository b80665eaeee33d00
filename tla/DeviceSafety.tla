---------------------------- MODULE DeviceSafety ----------------------------
(***************************************************************************)
(* The device checks of src/core/ld_device.c: the walk over sysfs that     *)
(* finds the storage related to a target, the mount and swap checks built  *)
(* on it, the checked open of a target and its identity.  Around them, as  *)
(* actions of its own, the machine: mounts, swap, stacked devices, loop    *)
(* devices, path replacement and removable media change between any two    *)
(* steps.  A step is one sysfs node visited, one table of /proc read, or   *)
(* one system call on the target.                                          *)
(***************************************************************************)
EXTENDS Integers, Sequences, FiniteSets, SequencesExt

CONSTANTS
  Disks,        \* whole disks, the loop device included
  Parts,        \* partitions
  Stacked,      \* devices a mapper or RAID driver can assemble
  Parent,       \* [Parts -> Disks \cup Stacked]
  Slaves,       \* [Stacked -> SUBSET Devices]
  Extent,       \* per device: the physical sectors it maps
  Loop,         \* the loop device
  Inodes,       \* image files
  Media,        \* what can be in the removable drive
  IdKind,       \* [Media -> {"hw", "cid", "alias", "number"}]
  Label,        \* [Media -> [Devices -> ...]]: serial or card id with start and size, or the alias
  Targets,      \* what the target path can resolve to
  Uses,         \* mounts and swaps that can happen: [kind, on]
  Nothing,
  MaxRelated,   \* LD_MAX_RELATED_DEVICES
  MaxEvents     \* bound: changes of the machine

Devices == Disks \cup Parts \cup Stacked
Objects == Devices \cup Inodes
Children(d) == {p \in Parts : Parent[p] = d}
Contends(d) == {d} \cup Children(d) \cup (IF d \in Parts THEN {Parent[d]} ELSE {})
Identities == {<<"file", o>> : o \in Objects} \cup {<<"number", o>> : o \in Objects}
                \cup {<<IdKind[m], Label[m][o]>> : m \in Media, o \in Devices}

ASSUME TopologyAssumption ==
  /\ Disks \cap Parts = {} /\ Stacked \cap (Disks \cup Parts) = {} /\ Loop \in Disks
  /\ IsFiniteSet(Devices)
  /\ Parent \in [Parts -> Disks \cup Stacked]
  /\ Slaves \in [Stacked -> SUBSET Devices]
  /\ Targets \subseteq Objects \ {Loop} /\ Inodes \cap Devices = {}
  /\ Nothing \notin Objects

(* A partition lies in its disk and a stacked device on its slaves; disks are  *)
(* disjoint, and so are the partitions of one disk.                            *)
ASSUME GeometryAssumption ==
  /\ \A p \in Parts : Extent[p] \subseteq Extent[Parent[p]]
  /\ \A s \in Stacked : Extent[s] \subseteq UNION {Extent[d] : d \in Slaves[s]}
  /\ \A d, e \in Disks : d # e => Extent[d] \cap Extent[e] = {}
  /\ \A p, q \in Parts : p # q /\ Parent[p] = Parent[q] => Extent[p] \cap Extent[q] = {}

(* Stacked devices are built from the bottom up, so of any of them one is on   *)
(* top; and the kernel grants a device no two slaves that contend.             *)
ASSUME StackingAssumption ==
  /\ \A A \in SUBSET Stacked : A # {} =>
       \E s \in A : \A t \in A : Slaves[t] \cap ({s} \cup Children(s)) = {}
  /\ \A s \in Stacked : \A d, e \in Slaves[s] : e \in Contends(d) => e = d

(* Nothing makes two labels differ: two cards of one layout in one reader are  *)
(* described alike by the reader's serial, and so are clones by their UUID.    *)
ASSUME IdentityAssumption ==
  /\ IdKind \in [Media -> {"hw", "cid", "alias", "number"}]
  /\ Nothing \notin Identities
ASSUME LimitsAssumption == MaxRelated \in Nat \ {0} /\ MaxEvents \in Nat

VARIABLES
  \* The machine.
  uses,       \* mounts and swaps
  assembled,  \* stacked devices that exist
  backing,    \* the inode behind the loop device
  loopNamed,  \* the name in loop/backing_file still leads to that inode
  path,       \* what the target path resolves to
  medium,     \* what is in the removable drive
  rival,      \* the object another writer of this program holds
  events,     \* changes left
  \* One check.
  pc, mode, ret,
  obj,        \* the object whose stat the check uses
  related, scan,
  since,      \* history: what has stood in the way of this check since it began
  unread,     \* history: the tables in which it overlooked something, by a failed read
  \* The open target.
  expected,   \* the object whose stat was taken before the open
  fd,         \* the object open for writing, Nothing if none
  excl,       \* the device held with O_EXCL
  lock,       \* the object held with flock
  want        \* the identity the caller expects, Nothing if any

machineVars == <<uses, assembled, backing, loopNamed, path, medium, rival, events>>
checkVars   == <<mode, ret, obj, related, scan, since, unread>>
openVars    == <<expected, fd, excl, lock, want>>
varsOfOpen  == <<pc, mode, ret, obj, related, scan, unread, openVars>>

(* media: mounted below /mnt, /media or /run/media.  anon: mounted, and given in *)
(* mountinfo under a number that is not its device's, as Btrfs is.               *)
UseKinds == {"mount", "media", "anon", "swap"}
ASSUME UsesAssumption == Uses \subseteq [kind : UseKinds, on : Objects]

PresentIn(stack, d) == \/ d \in Disks \cup stack
                       \/ d \in Parts /\ Parent[d] \in Disks \cup stack
Present(d) == PresentIn(assembled, d)
Holders(d) == {s \in assembled : d \in Slaves[s]}
SlavesOf(d) == IF d \in Stacked THEN Slaves[d] ELSE {}
Overlaps(d, e) == d \in Devices /\ e \in Devices /\ Extent[d] \cap Extent[e] # {}

-----------------------------------------------------------------------------
(* Kernel: an exclusive claim on a device excludes every other claim on it,   *)
(* on the disk it is a partition of and on its own partitions.  Mounts, swap, *)
(* stacked devices and an exclusive open all claim.                           *)

Claimed == {u.on : u \in uses} \cup (UNION {Slaves[s] : s \in assembled})
             \cup ({excl, rival} \cap Devices)
Claimable(d) == Present(d) /\ Contends(d) \cap Claimed = {}

-----------------------------------------------------------------------------
(* The related-device walk. *)

(* ld_add_related_device: an entry already there may only become exact. *)
ld_add_related_device(devices, d, exact) ==
  IF \E i \in DOMAIN devices : devices[i].dev = d
    THEN [i \in DOMAIN devices |->
            IF devices[i].dev = d /\ exact THEN [devices[i] EXCEPT !.exact = TRUE] ELSE devices[i]]
    ELSE Append(devices, [dev |-> d, exact |-> exact])

(* ld_collect_sysfs_directory: what is listed already becomes exact, the rest  *)
(* of the entries follow in the order of the directory.  The lists it can leave.*)
Listed(devices) == {devices[i].dev : i \in DOMAIN devices}
ld_collect_sysfs_directory(devices, entries) ==
  {[i \in DOMAIN devices |-> [devices[i] EXCEPT !.exact = @ \/ devices[i].dev \in entries]]
     \o [i \in DOMAIN new |-> [dev |-> new[i], exact |-> TRUE]] :
     new \in SetToSeqs(entries \ Listed(devices))}

(* ld_add_partition_parent_device: the containing disk, not an exact mapping. *)
ld_add_partition_parent_device(devices, d) ==
  IF d \in Parts THEN ld_add_related_device(devices, Parent[d], FALSE) ELSE devices

Collected(lists, entries) == UNION {ld_collect_sysfs_directory(l, entries) : l \in lists}

(* Mutant: the holders of a device are not followed. *)
ScanNodeSlavesOnly(devices, i) ==
  LET d == devices[i].dev
      across == Collected({ld_add_partition_parent_device(devices, d)}, SlavesOf(d))
  IN UNION {ld_collect_sysfs_directory(l, IF l[i].exact THEN Children(d) ELSE {}) : l \in across}

(* One turn of ld_collect_related_devices: parent, holders, slaves, then the  *)
(* partitions of an exact mapping (a partition has neither slaves nor         *)
(* partitions).  An entry is visited once, with what it is by then.           *)
ScanNode(devices, i) ==
  LET d == devices[i].dev
      up == ld_add_partition_parent_device(devices, d)
      across == Collected(Collected({up}, Holders(d)), SlavesOf(d))
  IN UNION {ld_collect_sysfs_directory(l, IF l[i].exact THEN Children(d) ELSE {}) : l \in across}

RelatedDevices == Listed(related)

(* What stands in the way of obj in a check of mode m; a loop device over the *)
(* image counts apart from a name that leads to it.                           *)
OverLoop == [kind |-> "loop", on |-> Loop]
OverName == [kind |-> "name", on |-> Loop]
LoopOver(o) == o \in Inodes /\ backing = o
Conflicts(o, m) ==
  IF o \in Devices
    THEN {u \in uses : Overlaps(u.on, o) /\ (m = "system" => u.kind # "media")}
    ELSE {u \in uses : u.on = o /\ u.kind # "media"}
           \cup (IF m = "write" /\ LoopOver(o)
                   THEN {OverLoop} \cup (IF loopNamed THEN {OverName} ELSE {}) ELSE {})
           \cup (IF m = "mounted" /\ LoopOver(o) /\ loopNamed
                   THEN {u \in uses : Overlaps(u.on, Loop)} ELSE {})

(* A check of object o begins; it returns to r when nothing is in the way. *)
StartCheck(o, m, r) ==
  /\ obj' = o /\ mode' = m /\ ret' = r
  /\ related' = IF o \in Devices THEN <<[dev |-> o, exact |-> TRUE]>> ELSE <<>>
  /\ scan' = 1 /\ since' = Conflicts(o, m) /\ unread' = {}
  /\ pc' = IF o \in Devices THEN "walk" ELSE "source"

-----------------------------------------------------------------------------
(* The check, with Died when the program must not go on (ld_die_errno) and    *)
(* Busy when the target is in use.                                            *)

Leave(to) == /\ pc' = to /\ fd' = Nothing /\ excl' = Nothing /\ lock' = Nothing
             /\ mode' = "none" /\ ret' = "none" /\ obj' = Nothing /\ related' = <<>>
             /\ scan' = 0 /\ since' = {} /\ unread' = {} /\ want' = Nothing /\ expected' = Nothing
Died == Leave("exited")
Preflight == ret \in {"system", "dispatch"}
Busy == IF Preflight THEN Leave("exited") ELSE Leave("running")
Clear == pc' = ret /\ UNCHANGED <<checkVars, openVars>>

(* A table that cannot be read, or not to its end, is taken for one without the *)
(* entry that is looked for.                                                    *)
Overlook(table, to) ==
  /\ pc' = to /\ unread' = unread \cup {table}
  /\ UNCHANGED <<mode, ret, obj, related, scan, since, openVars>>

VisitFails ==
  /\ pc = "walk" /\ scan \in DOMAIN related
  /\ ~Present(related[scan].dev) /\ Died /\ UNCHANGED machineVars

Visit ==
  /\ pc = "walk" /\ scan \in DOMAIN related
  /\ LET d == related[scan].dev IN
     /\ Present(d)
     /\ \E found \in ScanNode(related, scan) :
          IF Len(found) > MaxRelated THEN Died
            ELSE /\ related' = found /\ scan' = scan + 1
                 /\ UNCHANGED <<pc, mode, ret, obj, since, unread, openVars>>
  /\ UNCHANGED machineVars

WalkDone ==
  /\ pc = "walk" /\ scan = Len(related) + 1 /\ pc' = "mounts"
  /\ UNCHANGED <<machineVars, checkVars, openVars>>

(* /proc/self/mountinfo.  ld_block_device_has_system_use passes over mounts of  *)
(* user media, and ends the program when the read fails (as Busy does);         *)
(* ld_device_number_is_mounted takes a failed getline for the end of the table. *)
InTheWay == IF mode = "system" THEN {"mount"} ELSE {"mount", "media"}
MountListed == \E u \in uses : u.on \in RelatedDevices /\ u.kind \in InTheWay
ReadMounts ==
  /\ pc = "mounts"
  /\ \/ MountListed /\ Busy
     \/ MountListed /\ mode # "system" /\ Overlook("mounts", "swaps")
     \/ ~MountListed /\ pc' = "swaps" /\ UNCHANGED <<checkVars, openVars>>
  /\ UNCHANGED machineVars

(* /proc/swaps. *)
ReadSwaps ==
  /\ pc = "swaps"
  /\ CASE \E u \in uses : u.on \in RelatedDevices /\ u.kind = "swap" -> Busy
       [] obj \in Inodes -> pc' = "fileSwap" /\ UNCHANGED <<checkVars, openVars>>
       [] OTHER -> Clear
  /\ UNCHANGED machineVars

(* An image: is it the source of a mount, ... *)
SourceListed == [kind |-> "mount", on |-> obj] \in uses
MountSource ==
  /\ pc = "source"
  /\ \/ SourceListed /\ (Busy \/ Overlook("mounts", "loops"))
     \/ ~SourceListed /\ pc' = "loops" /\ UNCHANGED <<checkVars, openVars>>
  /\ UNCHANGED machineVars

(* ... behind a loop device (for the preflight: a mounted one), looked up by *)
(* the name in loop/backing_file (without /sys/dev/block, the device's node, *)
(* that file or what it names there is no loop device), ...                  *)
LoopListed == backing = obj /\ loopNamed
LoopBacking ==
  /\ pc = "loops"
  /\ \/ ~LoopListed /\ pc' = "fileSwap" /\ UNCHANGED <<checkVars, openVars>>
     \/ LoopListed /\ Overlook("loops", "fileSwap")
     \/ LoopListed /\ mode = "write" /\ Busy
     \/ /\ LoopListed /\ mode # "write"
        /\ pc' = "walk" /\ related' = <<[dev |-> Loop, exact |-> TRUE]>> /\ scan' = 1
        /\ UNCHANGED <<mode, ret, obj, since, unread, openVars>>
  /\ UNCHANGED machineVars

(* ... or an active swap file. *)
FileSwap ==
  /\ pc = "fileSwap"
  /\ IF [kind |-> "swap", on |-> obj] \in uses THEN Busy ELSE Clear
  /\ UNCHANGED machineVars

Check == VisitFails \/ Visit \/ WalkDone \/ ReadMounts \/ ReadSwaps \/ MountSource
         \/ LoopBacking \/ FileSwap

-----------------------------------------------------------------------------
(* Identity. *)

(* ld_device_format_identity: hardware id or card id with the start and size of  *)
(* the device, a stable alias, or the bare device number; an image is its inode. *)
ld_device_format_identity(o) ==
  CASE o \in Inodes -> <<"file", o>>
    [] o \in Devices /\ IdKind[medium] # "number" -> <<IdKind[medium], Label[medium][o]>>
    [] OTHER -> <<"number", o>>

(* ld_device_matches_identity: a recorded device number matches whatever is there. *)
ld_device_matches_identity(o, identity) ==
  identity = <<"number", o>> \/ identity = ld_device_format_identity(o)

-----------------------------------------------------------------------------
(* ld_device_try_open for writing: the object the path resolves to is checked, *)
(* opened, compared with what was checked, and checked again.                  *)

WriteMode(o) == IF o \in Devices THEN "mounted" ELSE "write"

TryOpen(identity) ==
  /\ pc = "running" /\ fd = Nothing /\ (path \in Inodes \/ Present(path))
  /\ want' = identity /\ expected' = path /\ StartCheck(path, WriteMode(path), "open")
  /\ UNCHANGED <<machineVars, fd, excl, lock>>

(* open of what the path names by now: O_NOFOLLOW, and O_EXCL, which a regular *)
(* file ignores, when a block device was expected.                             *)
Exclusive(o) == expected \in Devices /\ o \in Devices
CanOpen(o) == IF Exclusive(o) THEN Claimable(o) ELSE o \in Inodes \/ Present(o)
Opened(o) ==
  /\ fd' = o /\ excl' = (IF Exclusive(o) THEN o ELSE Nothing)
  /\ UNCHANGED <<expected, lock, want>> /\ StartCheck(o, WriteMode(o), "accept")

(* Mutant: what was opened is not compared with what was checked. *)
OpenUnchecked ==
  /\ pc = "open" /\ UNCHANGED machineVars
  /\ IF CanOpen(path) THEN Opened(path) ELSE Leave("running")

(* fstat of the descriptor: ESTALE unless it is the object that was checked, *)
(* and the check of the object that was opened.                              *)
Open ==
  /\ pc = "open" /\ UNCHANGED machineVars
  /\ IF CanOpen(path) /\ path = expected THEN Opened(path) ELSE Leave("running")

(* ld_fd_size_bytes, then the caller's identity: ESTALE when it does not match. *)
Accept ==
  /\ pc = "accept" /\ UNCHANGED machineVars
  /\ IF want = Nothing \/ ld_device_matches_identity(fd, want)
       THEN pc' = "lock" /\ UNCHANGED <<checkVars, openVars>>
       ELSE Leave("running")

-----------------------------------------------------------------------------
(* The machine changes.  A rival is another process of this program that has *)
(* opened and locked a target.                                               *)

Event == events > 0 /\ events' = events - 1

Use(u) ==
  /\ Event /\ u \notin uses
  /\ u.on \in Devices => Claimable(u.on)
  /\ u.on = Loop => backing # Nothing
  /\ u.on \in Inodes => u.kind \notin {"media", "anon"}
  /\ uses' = uses \cup {u}
  /\ UNCHANGED <<assembled, backing, loopNamed, path, medium, rival, since, varsOfOpen>>

Release(u) ==
  /\ Event /\ u \in uses
  /\ uses' = uses \ {u} /\ since' = since \ {u}
  /\ UNCHANGED <<assembled, backing, loopNamed, path, medium, rival, varsOfOpen>>

Assemble(s) ==
  /\ Event /\ s \notin assembled /\ \A d \in Slaves[s] : Claimable(d)
  /\ assembled' = assembled \cup {s}
  /\ UNCHANGED <<uses, backing, loopNamed, path, medium, rival, since, varsOfOpen>>

Disassemble(s) ==
  /\ Event /\ s \in assembled /\ Claimable(s) /\ fd \notin Contends(s)
  /\ assembled' = assembled \ {s}
  /\ UNCHANGED <<uses, backing, loopNamed, path, medium, rival, since, varsOfOpen>>

AttachLoop(i) ==
  /\ Event /\ backing = Nothing /\ backing' = i /\ loopNamed' = TRUE
  /\ UNCHANGED <<uses, assembled, path, medium, rival, since, varsOfOpen>>

DetachLoop ==
  /\ Event /\ backing # Nothing /\ Claimable(Loop) /\ backing' = Nothing
  /\ since' = {c \in since : c.on # Loop}
  /\ UNCHANGED <<uses, assembled, loopNamed, path, medium, rival, varsOfOpen>>

(* The image is unlinked under the name the loop device was given. *)
UnlinkBacking ==
  /\ Event /\ backing # Nothing /\ loopNamed /\ loopNamed' = FALSE
  /\ since' = {c \in since : c.on # Loop \/ c = OverLoop}
  /\ UNCHANGED <<uses, assembled, backing, path, medium, rival, varsOfOpen>>

Retarget(o) ==
  /\ Event /\ o # path /\ path' = o
  /\ UNCHANGED <<uses, assembled, backing, loopNamed, medium, rival, since, varsOfOpen>>

ChangeMedium(m) ==
  /\ Event /\ m # medium /\ medium' = m
  /\ UNCHANGED <<uses, assembled, backing, loopNamed, path, rival, since, varsOfOpen>>

RivalOpens(o) ==
  /\ Event /\ rival = Nothing /\ o # lock /\ (o \in Devices => Claimable(o))
  /\ rival' = o
  /\ UNCHANGED <<uses, assembled, backing, loopNamed, path, medium, since, varsOfOpen>>

RivalCloses ==
  /\ Event /\ rival # Nothing /\ rival' = Nothing
  /\ UNCHANGED <<uses, assembled, backing, loopNamed, path, medium, since, varsOfOpen>>

Machine ==
  \/ \E u \in Uses : Use(u) \/ Release(u)
  \/ \E s \in Stacked : Assemble(s) \/ Disassemble(s)
  \/ \E i \in Inodes : AttachLoop(i)
  \/ DetachLoop \/ UnlinkBacking \/ RivalCloses
  \/ \E o \in Targets : Retarget(o) \/ RivalOpens(o)
  \/ \E m \in Media : ChangeMedium(m)

(* What the kernel can have built: the slaves of every stacked device are there *)
(* and no two claims contend.                                                   *)
Built(stack) ==
  \A s \in stack : \A d \in Slaves[s] :
    /\ PresentIn(stack, d)
    /\ \A t \in stack : \A e \in Slaves[t] : e \in Contends(d) => t = s
InitMachine ==
  /\ uses = {} /\ assembled \in SUBSET Stacked /\ Built(assembled) /\ backing = Nothing /\ loopNamed = FALSE
  /\ path \in Targets /\ (path \in Devices => Present(path))
  /\ medium \in Media /\ rival = Nothing /\ events = MaxEvents
InitOpen ==
  /\ mode = "none" /\ ret = "none" /\ obj = Nothing /\ related = <<>> /\ scan = 0 /\ since = {}
  /\ unread = {} /\ expected = Nothing
  /\ fd = Nothing /\ excl = Nothing /\ lock = Nothing /\ want = Nothing

TypeMachine ==
  /\ uses \subseteq Uses /\ assembled \subseteq Stacked /\ backing \in Inodes \cup {Nothing}
  /\ loopNamed \in BOOLEAN /\ path \in Targets /\ medium \in Media
  /\ rival \in Targets \cup {Nothing} /\ events \in 0 .. MaxEvents
TypeOpen ==
  /\ mode \in {"none", "mounted", "system", "write"}
  /\ ret \in {"none", "system", "dispatch", "open", "accept"}
  /\ obj \in Objects \cup {Nothing} /\ fd \in Objects \cup {Nothing}
  /\ excl \in Devices \cup {Nothing} /\ lock \in Objects \cup {Nothing}
  /\ want \in Identities \cup {Nothing} /\ expected \in Objects \cup {Nothing}
  /\ unread \subseteq {"mounts", "loops"}
  /\ since \subseteq Uses \cup {OverLoop, OverName}
  /\ related \in Seq([dev : Devices, exact : BOOLEAN])
  /\ Len(related) <= MaxRelated /\ scan \in 0 .. Len(related) + 1
=============================================================================
