--------------------------- MODULE BackendRegistry ---------------------------
(***************************************************************************)
(* The static registry of native/runtime.cpp: the filesystems this program *)
(* knows, the names they answer to, the operations they declare and the    *)
(* map accuracies they may report.  Display text and command-line defaults *)
(* are left out.  A name is its lower-case form.                           *)
(***************************************************************************)
EXTENDS Integers, Sequences

(* A backend that writes declares the three standard operations, one that    *)
(* only reads declares none.                                                 *)
standard_write_ops == {"defrag", "growth-defrag", "recover"}

Backend(aliases, worker, accepts, operations, qualification) ==
  [aliases |-> aliases, worker |-> worker, accepts |-> accepts,
   operations |-> operations, qualification |-> qualification]

Writes(aliases, worker, accepts, qualification) ==
  Backend(aliases, worker, accepts, standard_write_ops, qualification)
Reads(aliases, worker, accepts) == Backend(aliases, worker, accepts, {}, "none")

(* Each backend by its id. *)
backend_registry ==
  [ affs    |-> Writes({"affs", "amiga", "ofs", "ffs", "dostype"}, "affs-native", {"exact"}, "none"),
    apfs    |-> Writes({"apfs"}, "apfs-native", {"exact-bounded-spaceman"}, "worker"),
    btrfs   |-> Writes({"btrfs"}, "btrfs-native", {"exact-single-device"}, "worker"),
    exfat   |-> Writes({"exfat"}, "exfat-native", {"exact"}, "none"),
    ext2    |-> Writes({"ext2"}, "ext-native", {"exact"}, "worker"),
    ext3    |-> Writes({"ext3"}, "ext-native", {"exact"}, "worker"),
    ext4    |-> Writes({"ext4"}, "ext-native", {"exact"}, "worker"),
    fat12   |-> Writes({"fat12", "msdos12"}, "fat-native", {"exact"}, "none"),
    fat16   |-> Writes({"fat16", "msdos16"}, "fat-native", {"exact"}, "none"),
    fat32   |-> Writes({"fat32", "vfat"}, "fat-native", {"exact"}, "none"),
    hfs     |-> Writes({"hfs"}, "hfs-native", {"exact"}, "worker"),
    hfsplus |-> Writes({"hfsplus", "hfs+", "hfsx"}, "hfsplus-native", {"exact"}, "worker"),
    minix   |-> Writes({"minix", "minix2", "minix3"}, "minix-native", {"exact"}, "none"),
    ntfs    |-> Writes({"ntfs", "ntfs3"}, "ntfs-native", {"exact"}, "map-or-worker"),
    pfs3    |-> Writes({"pfs3", "pfs", "professionalfilesystem"}, "pfs3-native",
                       {"exact-allocation"}, "none"),
    sfs     |-> Writes({"sfs", "sfs0", "sfs2", "smartfilesystem"}, "sfs-native",
                       {"exact-allocation"}, "none"),
    swap    |-> Reads({"swap", "swapspace", "linux-swap"}, "swap-native", {"summary", "exact"}),
    ufs     |-> Writes({"ufs", "ufs1", "ufs2", "4.2bsd"}, "ufs-native",
                       {"summary", "exact-allocation", "exact"}, "worker"),
    xfs     |-> Writes({"xfs"}, "xfs-native", {"exact"}, "worker"),
    zfs     |-> Reads({"zfs", "zfs_member"}, "zfs-native", {"summary", "exact"}) ]

Ids == DOMAIN backend_registry
Names(id) == {id} \cup backend_registry[id].aliases

(* The programs resolve_program can find: every worker, and the tools. *)
kPrograms ==
  {"hfsplus-native", "hfs-native", "affs-native", "btrfs-native", "fat-native", "exfat-native",
   "ntfs-native", "ext-native", "ext-metadata", "xfs-native", "apfs-native", "minix-native",
   "sfs-native", "pfs3-native", "swap-native", "ufs-native", "zfs-native", "mapper",
   "operation-engine", "helper", "test-media"}

(* validate_backend_registry refuses to start the program otherwise: names are *)
(* unambiguous, workers exist, and only a writing backend qualifies writers.   *)
validate_backend_registry ==
  /\ \A a, b \in Ids : a # b => Names(a) \cap Names(b) = {}
  /\ \A a \in Ids :
       /\ backend_registry[a].worker \in kPrograms
       /\ backend_registry[a].accepts # {}
       /\ backend_registry[a].operations = {} => backend_registry[a].qualification = "none"

ASSUME RegistryAssumption == validate_backend_registry

NoBackend == "none"

backend_by_fstype(name) ==
  IF \E id \in Ids : name \in Names(id) THEN CHOOSE id \in Ids : name \in Names(id) ELSE NoBackend

operation_for(id, operation) == operation \in backend_registry[id].operations

backend_accepts_map_accuracy(id, accuracy) == accuracy \in backend_registry[id].accepts
=============================================================================
