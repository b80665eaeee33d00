------------------------- MODULE OperationRunProofs -------------------------
(***************************************************************************)
(* What holds of one privileged operation after another for every machine, *)
(* every number of changes of it, and every argument list: the target is   *)
(* the checked object and nobody else's, a bounded number of writes is     *)
(* lost, and what runs was authorised.                                     *)
(***************************************************************************)
EXTENDS OperationRun, DeviceSafetyProofs

USE DEF requestVars, engineVars, targetVars

-----------------------------------------------------------------------------
(* The inductive invariant, in parts. *)

CheckPcs == {"walk", "mounts", "swaps", "source", "loops", "fileSwap"}
OpenPcs  == {"open", "accept", "lock", "running", "pwrite"}
Pcs == CheckPcs \cup OpenPcs
         \cup {"request", "exited", "find", "stat", "mounted", "system", "dispatch", "load"}

(* On the way from OpenTarget to the lock. *)
Opening == \/ pc \in CheckPcs /\ ret \in {"open", "accept"}
           \/ pc \in {"open", "accept", "lock"}

(* Where the operation stands and which of the target's resources it holds. *)
Phase ==
  /\ pc \in Pcs
  /\ pc \in CheckPcs => ret # "none" /\ obj # Nothing
  /\ (pc \in CheckPcs /\ ret = "accept") \/ pc \in {"accept", "lock", "pwrite"} => fd # Nothing
  /\ fd # Nothing => /\ fd = expected
                     /\ (pc \in CheckPcs /\ ret = "accept") \/ pc \in OpenPcs \ {"open"}
  /\ excl = IF fd \in Devices THEN fd ELSE Nothing
  /\ lock = IF pc \in {"running", "pwrite"} THEN fd ELSE Nothing
  /\ pc = "request" => runs > 0

(* A binding is an identity, and the writes that went astray are among those   *)
(* since the last look at it.                                                  *)
Binding ==
  /\ handle # NoHandle => handle.bound \in Identities
  /\ handle # NoHandle /\ handle.bound[1] # "number" => lost <= handle.writes + failed
  /\ pc = "pwrite" => handle.writes < Refresh

(* What runs, from the parse on and from the load of the module on. *)
Authorisation ==
  /\ pc \notin {"request", "exited"} =>
       /\ op \in Mutating /\ op = auth.op /\ device = auth.device
       /\ (auth.plain => fs = auth.fs)
  /\ Opening \/ pc \in OpenPcs =>
       /\ loaded # NoModule /\ loaded.trusted /\ loaded.format = Format
       /\ "recover" \in loaded.caps

Inductive == TypeOK /\ Phase /\ Claims /\ OneWriter /\ Binding /\ Authorisation

-----------------------------------------------------------------------------
(* Types *)

Handles == [bound : Identities \cup {Nothing}, writes : 0 .. Refresh]
TypeHost ==
  /\ op \in Mutating \cup {""} /\ blk \in BOOLEAN /\ file \in Files \cup {""}
  /\ handle \in Handles /\ lost \in 0 .. MaxLost /\ failed \in 0 .. MaxFailures
  /\ journal \in Identities \cup {Nothing} /\ runs \in 0 .. MaxRuns

(* The steps that touch neither the machine nor the target nor a check of it. *)
Quiet == UNCHANGED <<machineVars, checkVars, openVars>>
LEMMA QuietSteps ==
  /\ \A r \in Requests : EngineParse(r) \/ Reject(r) => Quiet
  /\ \A modules \in Installations : ModuleFind(modules) \/ Load(modules) => Quiet
  /\ EngineStat \/ Dispatch \/ NextOperation \/ Done => Quiet
  /\ SaveJournal \/ RemoveJournal \/ WriteCheck \/ Pwrite \/ Sync => Quiet
BY DEF Quiet, EngineParse, Reject, ModuleFind, Load, EngineStat, Dispatch, NextOperation, Done,
       SaveJournal, RemoveJournal, WriteCheck, Pwrite, Sync, deviceVars, vars

(* An identity is one, whatever medium is in the drive. *)
LEMMA IdentityType ==
  ASSUME TypeMachine, NEW o \in Objects
  PROVE  ld_device_format_identity(o) \in Identities
<1>1. CASE o \in Inodes
  <2>1. ld_device_format_identity(o) = <<"file", o>>
    BY <1>1, TopologyAssumption DEF ld_device_format_identity
  <2>2. <<"file", o>> \in {<<"file", p>> : p \in Objects}
    OBVIOUS
  <2> QED
    BY <2>1, <2>2 DEF Identities
<1>2. CASE o \notin Inodes /\ IdKind[medium] # "number"
  BY <1>2 DEF ld_device_format_identity, Identities, Objects, TypeMachine
<1>3. CASE o \notin Inodes /\ IdKind[medium] = "number"
  BY <1>3 DEF ld_device_format_identity, Identities
<1> QED
  BY <1>1, <1>2, <1>3

(* The machine changes. *)
LEMMA TypeMachineStep ==
  ASSUME TypeMachine, Machine
  PROVE  TypeMachine'
<1> USE LimitsAssumption DEF TypeMachine, Event
<1>1. ASSUME NEW u \in Uses, Use(u) \/ Release(u)
      PROVE  TypeMachine'
  BY <1>1 DEF Use, Release
<1>2. ASSUME NEW s \in Stacked, Assemble(s) \/ Disassemble(s)
      PROVE  TypeMachine'
  BY <1>2 DEF Assemble, Disassemble
<1>3. ASSUME NEW i \in Inodes, AttachLoop(i)
      PROVE  TypeMachine'
  BY <1>3 DEF AttachLoop
<1>4. CASE DetachLoop \/ UnlinkBacking \/ RivalCloses
  <2>1. CASE DetachLoop
    <3>1. events' \in 0 .. MaxEvents
      BY <2>1 DEF DetachLoop
    <3> QED
      BY <2>1, <3>1, Zenon DEF DetachLoop
  <2>2. CASE UnlinkBacking
    <3>1. loopNamed' \in BOOLEAN
      BY <2>2, Zenon DEF UnlinkBacking
    <3>2. events' \in 0 .. MaxEvents
      BY <2>2 DEF UnlinkBacking
    <3> QED
      BY <2>2, <3>1, <3>2, Zenon DEF UnlinkBacking
  <2>3. CASE RivalCloses
    BY <2>3 DEF RivalCloses
  <2> QED
    BY <1>4, <2>1, <2>2, <2>3
<1>5. ASSUME NEW o \in Targets, Retarget(o) \/ RivalOpens(o)
      PROVE  TypeMachine'
  BY <1>5 DEF Retarget, RivalOpens
<1>6. ASSUME NEW m \in Media, ChangeMedium(m)
      PROVE  TypeMachine'
  BY <1>6 DEF ChangeMedium
<1> QED
  BY <1>1, <1>2, <1>3, <1>4, <1>5, <1>6 DEF Machine

(* A change of the machine leaves the check alone, but for its history. *)
LEMMA MachineLeaves ==
  ASSUME Machine
  PROVE  /\ UNCHANGED varsOfOpen
         /\ since' \subseteq since
BY DEF Machine, Use, Release, Assemble, Disassemble, AttachLoop, DetachLoop, UnlinkBacking,
       Retarget, ChangeMedium, RivalOpens, RivalCloses

(* A check begins. *)
LEMMA TypeStartCheck ==
  ASSUME TypeMachine, TypeOpen, NEW o \in Objects, NEW m \in {"mounted", "system", "write"},
         NEW r \in {"system", "dispatch", "open", "accept"}, StartCheck(o, m, r),
         fd' \in Objects \cup {Nothing}, excl' \in Devices \cup {Nothing},
         lock' \in Objects \cup {Nothing}, want' \in Identities \cup {Nothing},
         expected' \in Objects \cup {Nothing}
  PROVE  TypeOpen'
<1>1. /\ obj' = o /\ mode' = m /\ ret' = r /\ scan' = 1 /\ unread' = {}
      /\ since' = Conflicts(o, m)
      /\ related' = IF o \in Devices THEN <<[dev |-> o, exact |-> TRUE]>> ELSE <<>>
  BY DEF StartCheck
<1>2. Conflicts(o, m) \subseteq Uses \cup {OverLoop, OverName}
  BY DEF Conflicts, TypeMachine
<1>3. /\ related' \in Seq([dev : Devices, exact : BOOLEAN])
      /\ Len(related') <= MaxRelated /\ 1 \in 0 .. Len(related') + 1
  <2>1. CASE o \in Devices
    <3>1. [dev |-> o, exact |-> TRUE] \in [dev : Devices, exact : BOOLEAN]
      BY <2>1
    <3>2. related' = <<[dev |-> o, exact |-> TRUE]>>
      BY <1>1, <2>1
    <3>3. related' \in Seq([dev : Devices, exact : BOOLEAN]) /\ Len(related') = 1
      BY <3>1, <3>2
    <3> QED
      BY <3>3, LimitsAssumption
  <2>2. CASE o \notin Devices
    <3>1. related' = << >>
      BY <1>1, <2>2
    <3>2. related' \in Seq([dev : Devices, exact : BOOLEAN]) /\ Len(related') = 0
      BY <3>1
    <3> QED
      BY <3>2, LimitsAssumption
  <2> QED
    BY <2>1, <2>2
<1> QED
  BY <1>1, <1>2, <1>3 DEF TypeOpen

(* The target is let go. *)
LEMMA TypeLeave ==
  ASSUME NEW to, Leave(to)
  PROVE  TypeOpen'
<1>1. << >> \in Seq([dev : Devices, exact : BOOLEAN]) /\ Len(<< >>) = 0
  OBVIOUS
<1> QED
  BY <1>1, LimitsAssumption DEF Leave, TypeOpen

(* A step of the check: it goes on, ends, or lets the target go. *)
LEMMA CheckSteps ==
  ASSUME Check
  PROVE  /\ UNCHANGED machineVars /\ pc \in CheckPcs
         /\ \/ Leave("exited") \/ (Leave("running") /\ ~Preflight)
            \/ /\ pc' \in CheckPcs \cup {ret}
               /\ UNCHANGED <<mode, ret, obj, since, openVars>>
BY DEF Check, VisitFails, Visit, WalkDone, ReadMounts, ReadSwaps, MountSource, LoopBacking,
       FileSwap, Died, Busy, Clear, Overlook, CheckPcs, checkVars

LEMMA TypeCheck ==
  ASSUME TypeMachine, TypeOpen, Check
  PROVE  TypeOpen'
<1>1. ASSUME related' \in Seq([dev : Devices, exact : BOOLEAN]), Len(related') <= MaxRelated,
             scan' \in 0 .. Len(related') + 1, UNCHANGED <<mode, ret, obj, since, unread, openVars>>
      PROVE  TypeOpen'
  BY <1>1 DEF TypeOpen, openVars
<1>2. ASSUME NEW to, Leave(to)
      PROVE  TypeOpen'
  BY <1>2, TypeLeave
<1>3. ASSUME UNCHANGED <<checkVars, openVars>>
      PROVE  TypeOpen'
  BY <1>3 DEF TypeOpen, checkVars, openVars
<1>3a. ASSUME NEW table \in {"mounts", "loops"}, NEW to, Overlook(table, to)
       PROVE  TypeOpen'
  BY <1>3a DEF Overlook, TypeOpen, openVars
<1>4. CASE VisitFails
  BY <1>2, <1>4 DEF VisitFails, Died
<1>5. CASE Visit
  <2>1. PICK found \in ScanNode(related, scan) :
          IF Len(found) > MaxRelated THEN Died
            ELSE /\ related' = found /\ scan' = scan + 1
                 /\ UNCHANGED <<pc, mode, ret, obj, since, unread, openVars>>
    BY <1>5 DEF Visit
  <2>2. related \in Seq(Entry) /\ scan \in DOMAIN related /\ assembled \subseteq Stacked
    BY <1>5 DEF Visit, TypeOpen, TypeMachine, Entry
  <2>3. found \in Seq(Entry) /\ Len(found) >= Len(related)
    BY <2>1, <2>2, ScanGrows
  <2>4. CASE Len(found) > MaxRelated
    BY <2>1, <2>4, <1>2 DEF Died
  <2>5. CASE ~(Len(found) > MaxRelated)
    <3>1. /\ related' = found /\ scan' = scan + 1
          /\ UNCHANGED <<mode, ret, obj, since, unread, openVars>>
      BY <2>1, <2>5
    <3>2. Len(found) \in Nat /\ Len(related) \in Nat /\ scan \in 1 .. Len(related)
      BY <2>2, <2>3
    <3>3. Len(found) <= MaxRelated /\ scan + 1 \in 0 .. Len(found) + 1
      BY <2>3, <2>5, <3>2, LimitsAssumption
    <3> QED
      BY <1>1, <2>3, <3>1, <3>3 DEF Entry
  <2> QED
    BY <2>4, <2>5
<1>6. CASE WalkDone
  BY <1>3, <1>6 DEF WalkDone
<1>7. CASE ReadMounts
  BY <1>2, <1>3, <1>3a, <1>7 DEF ReadMounts, Busy
<1>8. CASE ReadSwaps
  BY <1>2, <1>3, <1>8 DEF ReadSwaps, Busy, Clear
<1>9. CASE MountSource
  BY <1>2, <1>3, <1>3a, <1>9 DEF MountSource, Busy
<1>10. CASE LoopBacking
  <2>1. \/ UNCHANGED <<checkVars, openVars>>
        \/ Busy \/ Overlook("loops", "fileSwap")
        \/ /\ related' = <<[dev |-> Loop, exact |-> TRUE]>> /\ scan' = 1
           /\ UNCHANGED <<mode, ret, obj, since, unread, openVars>>
    BY <1>10 DEF LoopBacking
  <2>2. [dev |-> Loop, exact |-> TRUE] \in [dev : Devices, exact : BOOLEAN]
    BY TopologyAssumption DEF Devices
  <2>3. <<[dev |-> Loop, exact |-> TRUE]>> \in Seq([dev : Devices, exact : BOOLEAN])
        /\ Len(<<[dev |-> Loop, exact |-> TRUE]>>) = 1
    BY <2>2
  <2>4. CASE Busy
    BY <1>2, <2>4 DEF Busy
  <2>5. CASE /\ related' = <<[dev |-> Loop, exact |-> TRUE]>> /\ scan' = 1
             /\ UNCHANGED <<mode, ret, obj, since, unread, openVars>>
    <3>1. /\ related' \in Seq([dev : Devices, exact : BOOLEAN])
          /\ Len(related') = 1 /\ scan' = 1
      BY <2>3, <2>5
    <3> QED
      BY <1>1, <2>5, <3>1, LimitsAssumption
  <2> QED
    BY <1>3, <1>3a, <2>1, <2>4, <2>5
<1>11. CASE FileSwap
  BY <1>2, <1>3, <1>11 DEF FileSwap, Busy, Clear
<1> QED
  BY <1>4, <1>5, <1>6, <1>7, <1>8, <1>9, <1>10, <1>11 DEF Check

LEMMA TypeOpenStep ==
  ASSUME Inductive, Next
  PROVE  TypeOpen'
<1>0. TypeMachine /\ TypeOpen /\ Phase /\ path \in Objects /\ TypeHost
  BY TopologyAssumption DEF Inductive, TypeOK, TypeMachine, TypeHost, Handles
<1>1. ASSUME NEW to, Leave(to)
      PROVE  TypeOpen'
  BY <1>1, TypeLeave
<1>2. CASE Quiet
  BY <1>0, <1>2 DEF Quiet, TypeOpen, checkVars, openVars
<1>3. ASSUME NEW m \in {"mounted", "system"}, NEW r \in {"system", "dispatch"},
             StartCheck(path, m, r), UNCHANGED openVars
      PROVE  TypeOpen'
  <2>1. UNCHANGED <<expected, fd, excl, lock, want>>
    BY <1>3 DEF openVars
  <2> QED
    BY <1>0, <1>3, <2>1, TypeStartCheck, ZenonT(60) DEF TypeOpen
<1>4. CASE EngineMounted
  BY <1>1, <1>3, <1>4 DEF EngineMounted, Died
<1>5. CASE EngineSystem
  <2>1. \/ UNCHANGED <<checkVars, openVars>> \/ Died
        \/ StartCheck(path, "system", "dispatch") /\ UNCHANGED openVars
    BY <1>5 DEF EngineSystem
  <2>2. CASE UNCHANGED <<checkVars, openVars>>
    BY <1>0, <2>2 DEF TypeOpen, checkVars, openVars
  <2> QED
    BY <1>1, <1>3, <2>1, <2>2 DEF Died
<1>6. CASE Check
  BY <1>0, <1>6, TypeCheck
<1>7. CASE Open
  <2>1. CASE Opened(path)
    BY <1>0, <2>1, TypeStartCheck DEF Opened, Exclusive, WriteMode, TypeOpen
  <2> QED
    BY <1>1, <1>7, <2>1 DEF Open
<1>8. CASE Accept
  <2>1. \/ Leave("running")
        \/ UNCHANGED <<checkVars, openVars>>
    BY <1>8 DEF Accept
  <2> QED
    BY <1>0, <1>1, <2>1 DEF TypeOpen, checkVars, openVars
<1>9. CASE OpenTarget
  <2>1. PICK w \in Identities \cup {Nothing} : TryOpen(w)
    BY <1>0, <1>9 DEF OpenTarget, TypeHost
  <2> QED
    BY <1>0, <2>1, TypeStartCheck DEF TryOpen, WriteMode, TypeOpen
<1>10. CASE Lock
  <2>1. \/ Leave("running")
        \/ lock' = fd /\ UNCHANGED <<checkVars, expected, fd, excl, want>>
    BY <1>10 DEF Lock
  <2> QED
    BY <1>0, <1>1, <2>1 DEF TypeOpen, checkVars
<1>11. CASE CloseTarget \/ Exit
  BY <1>1, <1>11 DEF CloseTarget, Exit, NoTarget
<1>12. CASE Machine
  BY <1>0, <1>12, MachineLeaves DEF TypeOpen, varsOfOpen, openVars
<1> QED
  BY <1>2, <1>4, <1>5, <1>6, <1>7, <1>8, <1>9, <1>10, <1>11, <1>12, QuietSteps DEF Next

-----------------------------------------------------------------------------
(* The two parsers *)

(* The parts of a request. *)
LEMMA RequestParts ==
  ASSUME NEW r \in Requests
  PROVE  /\ r.args \in Arguments
         /\ r.policy \in Readings(r.args, 3, Valued)
         /\ r.engine \in Readings(r.args, 1, {"--filesystem"})
BY DEF Requests

(* The least and the greatest of a set of places. *)
LEMMA EarliestIs ==
  ASSUME NEW I \in SUBSET Int, NEW i \in I, \A j \in I : i <= j
  PROVE  Earliest(I) = i
<1>1. Earliest(I) \in I /\ \A j \in I : Earliest(I) <= j
  BY Zenon DEF Earliest
<1>2. Earliest(I) <= i /\ i <= Earliest(I) /\ Earliest(I) \in Int /\ i \in Int
  BY <1>1
<1> QED
  BY <1>2

LEMMA LatestOne ==
  ASSUME NEW i \in Int
  PROVE  Latest({i}) = i
BY DEF Latest

(* The tokens that the policy admits as operation and target are free ones, and *)
(* the engine looks at both.                                                    *)
LEMMA OperandsAgree ==
  ASSUME NEW r \in Requests, validate_operation_args(r)
  PROVE  OperationAt(r) = 1 /\ DeviceAt(r) = 2 /\ r.args[1] \in Mutating /\ r.args[2] \in Paths
<1> DEFINE a == r.args
           E == r.engine
<1>1. /\ Len(a) \in Nat /\ Len(a) >= 2 /\ a[1] \in Mutating /\ a[2] \in Paths
      /\ E \in SUBSET (1 .. Len(a))
      /\ \A i \in 1 .. Len(a) : i \in E <=> (i = 1 \/ ~(i - 1 \in E /\ a[i - 1] \in {"--filesystem"}))
  BY RequestParts, ArgumentsAssumption DEF validate_operation_args, Commanded, Readings
<1>2. a[1] \notin Dashed /\ a[2] \notin Dashed /\ a[1] # "--filesystem"
  BY <1>1, TokensAssumption DEF Mutating
<1>3. 1 \in 1 .. Len(a) /\ 2 \in 1 .. Len(a)
  BY <1>1
<1>4. 1 \in E /\ 2 \in E
  BY <1>1, <1>2, <1>3
<1>5. Operands(r) \in SUBSET Int /\ 1 \in Operands(r) /\ 2 \in Operands(r)
      /\ \A j \in Operands(r) : 1 <= j
  BY <1>1, <1>2, <1>4 DEF Operands
<1>6. OperationAt(r) = 1
  BY <1>5, EarliestIs DEF OperationAt
<1>7. /\ Operands(r) \ {1} \in SUBSET Int /\ 2 \in Operands(r) \ {1}
      /\ \A j \in Operands(r) \ {1} : 2 <= j
  BY <1>5
<1>8. DeviceAt(r) = 2
  BY <1>6, <1>7, EarliestIs DEF DeviceAt
<1> QED
  BY <1>1, <1>6, <1>8

(* The policy admits one --filesystem, and the engine looks at it and at no other *)
(* option that names a filesystem, unless a value is spelled as one.              *)
LEMMA SourcesAgree ==
  ASSUME NEW r \in Requests, validate_operation_args(r), Authority(r).plain
  PROVE  \E i \in Places(r, "--filesystem") :
           /\ Places(r, "--filesystem") = {i} /\ i \in Int /\ r.args[i] = "--filesystem"
           /\ {j \in r.engine : NamesFilesystem(r.args[j])} = {i}
<1> DEFINE a == r.args
           E == r.engine
           S == r.policy
<1>1. /\ Len(a) \in Nat /\ Len(a) >= 2 /\ a[1] \in Mutating /\ a[2] \in Paths
      /\ E \in SUBSET (1 .. Len(a)) /\ S \in SUBSET (3 .. Len(a)) /\ WellFormed(a, S)
      /\ \A i \in 1 .. Len(a) : i \in E <=> (i = 1 \/ ~(i - 1 \in E /\ a[i - 1] \in {"--filesystem"}))
  BY RequestParts, ArgumentsAssumption DEF validate_operation_args, Commanded, Readings
<1>2. PICK i \in Places(r, "--filesystem") : Places(r, "--filesystem") = {i}
  BY DEF validate_operation_args, Once
<1>3. i \in S /\ a[i] = "--filesystem" /\ \A j \in S : a[j] = "--filesystem" => j = i
  BY <1>2 DEF Places
<1>4. \A j \in (3 .. Len(a)) \ S : ~NamesFilesystem(a[j])
  BY DEF Authority
<1>5. ~NamesFilesystem(a[1]) /\ ~NamesFilesystem(a[2])
  <2>1. {"--filesystem"} \cup DOMAIN Attached \subseteq Dashed
    BY DEF Dashed, Valued
  <2> QED
    BY <1>1, <2>1, TokensAssumption DEF NamesFilesystem
<1>6. \A j \in S : a[j] \notin DOMAIN Attached
  BY <1>1, TokensAssumption DEF WellFormed
<1>7. ASSUME NEW j \in 1 .. Len(a), NamesFilesystem(a[j])
      PROVE  j = i
  <2>1. j # 1 /\ j # 2
    BY <1>5, <1>7
  <2>2. j \in S
    BY <1>1, <1>4, <1>7, <2>1
  <2>3. a[j] = "--filesystem"
    BY <1>6, <1>7, <2>2 DEF NamesFilesystem
  <2> QED
    BY <1>3, <2>2, <2>3
<1>8. i \in 1 .. Len(a) /\ i - 1 \in 1 .. Len(a) /\ i - 1 # i
  BY <1>1, <1>3
<1>9. a[i - 1] # "--filesystem"
  BY <1>7, <1>8 DEF NamesFilesystem
<1>10. i \in E /\ NamesFilesystem(a[i])
  BY <1>1, <1>3, <1>8, <1>9 DEF NamesFilesystem
<1>11. {j \in E : NamesFilesystem(a[j])} = {i}
  BY <1>1, <1>7, <1>10
<1> QED
  BY <1>2, <1>3, <1>8, <1>11

(* On a list that validate_operation_args admits, the engine reads the same     *)
(* operation and device, and the same filesystem if no value is spelled as the  *)
(* option that names it.                                                        *)
LEMMA ParsersAgree ==
  ASSUME NEW r \in Requests, validate_operation_args(r)
  PROVE  /\ r.args[OperationAt(r)] = Authority(r).op /\ Authority(r).op \in Mutating
         /\ r.args[DeviceAt(r)] = Authority(r).device
         /\ Authority(r).plain => FilesystemOf(r) = Authority(r).fs
<1>1. ASSUME Authority(r).plain
      PROVE  FilesystemOf(r) = Authority(r).fs
  <2> DEFINE I == {j \in r.engine : NamesFilesystem(r.args[j])}
  <2>1. PICK i \in Places(r, "--filesystem") :
           /\ Places(r, "--filesystem") = {i} /\ i \in Int /\ r.args[i] = "--filesystem" /\ I = {i}
    BY <1>1, SourcesAgree
  <2>2. FilesystemOf(r) = IF I = {} THEN ""
                          ELSE IF r.args[Latest(I)] = "--filesystem" THEN r.args[Latest(I) + 1]
                          ELSE Attached[r.args[Latest(I)]]
    BY DEF FilesystemOf
  <2> HIDE DEF I
  <2>3. FilesystemOf(r) = r.args[i + 1]
    BY <2>1, <2>2, LatestOne
  <2>4. ValueOf(r, "--filesystem") = r.args[i + 1]
    BY <2>1 DEF ValueOf
  <2> QED
    BY <2>3, <2>4 DEF Authority
<1> QED
  BY <1>1, OperandsAgree DEF Authority

-----------------------------------------------------------------------------
(* The host's own state *)

(* The handle keeps its form. *)
LEMMA HandleTypes ==
  /\ NoHandle \in Handles
  /\ \A h \in Handles : \A n \in 0 .. Refresh : [h EXCEPT !.writes = n] \in Handles
  /\ \A h \in Handles : h.writes \in 0 .. Refresh /\ h.bound \in Identities \cup {Nothing}
BY HostAssumption DEF Handles, NoHandle

LEMMA TypeHostStep ==
  ASSUME Inductive, Next
  PROVE  TypeHost'
<1>0. TypeMachine /\ TypeOpen /\ Phase /\ TypeHost /\ Binding
  BY DEF Inductive, TypeOK, TypeHost, Handles
<1> DEFINE Labels == op \in Mutating \cup {""} /\ blk \in BOOLEAN /\ file \in Files \cup {""}
           Counts == lost \in 0 .. MaxLost /\ failed \in 0 .. MaxFailures
           Kept == handle \in Handles /\ journal \in Identities \cup {Nothing}
           Left == runs \in 0 .. MaxRuns
<1>a. /\ TypeHost <=> Labels /\ Counts /\ Kept /\ Left
      /\ TypeHost' <=> Labels' /\ Counts' /\ Kept' /\ Left'
  BY Zenon DEF TypeHost
<1>b. /\ UNCHANGED <<op, blk, file>> => Labels'
      /\ UNCHANGED <<lost, failed>> => Counts'
      /\ UNCHANGED <<handle, journal>> => Kept'
      /\ UNCHANGED runs => Left'
  BY <1>0, <1>a, Zenon
<1>c. Labels /\ Counts /\ Kept /\ Left
  BY <1>0, <1>a
<1>d. /\ lost \in 0 .. MaxLost /\ failed \in 0 .. MaxFailures /\ runs \in 0 .. MaxRuns
      /\ MaxLost \in Nat /\ 0 \in 0 .. MaxLost /\ 0 \in 0 .. MaxFailures
  <2>1. lost \in 0 .. MaxLost /\ failed \in 0 .. MaxFailures /\ runs \in 0 .. MaxRuns
    BY <1>c, Zenon
  <2>2. MaxLost \in Nat /\ 0 \in 0 .. MaxLost /\ 0 \in 0 .. MaxFailures
    BY HostAssumption DEF MaxLost
  <2> QED
    BY <2>1, <2>2, Zenon
<1>1. CASE UNCHANGED hostVars
  BY <1>a, <1>b, <1>1 DEF hostVars
<1>2. ASSUME NEW r \in Requests, EngineParse(r)
      PROVE  TypeHost'
  <2>1. op' \in Mutating \cup {""}
    <3>1. validate_operation_args(r) /\ (op' = op \/ op' = r.args[OperationAt(r)])
      BY <1>2 DEF EngineParse
    <3> QED
      BY <1>c, <3>1, ParsersAgree
  <2>2. runs' = runs - 1 /\ runs > 0
    BY <1>0, <1>2 DEF EngineParse, Phase
  <2>3. UNCHANGED <<blk, file, handle, journal, lost, failed>>
    BY <1>2 DEF EngineParse
  <2>4. Left'
    BY <1>d, <2>2, HostAssumption
  <2>5. Labels'
    BY <1>c, <2>1, <2>3, Zenon
  <2> QED
    BY <1>a, <1>b, <2>3, <2>4, <2>5
<1>3. ASSUME NEW r \in Requests, Reject(r)
      PROVE  TypeHost'
  <2>1. runs' = runs - 1 /\ runs > 0
    BY <1>0, <1>3 DEF Reject, Phase
  <2>2. UNCHANGED <<op, blk, file, handle, journal, lost, failed>>
    BY <1>3 DEF Reject
  <2>3. Left'
    BY <1>d, <2>1, HostAssumption
  <2> QED
    BY <1>a, <1>b, <2>2, <2>3
<1>4. CASE EngineStat
  <2>1. blk' = (path \in Devices) /\ UNCHANGED <<op, file, targetVars, runs>>
    BY <1>4 DEF EngineStat
  <2>2. (path \in Devices) \in BOOLEAN
    OBVIOUS
  <2>3. Labels'
    BY <1>c, <2>1, <2>2, Zenon
  <2> QED
    BY <1>a, <1>b, <2>1, <2>3
<1>5. CASE Dispatch
  <2>1. file' = file \/ file' = "OFS.so"
    BY <1>5 DEF Dispatch, V2Loader
  <2>2. UNCHANGED <<op, blk, targetVars, runs>>
    BY <1>5 DEF Dispatch
  <2>3. Labels'
    BY <1>c, <2>1, <2>2, FilesAssumption, Zenon
  <2> QED
    BY <1>a, <1>b, <2>2, <2>3
<1>6. ASSUME NEW modules \in Installations, ModuleFind(modules)
      PROVE  TypeHost'
  <2> DEFINE matches == {f \in Files : Probed(modules[f]) /\ modules[f].format = fs}
  <2>1. \/ file' = file
        \/ Cardinality(matches) = 1 /\ file' = CHOOSE f \in matches : TRUE
    BY <1>6 DEF ModuleFind
  <2>2. Cardinality(matches) = 1 => matches # {}
    BY FS_EmptySet
  <2>3. file' \in Files \cup {""}
    BY <1>c, <2>1, <2>2
  <2>4. UNCHANGED <<op, blk, targetVars, runs>>
    BY <1>6 DEF ModuleFind
  <2>5. Labels'
    BY <1>c, <2>3, <2>4, Zenon
  <2> QED
    BY <1>a, <1>b, <2>4, <2>5
<1>7. ASSUME NEW modules \in Installations, Load(modules)
      PROVE  TypeHost'
  BY <1>a, <1>b, <1>7 DEF Load
<1>8. ASSUME UNCHANGED <<requestVars, engineVars, runs>>, Kept', Counts'
      PROVE  TypeHost'
  BY <1>a, <1>b, <1>8
<1>9. CASE Lock
  <2>1. UNCHANGED <<requestVars, engineVars, runs>>
    BY <1>9 DEF Lock
  <2>2. CASE UNCHANGED targetVars
    BY <1>b, <1>8, <2>1, <2>2
  <2>3. CASE /\ handle' = [bound |-> ld_device_format_identity(fd), writes |-> 0]
             /\ lost' = 0 /\ failed' = 0 /\ journal' = journal
    <3>1. fd \in Objects
      BY <1>0, <1>9 DEF Phase, Lock, TypeOpen
    <3>2. ld_device_format_identity(fd) \in Identities
      BY <1>0, <3>1, IdentityType
    <3>3. handle' \in Handles
      BY <2>3, <3>2, HostAssumption DEF Handles
    <3>4. Kept'
      BY <1>c, <2>3, <3>3, Zenon
    <3>5. Counts'
      BY <1>d, <2>3
    <3> QED
      BY <1>8, <2>1, <3>4, <3>5
  <2> QED
    BY <1>9, <2>2, <2>3 DEF Lock
<1>10. CASE SaveJournal \/ RemoveJournal
  <2>1. journal' \in Identities \cup {Nothing}
    BY <1>c, <1>10, HandleTypes DEF SaveJournal, RemoveJournal
  <2>2. UNCHANGED <<requestVars, engineVars, handle, lost, failed, runs>>
    BY <1>10 DEF SaveJournal, RemoveJournal
  <2>3. Kept'
    BY <1>c, <2>1, <2>2, Zenon
  <2> QED
    BY <1>b, <1>8, <2>2, <2>3
<1>11. ASSUME NEW n \in 0 .. Refresh, handle' = [handle EXCEPT !.writes = n], Counts',
              UNCHANGED <<requestVars, engineVars, journal, runs>>
       PROVE  TypeHost'
  <2>1. Kept'
    BY <1>c, <1>11, HandleTypes, Zenon
  <2> QED
    BY <1>8, <1>11, <2>1
<1>12. handle.writes \in 0 .. Refresh
  BY <1>c, HandleTypes, Zenon
<1>13. ASSUME Looked
       PROVE  Counts'
  BY <1>d, <1>13 DEF Looked
<1>14. CASE WriteCheck
  <2>1. UNCHANGED <<requestVars, engineVars, journal, runs>>
    BY <1>14 DEF WriteCheck
  <2>2. CASE UNCHANGED <<handle, lost, failed>>
    BY <1>b, <1>8, <2>1, <2>2
  <2>3. CASE Looked /\ handle' = [handle EXCEPT !.writes = 0]
    <3>1. 0 \in 0 .. Refresh
      BY HostAssumption
    <3> QED
      BY <1>11, <1>13, <2>1, <2>3, <3>1
  <2> QED
    BY <1>14, <2>2, <2>3 DEF WriteCheck
<1>15. CASE Pwrite
  <2>1. handle.writes < Refresh
    BY <1>0, <1>15 DEF Pwrite, Binding
  <2>2. UNCHANGED <<requestVars, engineVars, journal, runs>>
    BY <1>15 DEF Pwrite
  <2>3. Strayed \in 0 .. MaxLost
    BY <1>d DEF Strayed
  <2>4. CASE handle' = [handle EXCEPT !.writes = handle.writes + 1] /\ lost' = Strayed /\ failed' = failed
    <3>1. handle.writes + 1 \in 0 .. Refresh
      BY <1>12, <2>1, HostAssumption
    <3>2. Counts'
      BY <1>d, <2>3, <2>4
    <3> QED
      BY <1>11, <2>2, <2>4, <3>1, <3>2
  <2>5. CASE failed < MaxFailures /\ failed' = failed + 1 /\ lost' \in {lost, Strayed} /\ handle' = handle
    <3>1. Counts'
      BY <1>d, <2>3, <2>5, HostAssumption
    <3> QED
      BY <1>b, <1>8, <2>2, <2>5, <3>1
  <2> QED
    BY <1>15, <2>4, <2>5 DEF Pwrite
<1>16. CASE Sync
  <2>1. /\ handle' = [handle EXCEPT !.writes = 0] /\ Looked
        /\ UNCHANGED <<requestVars, engineVars, journal, runs>>
    BY <1>16 DEF Sync
  <2>2. 0 \in 0 .. Refresh
    BY HostAssumption
  <2> QED
    BY <1>11, <1>13, <2>1, <2>2
<1>17. CASE CloseTarget \/ Exit
  <2>1. /\ handle' = NoHandle /\ lost' = 0 /\ failed' = 0
        /\ UNCHANGED <<requestVars, engineVars, journal, runs>>
    BY <1>17 DEF CloseTarget, Exit, NoTarget
  <2>2. Kept'
    BY <1>c, <2>1, HandleTypes, Zenon
  <2>3. Counts'
    BY <1>d, <2>1
  <2> QED
    BY <1>8, <2>1, <2>2, <2>3
<1>18. CASE NextOperation
  <2>1. Labels'
    BY <1>18, Zenon DEF NextOperation
  <2> QED
    BY <1>a, <1>b, <1>18, <2>1 DEF NextOperation
<1>19. EngineMounted \/ EngineSystem \/ OpenTarget \/ Done => UNCHANGED hostVars
  BY DEF EngineMounted, EngineSystem, OpenTarget, Done, vars
<1> QED
  BY <1>1, <1>2, <1>3, <1>4, <1>5, <1>6, <1>7, <1>9, <1>10, <1>14, <1>15, <1>16, <1>17,
     <1>18, <1>19 DEF Next

-----------------------------------------------------------------------------
(* Claims and locks *)

LEMMA ClaimsStep ==
  ASSUME Inductive, Next
  PROVE  Claims'
<1>0. TypeMachine /\ Claims /\ TypeOpen
  BY DEF Inductive, TypeOK
<1>1. ASSUME NEW to, Leave(to), UNCHANGED machineVars
      PROVE  Claims'
  BY <1>0, <1>1, ClaimsOpen DEF Leave, machineVars
<1>2. CASE UNCHANGED <<machineVars, excl>>
  BY <1>0, <1>2, ClaimsOpen DEF machineVars
<1>3. CASE Check
  BY <1>1, <1>2, <1>3, CheckSteps DEF openVars
<1>4. CASE Open
  <2>1. Leave("running") \/ (CanOpen(path) /\ Opened(path))
    BY <1>4 DEF Open
  <2>2. UNCHANGED machineVars
    BY <1>4 DEF Open
  <2>3. CASE Leave("running")
    BY <1>1, <2>2, <2>3
  <2>4. CASE CanOpen(path) /\ Opened(path)
    <3>1. excl' = Nothing \/ (excl' \in Devices /\ Claimable(excl'))
      <4>1. CASE Exclusive(path)
        BY <2>4, <4>1 DEF CanOpen, Opened, Exclusive
      <4>2. CASE ~Exclusive(path)
        BY <2>4, <4>2 DEF Opened
      <4> QED
        BY <4>1, <4>2
    <3>2. uses' = uses /\ assembled' = assembled
      BY <2>2 DEF machineVars
    <3> QED
      BY <1>0, <3>1, <3>2, ClaimsOpen
  <2> QED
    BY <2>1, <2>3, <2>4
<1>5. CASE Accept
  BY <1>1, <1>2, <1>5 DEF Accept, openVars
<1>6. CASE OpenTarget
  BY <1>2, <1>6 DEF OpenTarget, TryOpen
<1>7. CASE Lock
  BY <1>1, <1>2, <1>7 DEF Lock
<1>8. CASE CloseTarget \/ Exit
  BY <1>1, <1>8 DEF CloseTarget, Exit, NoTarget
<1>9. CASE EngineMounted \/ EngineSystem
  BY <1>1, <1>2, <1>9 DEF EngineMounted, EngineSystem, Died, openVars
<1>10. CASE Quiet
  BY <1>2, <1>10 DEF Quiet, openVars
<1>11. CASE Machine
  BY <1>0, <1>11, ClaimsMachine
<1> QED
  BY <1>3, <1>4, <1>5, <1>6, <1>7, <1>8, <1>9, <1>10, <1>11, QuietSteps DEF Next

LEMMA OneWriterStep ==
  ASSUME Inductive, Next
  PROVE  OneWriter'
<1>0. OneWriter /\ Phase
  BY DEF Inductive
<1>1. ASSUME NEW to, Leave(to)
      PROVE  OneWriter'
  BY <1>1 DEF Leave, OneWriter
<1>2. CASE UNCHANGED <<rival, lock>>
  BY <1>0, <1>2 DEF OneWriter
<1>3. CASE Check
  BY <1>1, <1>2, <1>3, CheckSteps DEF openVars, machineVars
<1>4. CASE Open
  BY <1>1, <1>2, <1>4 DEF Open, Opened, machineVars
<1>5. CASE Accept
  BY <1>1, <1>2, <1>5 DEF Accept, machineVars, openVars
<1>6. CASE OpenTarget
  BY <1>2, <1>6 DEF OpenTarget, TryOpen, machineVars
<1>7. CASE Lock
  BY <1>1, <1>7 DEF Lock, OneWriter, machineVars
<1>8. CASE CloseTarget \/ Exit
  BY <1>1, <1>8 DEF CloseTarget, Exit, NoTarget
<1>9. CASE EngineMounted \/ EngineSystem
  BY <1>1, <1>2, <1>9 DEF EngineMounted, EngineSystem, Died, openVars, machineVars
<1>10. CASE Quiet
  BY <1>2, <1>10 DEF Quiet, openVars, machineVars
<1>11. CASE Machine
  <2>1. lock' = lock
    BY <1>11, MachineLeaves DEF varsOfOpen, openVars
  <2>2. \/ rival' = rival \/ rival' = Nothing
        \/ \E o \in Targets : o # lock /\ rival' = o
    BY <1>11 DEF Machine, Use, Release, Assemble, Disassemble, AttachLoop, DetachLoop,
                UnlinkBacking, Retarget, ChangeMedium, RivalOpens, RivalCloses
  <2> QED
    BY <1>0, <2>1, <2>2 DEF OneWriter
<1> QED
  BY <1>3, <1>4, <1>5, <1>6, <1>7, <1>8, <1>9, <1>10, <1>11, QuietSteps DEF Next

-----------------------------------------------------------------------------
(* Where the operation stands *)

(* An operation that holds a handle has the target open and locked. *)
LEMMA HeldTarget ==
  ASSUME Inductive, handle # NoHandle
  PROVE  /\ lock = fd /\ fd # Nothing /\ pc \in {"running", "pwrite"}
         /\ fd \in Objects
BY DEF Inductive, TypeOK, TypeOpen, Phase

LEMMA PhaseStep ==
  ASSUME Inductive, Next
  PROVE  Phase'
<1>0. Phase /\ TypeOpen /\ path \in Objects /\ TypeHost
  BY TopologyAssumption DEF Inductive, TypeOK, TypeMachine, TypeHost, Handles
<1>1. ASSUME NEW to \in {"exited", "running"}, Leave(to)
      PROVE  Phase'
  BY <1>1, TopologyAssumption DEF Leave, Phase, Pcs, CheckPcs, OpenPcs, Objects
<1>2. ASSUME Quiet, fd = Nothing, pc' \in Pcs \ (CheckPcs \cup {"open", "accept", "lock", "pwrite"}),
             pc' = "request" => runs' > 0
      PROVE  Phase'
  BY <1>0, <1>2 DEF Quiet, Phase, checkVars, openVars
<1>3. ASSUME Quiet, handle # NoHandle, pc' \in {"running", "pwrite"}
      PROVE  Phase'
  <2>1. /\ lock = fd /\ fd # Nothing /\ pc \in {"running", "pwrite"}
    BY <1>3, HeldTarget
  <2>2. UNCHANGED <<ret, obj, expected, fd, excl, lock>>
    BY <1>3 DEF Quiet, checkVars, openVars
  <2> QED
    BY <1>0, <1>3, <2>1, <2>2 DEF Phase, Pcs, CheckPcs, OpenPcs
<1>4. ASSUME NEW r \in Requests, EngineParse(r) \/ Reject(r)
      PROVE  Phase'
  <2>1. fd = Nothing
    BY <1>0, <1>4 DEF EngineParse, Reject, Phase, CheckPcs, OpenPcs
  <2>2. pc' \in {"exited", "find", "stat"}
    BY <1>4 DEF EngineParse, Reject
  <2>3. Quiet
    BY <1>4, QuietSteps
  <2> QED
    BY <1>2, <2>1, <2>2, <2>3 DEF Pcs, CheckPcs, OpenPcs
<1>5. ASSUME NEW modules \in Installations, ModuleFind(modules) \/ Load(modules)
      PROVE  Phase'
  <2>1. fd = Nothing
    BY <1>0, <1>5 DEF ModuleFind, Load, Phase, CheckPcs, OpenPcs
  <2>2. pc' \in {"exited", "stat", "running"}
    BY <1>5 DEF ModuleFind, Load
  <2>3. Quiet
    BY <1>5, QuietSteps
  <2> QED
    BY <1>2, <2>1, <2>2, <2>3 DEF Pcs, CheckPcs, OpenPcs
<1>6. CASE EngineStat \/ Dispatch \/ NextOperation
  <2>1. fd = Nothing
    BY <1>0, <1>6 DEF EngineStat, Dispatch, NextOperation, Phase, CheckPcs, OpenPcs
  <2>2. pc' \in {"exited", "mounted", "load", "request"} /\ (pc' = "request" => runs' > 0)
    BY <1>6 DEF EngineStat, Dispatch, NextOperation
  <2>3. Quiet
    BY <1>6, QuietSteps
  <2> QED
    BY <1>2, <2>1, <2>2, <2>3 DEF Pcs, CheckPcs, OpenPcs
<1>7. CASE SaveJournal \/ RemoveJournal \/ WriteCheck \/ Sync
  BY <1>3, <1>7, QuietSteps DEF SaveJournal, RemoveJournal, WriteCheck, Sync, Holding
<1>8. CASE Pwrite
  <2>1. (handle # NoHandle) <=> (lock # Nothing)
    BY Zenon DEF Inductive, TypeOK
  <2>2. lock # Nothing
    BY <1>0, <1>8 DEF Pwrite, Phase
  <2> QED
    BY <1>3, <1>8, <2>1, <2>2, QuietSteps DEF Pwrite
<1>9. CASE Done
  BY <1>0, <1>9 DEF Done, vars, deviceVars, hostVars, machineVars, checkVars, openVars, Phase
<1>10. ASSUME NEW o \in Objects, NEW m, NEW r \in {"system", "dispatch", "open"},
              StartCheck(o, m, r), UNCHANGED <<fd, excl, lock>>, fd = Nothing
       PROVE  Phase'
  <2>1. /\ pc' \in {"walk", "source"} /\ ret' = r /\ obj' = o
    BY <1>10 DEF StartCheck
  <2> QED
    BY <1>0, <1>10, <2>1, TopologyAssumption DEF Phase, Pcs, CheckPcs, OpenPcs
<1>11. CASE EngineMounted \/ EngineSystem
  <2>1. fd = Nothing /\ lock = Nothing
    BY <1>0, <1>11 DEF EngineMounted, EngineSystem, Phase, CheckPcs, OpenPcs
  <2>2. \/ Leave("exited")
        \/ \E m \in {"mounted", "system"}, r \in {"system", "dispatch"} :
              StartCheck(path, m, r) /\ UNCHANGED <<fd, excl, lock>>
        \/ pc' = "dispatch" /\ UNCHANGED <<checkVars, openVars>>
    BY <1>11 DEF EngineMounted, EngineSystem, Died, openVars
  <2>3. CASE pc' = "dispatch" /\ UNCHANGED <<checkVars, openVars>>
    BY <1>0, <2>1, <2>3 DEF Phase, Pcs, CheckPcs, OpenPcs, checkVars, openVars
  <2> QED
    BY <1>0, <1>1, <1>10, <2>1, <2>2, <2>3
<1>12. CASE Check
  <2>1. pc \in CheckPcs /\ ret # "none" /\ obj # Nothing
    BY <1>0, <1>12, CheckSteps DEF Phase
  <2>2. \/ Leave("exited") \/ Leave("running")
        \/ pc' \in CheckPcs \cup {ret} /\ UNCHANGED <<ret, obj, expected, fd, excl, lock>>
    BY <1>12, CheckSteps DEF openVars
  <2>3. CASE pc' \in CheckPcs \cup {ret} /\ UNCHANGED <<ret, obj, expected, fd, excl, lock>>
    <3>1. ret \in {"system", "dispatch", "open", "accept"}
      BY <1>0, <2>1 DEF TypeOpen
    <3> QED
      BY <1>0, <2>1, <2>3, <3>1 DEF Phase, Pcs, CheckPcs, OpenPcs
  <2> QED
    BY <1>1, <2>2, <2>3
<1>13. CASE Open
  <2>1. fd = Nothing /\ lock = Nothing /\ path # Nothing
    BY <1>0, <1>13, TopologyAssumption DEF Open, Phase, CheckPcs, OpenPcs
  <2>2. \/ Leave("running")
        \/ /\ fd' = path /\ expected' = path /\ obj' = path /\ lock' = lock
           /\ excl' = (IF path \in Devices THEN path ELSE Nothing)
           /\ ret' = "accept" /\ pc' \in {"walk", "source"}
    BY <1>13 DEF Open, Opened, Exclusive, StartCheck
  <2> QED
    BY <1>0, <1>1, <2>1, <2>2 DEF Phase, Pcs, CheckPcs, OpenPcs
<1>14. CASE Accept
  <2>1. \/ Leave("running")
        \/ pc' = "lock" /\ UNCHANGED <<ret, obj, expected, fd, excl, lock>>
    BY <1>14 DEF Accept, checkVars, openVars
  <2> QED
    BY <1>0, <1>1, <1>14, <2>1 DEF Accept, Phase, Pcs, CheckPcs, OpenPcs
<1>15. CASE OpenTarget
  <2>1. PICK w : TryOpen(w)
    BY <1>15 DEF OpenTarget
  <2>2. fd = Nothing /\ StartCheck(path, WriteMode(path), "open") /\ UNCHANGED <<fd, excl, lock>>
    BY <2>1 DEF TryOpen
  <2> QED
    BY <1>0, <1>10, <2>2
<1>16. CASE Lock
  <2>1. \/ Leave("running")
        \/ pc' = "running" /\ lock' = fd /\ UNCHANGED <<ret, obj, expected, fd, excl>>
    BY <1>16 DEF Lock, checkVars
  <2> QED
    BY <1>0, <1>1, <1>16, <2>1 DEF Lock, Phase, Pcs, CheckPcs, OpenPcs
<1>17. CASE CloseTarget \/ Exit
  BY <1>1, <1>17 DEF CloseTarget, Exit, NoTarget
<1>18. CASE Machine /\ UNCHANGED hostVars
  BY <1>0, <1>18, MachineLeaves DEF varsOfOpen, openVars, hostVars, Phase
<1> QED
  BY <1>4, <1>5, <1>6, <1>7, <1>8, <1>9, <1>11, <1>12, <1>13, <1>14, <1>15, <1>16, <1>17, <1>18 DEF Next

-----------------------------------------------------------------------------
(* A handle is held exactly while the lock is. *)
LEMMA HandleStep ==
  ASSUME Inductive, Next
  PROVE  ((handle # NoHandle) <=> (lock # Nothing))'
<1>0. /\ Phase /\ ((handle # NoHandle) <=> (lock # Nothing)) /\ TypeHost /\ TypeMachine
      /\ TypeOpen /\ Binding
  BY DEF Inductive, TypeOK, TypeHost, Handles
<1>1. CASE UNCHANGED <<handle, lock>>
  BY <1>0, <1>1
<1>2. ASSUME NEW to, Leave(to), handle' = NoHandle \/ (handle' = handle /\ lock = Nothing)
      PROVE  ((handle # NoHandle) <=> (lock # Nothing))'
  BY <1>0, <1>2 DEF Leave
<1>3. ASSUME NEW n, handle # NoHandle, handle' = [handle EXCEPT !.writes = n], lock' = lock
      PROVE  ((handle # NoHandle) <=> (lock # Nothing))'
  <2>1. handle.bound \in Identities /\ handle \in Handles
    BY <1>0, <1>3 DEF Binding, TypeHost
  <2>2. handle'.bound = handle.bound
    BY <1>3, <2>1 DEF Handles
  <2>3. handle' # NoHandle
    BY <2>1, <2>2, IdentityAssumption DEF NoHandle
  <2> QED
    BY <1>0, <1>3, <2>3
<1>4. CASE Check /\ UNCHANGED hostVars
  <2>1. lock = Nothing
    BY <1>0, <1>4, CheckSteps DEF Phase, CheckPcs
  <2> QED
    BY <1>1, <1>2, <1>4, <2>1, CheckSteps DEF openVars, hostVars
<1>5. CASE (Open \/ Accept) /\ UNCHANGED hostVars
  <2>1. lock = Nothing
    BY <1>0, <1>5 DEF Phase, Open, Accept
  <2> QED
    BY <1>1, <1>2, <1>5, <2>1 DEF Open, Opened, Accept, hostVars, openVars
<1>6. CASE EngineMounted \/ EngineSystem
  <2>1. lock = Nothing
    BY <1>0, <1>6 DEF Phase, EngineMounted, EngineSystem
  <2> QED
    BY <1>1, <1>2, <1>6, <2>1 DEF EngineMounted, EngineSystem, Died, openVars, hostVars
<1>7. CASE OpenTarget
  BY <1>1, <1>7 DEF OpenTarget, TryOpen, hostVars
<1>8. CASE Lock
  <2>1. lock = Nothing /\ fd # Nothing
    BY <1>0, <1>8 DEF Phase, Lock
  <2>2. CASE Leave("running") /\ UNCHANGED targetVars
    BY <1>2, <2>1, <2>2
  <2>3. CASE lock' = fd /\ handle' = [bound |-> ld_device_format_identity(fd), writes |-> 0]
    <3>1. handle'.bound \in Identities
      BY <1>0, <2>1, <2>3, IdentityType DEF TypeOpen
    <3> QED
      BY <2>1, <2>3, <3>1, IdentityAssumption DEF NoHandle
  <2> QED
    BY <1>8, <2>2, <2>3 DEF Lock
<1>9. CASE CloseTarget \/ Exit
  BY <1>2, <1>9 DEF CloseTarget, Exit, NoTarget
<1>10. CASE WriteCheck \/ Sync
  <2>1. handle # NoHandle /\ lock' = lock
    BY <1>10, QuietSteps DEF WriteCheck, Sync, Holding, Quiet, openVars
  <2>2. handle' = handle \/ \E n : handle' = [handle EXCEPT !.writes = n]
    BY <1>10 DEF WriteCheck, Sync
  <2> QED
    BY <1>1, <1>3, <2>1, <2>2
<1>11. CASE Pwrite
  <2>1. handle # NoHandle /\ lock' = lock
    BY <1>0, <1>11, QuietSteps DEF Pwrite, Phase, Quiet, openVars
  <2>2. handle' = handle \/ \E n : handle' = [handle EXCEPT !.writes = n]
    BY <1>11 DEF Pwrite
  <2> QED
    BY <1>1, <1>3, <2>1, <2>2
<1>12. CASE Machine /\ UNCHANGED hostVars
  BY <1>1, <1>12, MachineLeaves DEF varsOfOpen, openVars, hostVars
<1>13. CASE Quiet /\ handle' = handle
  BY <1>1, <1>13 DEF Quiet, openVars
<1>14. /\ \A r \in Requests : EngineParse(r) \/ Reject(r) => handle' = handle
       /\ \A modules \in Installations : ModuleFind(modules) \/ Load(modules) => handle' = handle
       /\ EngineStat \/ Dispatch \/ NextOperation \/ Done => handle' = handle
       /\ SaveJournal \/ RemoveJournal => handle' = handle
  BY DEF EngineParse, Reject, ModuleFind, Load, EngineStat, Dispatch, NextOperation, Done,
         SaveJournal, RemoveJournal, vars, hostVars
<1> QED
  BY <1>4, <1>5, <1>6, <1>7, <1>8, <1>9, <1>10, <1>11, <1>12, <1>13, <1>14, QuietSteps DEF Next

-----------------------------------------------------------------------------
(* The binding of the target, and writes that go astray *)

(* A look at an identity that is not a bare number finds the one that was bound. *)
LEMMA Reconfirmed ==
  ASSUME handle.bound[1] # "number", ld_device_matches_identity(fd, handle.bound)
  PROVE  ~Foreign
<1>1. handle.bound # <<"number", fd>>
  OBVIOUS
<1> QED
  BY <1>1, Zenon DEF ld_device_matches_identity, Foreign

(* The counts are numbers. *)
LEMMA CountsTyped ==
  ASSUME Inductive
  PROVE  handle.writes \in Nat /\ lost \in Nat /\ failed \in Nat /\ handle.writes <= Refresh
<1>1. handle \in Handles /\ lost \in 0 .. MaxLost /\ failed \in 0 .. MaxFailures
  BY DEF Inductive, TypeOK, Handles
<1> QED
  BY <1>1, HandleTypes, HostAssumption DEF MaxLost

LEMMA BindingStep ==
  ASSUME Inductive, Next
  PROVE  Binding'
<1>0. /\ Phase /\ Binding /\ TypeHost /\ TypeMachine /\ TypeOpen
      /\ (handle # NoHandle) <=> (lock # Nothing)
  BY DEF Inductive, TypeOK, TypeHost, Handles
<1>a. handle.writes \in Nat /\ lost \in Nat /\ failed \in Nat /\ handle.writes <= Refresh
  BY CountsTyped
<1>1. CASE UNCHANGED <<handle, lost, failed>> /\ pc' # "pwrite"
  BY <1>0, <1>1 DEF Binding
<1>2. ASSUME pc' # "pwrite", handle' = NoHandle
      PROVE  Binding'
  BY <1>2 DEF Binding
<1>3. ASSUME NEW to \in {"running", "exited"}, Leave(to), handle' = NoHandle
      PROVE  Binding'
  BY <1>2, <1>3 DEF Leave
<1>4. CASE Check /\ UNCHANGED hostVars
  <2>1. pc \in CheckPcs /\ ret # "pwrite"
    BY <1>0, <1>4, CheckSteps DEF TypeOpen
  <2>2. pc' \in {"exited", "running"} \/ pc' \in CheckPcs \cup {ret}
    BY <1>4, CheckSteps DEF Leave
  <2> QED
    BY <1>1, <1>4, <2>1, <2>2 DEF CheckPcs, hostVars
<1>5. CASE (Open \/ Accept) /\ UNCHANGED hostVars
  <2>1. pc' # "pwrite"
    BY <1>5 DEF Open, Opened, Accept, StartCheck, Leave
  <2> QED
    BY <1>1, <1>5, <2>1 DEF hostVars
<1>6. CASE EngineMounted \/ EngineSystem \/ OpenTarget
  <2>1. pc' # "pwrite"
    BY <1>6 DEF EngineMounted, EngineSystem, OpenTarget, TryOpen, StartCheck, Died, Leave
  <2> QED
    BY <1>1, <1>6, <2>1 DEF EngineMounted, EngineSystem, OpenTarget, hostVars
<1>7. CASE Lock
  <2>1. CASE Leave("running") /\ UNCHANGED targetVars
    BY <1>1, <2>1 DEF Leave
  <2>2. CASE /\ handle' = [bound |-> ld_device_format_identity(fd), writes |-> 0]
             /\ lost' = 0 /\ failed' = 0 /\ pc' = "running"
    <3>1. fd \in Objects
      BY <1>0, <1>7 DEF Phase, Lock, TypeOpen
    <3>2. ld_device_format_identity(fd) \in Identities
      BY <1>0, <3>1, IdentityType
    <3>3. handle'.bound = ld_device_format_identity(fd) /\ handle'.writes = 0
      BY <2>2
    <3>4. lost' <= handle'.writes + failed'
      BY <2>2, <3>3
    <3> QED
      BY <2>2, <3>2, <3>3, <3>4 DEF Binding
  <2> QED
    BY <1>7, <2>1, <2>2 DEF Lock
<1>8. CASE CloseTarget \/ Exit
  BY <1>3, <1>8 DEF CloseTarget, Exit, NoTarget
<1>9. ASSUME NEW n \in Nat, handle # NoHandle, handle' = [handle EXCEPT !.writes = n],
             handle.bound[1] # "number" => lost' <= n + failed', pc' = "pwrite" => n < Refresh
      PROVE  Binding'
  <2>1. handle'.bound = handle.bound /\ handle'.writes = n
    BY <1>0, <1>9 DEF TypeHost, Handles
  <2>2. handle.bound \in Identities
    BY <1>0, <1>9 DEF Binding
  <2> QED
    BY <1>9, <2>1, <2>2 DEF Binding
<1>10. ASSUME ld_device_matches_identity(fd, handle.bound), Looked, handle.bound[1] # "number"
       PROVE  lost' = 0 /\ failed' = 0
  BY <1>10, Reconfirmed DEF Looked
<1>11. CASE WriteCheck
  <2>1. handle # NoHandle /\ pc' = "pwrite"
    BY <1>11 DEF WriteCheck, Holding
  <2>2. CASE handle.writes >= Refresh
    <3>1. /\ ld_device_matches_identity(fd, handle.bound) /\ Looked
          /\ handle' = [handle EXCEPT !.writes = 0]
      BY <1>11, <2>2 DEF WriteCheck
    <3>2. handle.bound[1] # "number" => lost' <= 0 + failed'
      BY <1>10, <3>1
    <3>3. 0 \in Nat /\ 0 < Refresh
      BY HostAssumption
    <3> QED
      BY <1>9, <2>1, <3>1, <3>2, <3>3
  <2>3. CASE ~(handle.writes >= Refresh)
    <3>1. UNCHANGED <<handle, lost, failed>>
      BY <1>11, <2>3 DEF WriteCheck
    <3>2. handle.writes < Refresh
      BY <1>a, <2>3, HostAssumption
    <3> QED
      BY <1>0, <3>1, <3>2 DEF Binding
  <2> QED
    BY <2>2, <2>3
<1>12. CASE Sync
  <2>1. /\ handle # NoHandle /\ pc' # "pwrite" /\ Looked
        /\ ld_device_matches_identity(fd, handle.bound) /\ handle' = [handle EXCEPT !.writes = 0]
    BY <1>12 DEF Sync, Holding
  <2>2. handle.bound[1] # "number" => lost' <= 0 + failed'
    BY <1>10, <2>1
  <2> QED
    BY <1>9, <2>1, <2>2
<1>13. CASE Pwrite
  <2>1. handle # NoHandle /\ pc' # "pwrite"
    BY <1>0, <1>13 DEF Pwrite, Phase
  <2>2. handle.bound[1] # "number" => lost <= handle.writes + failed
    BY <1>0, <2>1 DEF Binding
  <2>3. Strayed \in Nat /\ Strayed <= lost + 1
    BY <1>a DEF Strayed
  <2>4. CASE handle' = [handle EXCEPT !.writes = handle.writes + 1] /\ lost' = Strayed /\ failed' = failed
    <3>1. handle.bound[1] # "number" => lost' <= (handle.writes + 1) + failed'
      BY <1>a, <2>2, <2>3, <2>4
    <3> QED
      BY <1>9, <1>a, <2>1, <2>4, <3>1
  <2>5. CASE failed' = failed + 1 /\ lost' \in {lost, Strayed} /\ handle' = handle
    <3>1. handle.bound[1] # "number" => lost' <= handle.writes + failed'
      BY <1>a, <2>2, <2>3, <2>5
    <3> QED
      BY <1>0, <2>1, <2>5, <3>1 DEF Binding
  <2> QED
    BY <1>13, <2>4, <2>5 DEF Pwrite
<1>14. CASE Machine /\ UNCHANGED hostVars
  <2>1. pc' = pc /\ UNCHANGED <<handle, lost, failed>>
    BY <1>14, MachineLeaves DEF varsOfOpen, hostVars
  <2> QED
    BY <1>0, <2>1 DEF Binding
<1>15. ASSUME NEW r \in Requests, EngineParse(r) \/ Reject(r)
       PROVE  Binding'
  BY <1>1, <1>15 DEF EngineParse, Reject
<1>16. ASSUME NEW modules \in Installations, ModuleFind(modules) \/ Load(modules)
       PROVE  Binding'
  BY <1>1, <1>16 DEF ModuleFind, Load
<1>17. EngineStat \/ Dispatch \/ NextOperation \/ Done \/ SaveJournal \/ RemoveJournal
         => UNCHANGED <<handle, lost, failed>> /\ pc' # "pwrite"
  BY DEF EngineStat, Dispatch, NextOperation, Done, SaveJournal, RemoveJournal, Holding,
         vars, hostVars
<1> QED
  BY <1>1, <1>4, <1>5, <1>6, <1>7, <1>8, <1>11, <1>12, <1>13, <1>14, <1>15, <1>16, <1>17 DEF Next

-----------------------------------------------------------------------------
(* Authority *)

(* The module has been loaded for the operation. *)
Serving == Opening \/ pc \in OpenPcs

(* Every mutating operation needs a module that can recover. *)
LEMMA MutationRecovers ==
  ASSUME NEW o \in Mutating
  PROVE  "recover" \in Required(o)
BY DEF Mutating, Required

LEMMA AuthorisationFrame ==
  ASSUME Authorisation, UNCHANGED <<auth, op, device, fs, loaded>>,
         pc' \notin {"request", "exited"} => pc \notin {"request", "exited"}, Serving' => Serving
  PROVE  Authorisation'
BY DEF Authorisation, Serving, Format

LEMMA AuthorisationStep ==
  ASSUME Inductive, Next
  PROVE  Authorisation'
<1>0. Phase /\ Authorisation /\ TypeOpen
  BY DEF Inductive, TypeOK
<1>1. UNCHANGED hostVars => UNCHANGED <<auth, op, device, fs, loaded>>
  BY DEF hostVars
<1>2. ASSUME NEW r \in Requests, EngineParse(r)
      PROVE  Authorisation'
  <2>1. validate_operation_args(r) /\ auth' = Authority(r)
    BY <1>2 DEF EngineParse
  <2>2. \/ pc' = "exited"
        \/ /\ op' = r.args[OperationAt(r)] /\ device' = r.args[DeviceAt(r)] /\ fs' = FilesystemOf(r)
           /\ pc' \in {"exited", "find", "stat"}
    BY <1>2 DEF EngineParse
  <2>3. pc' # "exited" => /\ op' \in Mutating /\ op' = auth'.op /\ device' = auth'.device
                          /\ (auth'.plain => fs' = auth'.fs)
    BY <2>1, <2>2, ParsersAgree
  <2> QED
    BY <2>2, <2>3 DEF Authorisation, Opening, CheckPcs, OpenPcs
<1>3. ASSUME NEW r \in Requests, Reject(r)
      PROVE  Authorisation'
  BY <1>3 DEF Reject, Authorisation, Opening, CheckPcs, OpenPcs
<1>4. ASSUME NEW modules \in Installations, ModuleFind(modules)
      PROVE  Authorisation'
  <2>1. /\ UNCHANGED <<auth, op, device, fs, loaded>> /\ pc = "find" /\ pc' \in {"stat", "exited"}
    BY <1>4 DEF ModuleFind
  <2> QED
    BY <1>0, <2>1, AuthorisationFrame DEF Serving, Opening, CheckPcs, OpenPcs
<1>5. ASSUME NEW modules \in Installations, Load(modules)
      PROVE  Authorisation'
  <2>1. /\ UNCHANGED <<auth, op, device, fs>> /\ pc = "load"
        /\ op \in Mutating /\ op = auth.op /\ device = auth.device /\ (auth.plain => fs = auth.fs)
    BY <1>0, <1>5 DEF Load, Authorisation
  <2>2. CASE pc' = "exited"
    BY <2>1, <2>2 DEF Authorisation, Opening, CheckPcs, OpenPcs
  <2>3. CASE /\ pc' = "running" /\ loaded' = modules[file] /\ Probed(modules[file])
             /\ modules[file].format = Format /\ Required(op) \subseteq modules[file].caps
    <3>1. loaded'.trusted /\ loaded'.format = Format' /\ "recover" \in loaded'.caps
      BY <2>1, <2>3, MutationRecovers DEF Probed, Format
    <3>2. loaded' # NoModule
      <4>1. NoModule.trusted = FALSE
        BY DEF NoModule
      <4> QED
        BY <3>1, <4>1, Zenon
    <3> QED
      BY <2>1, <2>3, <3>1, <3>2 DEF Authorisation
  <2> QED
    BY <1>5, <2>2, <2>3 DEF Load
<1>6. CASE EngineStat \/ Dispatch
  <2>1. /\ UNCHANGED <<auth, op, device, fs, loaded>> /\ pc \in {"stat", "dispatch"}
        /\ pc' \in {"mounted", "exited", "load"}
    BY <1>6 DEF EngineStat, Dispatch
  <2> QED
    BY <1>0, <2>1, AuthorisationFrame DEF Serving, Opening, CheckPcs, OpenPcs
<1>7. CASE NextOperation
  BY <1>7 DEF NextOperation, Authorisation, Opening, CheckPcs, OpenPcs
<1>8. CASE EngineMounted \/ EngineSystem
  <2>1. UNCHANGED <<auth, op, device, fs, loaded>> /\ pc \in {"mounted", "system"}
    BY <1>1, <1>8 DEF EngineMounted, EngineSystem
  <2>2. \/ pc' \in {"exited", "dispatch"}
        \/ (pc' \in {"walk", "source"} /\ ret' \in {"system", "dispatch"})
    BY <1>8 DEF EngineMounted, EngineSystem, StartCheck, Died, Leave
  <2>3. ~Serving'
    BY <2>2 DEF Serving, Opening, CheckPcs, OpenPcs
  <2> QED
    BY <1>0, <2>1, <2>3, AuthorisationFrame
<1>9. CASE Check /\ UNCHANGED hostVars
  <2>1. UNCHANGED <<auth, op, device, fs, loaded>> /\ pc \in CheckPcs /\ ret # "none"
    BY <1>0, <1>1, <1>9, CheckSteps DEF Phase
  <2>2. ret \in {"system", "dispatch", "open", "accept"}
    BY <1>0, <2>1 DEF TypeOpen
  <2>3. \/ pc' = "exited" \/ (pc' = "running" /\ ret \notin {"system", "dispatch"})
        \/ (pc' \in CheckPcs \cup {ret} /\ ret' = ret)
    BY <1>9, CheckSteps DEF Leave, Preflight
  <2>4. Serving' => Serving
    BY <2>1, <2>2, <2>3 DEF Serving, Opening, CheckPcs, OpenPcs
  <2> QED
    BY <1>0, <2>1, <2>4, AuthorisationFrame DEF CheckPcs
<1>10. CASE (Open \/ Accept) /\ UNCHANGED hostVars
  <2>1. UNCHANGED <<auth, op, device, fs, loaded>> /\ pc \in {"open", "accept"}
    BY <1>1, <1>10 DEF Open, Accept
  <2> QED
    BY <1>0, <2>1, AuthorisationFrame DEF Serving, OpenPcs
<1>11. CASE OpenTarget \/ Lock \/ SaveJournal \/ RemoveJournal \/ WriteCheck
            \/ Pwrite \/ Sync \/ CloseTarget
  <2>1. UNCHANGED <<auth, op, device, fs, loaded>> /\ pc \in {"running", "lock", "pwrite"}
    BY <1>1, <1>11 DEF OpenTarget, TryOpen, Lock, SaveJournal, RemoveJournal, WriteCheck,
                       Pwrite, Sync, CloseTarget, NoTarget, Holding
  <2> QED
    BY <1>0, <2>1, AuthorisationFrame DEF Serving, OpenPcs
<1>12. CASE Exit
  <2>1. UNCHANGED <<auth, op, device, fs, loaded>> /\ pc' = "exited"
    BY <1>12 DEF Exit, NoTarget, Leave
  <2> QED
    BY <1>0, <2>1, AuthorisationFrame DEF Serving, Opening, CheckPcs, OpenPcs
<1>13. CASE UNCHANGED <<auth, op, device, fs, loaded, pc, ret>>
  BY <1>0, <1>13, AuthorisationFrame DEF Serving, Opening
<1>14. CASE Machine /\ UNCHANGED hostVars
  BY <1>1, <1>13, <1>14, MachineLeaves DEF varsOfOpen
<1>15. CASE Done
  BY <1>1, <1>13, <1>15 DEF Done, vars, deviceVars, checkVars
<1> QED
  BY <1>2, <1>3, <1>4, <1>5, <1>6, <1>7, <1>8, <1>9, <1>10, <1>11, <1>12, <1>14, <1>15, ZenonT(60) DEF Next

-----------------------------------------------------------------------------
(* The theorems *)

LEMMA InductiveInit == Init => Inductive
<1> SUFFICES ASSUME Init PROVE Inductive
  OBVIOUS
<1>0. /\ uses = {} /\ assembled \in SUBSET Stacked /\ backing = Nothing /\ path \in Targets
      /\ medium \in Media /\ rival = Nothing
  BY Zenon DEF Init, InitMachine
<1>1. loopNamed \in BOOLEAN /\ blk \in BOOLEAN
  BY Zenon DEF Init, InitMachine
<1>2. events = MaxEvents /\ lost = 0 /\ failed = 0 /\ runs = MaxRuns
  BY Zenon DEF Init, InitMachine
<1>3. /\ mode = "none" /\ ret = "none" /\ obj = Nothing /\ fd = Nothing /\ excl = Nothing /\ lock = Nothing
      /\ want = Nothing /\ expected = Nothing /\ since = {} /\ unread = {}
  BY Zenon DEF Init, InitOpen
<1>4. related = << >> /\ scan = 0
  BY Zenon DEF Init, InitOpen
<1>5. /\ pc = "request" /\ auth = Nobody /\ op = "" /\ fs = "" /\ file = "" /\ loaded = NoModule
      /\ handle = NoHandle /\ journal = Nothing
  BY Zenon DEF Init
<1>6. /\ events \in 0 .. MaxEvents /\ lost \in 0 .. MaxLost /\ failed \in 0 .. MaxFailures
      /\ runs \in 0 .. MaxRuns
  BY <1>2, LimitsAssumption, HostAssumption DEF MaxLost
<1>7. TypeMachine
  BY <1>0, <1>1, <1>6 DEF TypeMachine
<1>8. TypeOpen
  <2>1. /\ related \in Seq([dev : Devices, exact : BOOLEAN])
        /\ Len(related) <= MaxRelated /\ scan \in 0 .. Len(related) + 1
    BY <1>4, LimitsAssumption
  <2> QED
    BY <1>3, <2>1 DEF TypeOpen
<1>9. TypeOK
  <2>1. handle \in Handles /\ journal \in Identities \cup {Nothing}
    BY <1>5, HandleTypes
  <2>2. (handle # NoHandle) <=> (lock # Nothing)
    BY <1>3, <1>5
  <2>3. op \in Mutating \cup {""} /\ file \in Files \cup {""}
    BY <1>5
  <2> QED
    BY <1>1, <1>6, <1>7, <1>8, <2>1, <2>2, <2>3, Zenon DEF TypeOK, Handles
<1>10. Nothing \notin Devices
  BY TopologyAssumption, Zenon DEF Objects
<1>11. Phase
  <2>1. runs > 0
    BY <1>2, HostAssumption
  <2> QED
    BY <1>3, <1>5, <1>10, <2>1 DEF Phase, Pcs, CheckPcs, OpenPcs
<1>12. Claims
  <2>1. Built(assembled)
    BY Zenon DEF Init, InitMachine
  <2> QED
    BY <1>0, <1>3, <1>10, <2>1 DEF Claims
<1>13. OneWriter /\ Binding /\ Authorisation
  BY <1>2, <1>3, <1>5 DEF OneWriter, Binding, Authorisation, Opening, CheckPcs, OpenPcs
<1> QED
  BY <1>9, <1>11, <1>12, <1>13 DEF Inductive

(* The inductive invariant is kept by every step of the operation and of the machine. *)
LEMMA InductiveStep == Inductive /\ [Next]_vars => Inductive'
<1>1. ASSUME Inductive, Next PROVE Inductive'
  <2>1. TypeMachine'
    <3>0. TypeMachine
      BY <1>1 DEF Inductive, TypeOK
    <3>1. CASE Machine
      BY <3>0, <3>1, TypeMachineStep
    <3>2. CASE UNCHANGED machineVars
      BY <3>0, <3>2 DEF machineVars, TypeMachine
    <3>3. Check \/ Open \/ Accept \/ EngineMounted \/ EngineSystem \/ OpenTarget \/ Lock \/ CloseTarget
            \/ Exit => UNCHANGED machineVars
      BY CheckSteps DEF Open, Accept, EngineMounted, EngineSystem, OpenTarget, TryOpen, Lock,
                       CloseTarget, Exit
    <3>4. Quiet => UNCHANGED machineVars
      BY DEF Quiet
    <3> QED
      BY <1>1, <3>1, <3>2, <3>3, <3>4, QuietSteps DEF Next
  <2>2. TypeOpen' /\ TypeHost' /\ ((handle # NoHandle) <=> (lock # Nothing))'
    BY <1>1, TypeOpenStep, TypeHostStep, HandleStep
  <2>3. TypeOK'
    BY <2>1, <2>2, Zenon DEF TypeOK, TypeHost, Handles
  <2> QED
    BY <1>1, <2>3, PhaseStep, ClaimsStep, OneWriterStep, BindingStep, AuthorisationStep DEF Inductive
<1>2. ASSUME Inductive, UNCHANGED vars PROVE Inductive'
  <2>1. UNCHANGED <<machineVars, checkVars, openVars, hostVars, pc>>
    BY <1>2 DEF vars, deviceVars
  <2> USE <1>2, <2>1 DEF Inductive, machineVars, checkVars, openVars, hostVars
  <2>0. UNCHANGED <<uses, assembled, backing, loopNamed, path, medium, rival, events>>
        /\ UNCHANGED <<mode, ret, obj, related, scan, since, unread, expected, fd, excl, lock, want>>
        /\ UNCHANGED <<op, blk, file, handle, journal, lost, failed, runs>>
    BY Zenon
  <2>1a. TypeMachine /\ TypeOpen
    BY DEF TypeOK
  <2>1b. TypeMachine'
    BY <2>0, <2>1a DEF TypeMachine
  <2>1c. TypeOpen'
    BY <2>0, <2>1a DEF TypeOpen
  <2>2. TypeOK'
    BY <2>0, <2>1b, <2>1c, Zenon DEF TypeOK
  <2>3. Phase' /\ OneWriter'
    BY DEF Phase, OneWriter
  <2>4. Claims'
    BY DEF Claims, Present
  <2>5. Binding'
    BY DEF Binding
  <2>6. Authorisation'
    BY DEF Authorisation, Opening, Format
  <2> QED
    BY <2>2, <2>3, <2>4, <2>5, <2>6
<1> QED
  BY <1>1, <1>2

(* Every reachable state satisfies the inductive invariant, for every machine, *)
(* every number of its changes, and every list of requests.                    *)
THEOREM OperationInvariance == Spec => []Inductive
<1> QED
  BY InductiveInit, InductiveStep, PTL DEF Spec

(* The variables of ld_device.c, operation_engine.cpp and                      *)
(* filesystem_module_host.c keep their types; in particular the walk of        *)
(* related devices stays inside its table.                                     *)
THEOREM OperationTypes == Spec => []TypeOK
<1>1. Inductive => TypeOK
  BY DEF Inductive
<1> QED
  BY <1>1, OperationInvariance, PTL

(* The object ld_device_try_open hands out is the one it checked; no device    *)
(* that shares a sector with it is mounted or used as swap while it is open,   *)
(* through partitions and any depth of stacked devices; and no other process   *)
(* of this program holds its lock.                                             *)
THEOREM TargetExclusive == Spec => []TargetIsOurs
<1>1. Inductive => TargetIsOurs
  <2> SUFFICES ASSUME Inductive PROVE TargetIsOurs
    OBVIOUS
  <2>1. WritesCheckedObject /\ OneWriter
    BY DEF Inductive, Phase, WritesCheckedObject
  <2>2. ExclusiveTarget
    <3> SUFFICES ASSUME fd \in Devices PROVE \A u \in uses : ~Overlaps(u.on, fd)
      BY DEF ExclusiveTarget
    <3>1. excl = fd
      BY DEF Inductive, Phase
    <3> QED
      BY <3>1, ClaimsExclude DEF Inductive, TypeOK
  <2> QED
    BY <2>1, <2>2 DEF TargetIsOurs
<1> QED
  BY <1>1, OperationInvariance, PTL

(* After an exchange under an open target, target_write and a failing write    *)
(* spend at most Refresh writes that succeed, and those that fail, on a medium *)
(* the bound identity does not describe; of media it describes alike, and of a *)
(* bare device number, nothing is said.                                        *)
THEOREM LossBounded == Spec => []LostWritesBounded
<1>1. Inductive => LostWritesBounded
  <2> SUFFICES ASSUME Inductive, handle # NoHandle, handle.bound[1] # "number"
               PROVE  lost <= Refresh + failed
    BY DEF LostWritesBounded
  <2>1. lost <= handle.writes + failed
    BY DEF Inductive, Binding
  <2> QED
    BY <2>1, CountsTyped, HostAssumption
<1> QED
  BY <1>1, OperationInvariance, PTL

(* The engine runs the operation on the device that validate_operation_args    *)
(* read from the same list by other rules, whatever stands for a value in it,  *)
(* and for the filesystem it read unless such a value is spelled as the option *)
(* that names one.                                                             *)
THEOREM Authorised == Spec => []RunsAuthorised
<1>1. Inductive => RunsAuthorised
  BY DEF Inductive, Authorisation, RunsAuthorised
<1> QED
  BY <1>1, OperationInvariance, PTL

(* The module ifs_filesystem_module_run serves is trusted, of the format asked *)
(* for and able to recover, although the directory may change at every look.   *)
THEOREM RightModule == Spec => []RunsRightModule
<1>1. Inductive => RunsRightModule
  BY DEF Inductive, Authorisation, RunsRightModule, OpenPcs
<1> QED
  BY <1>1, OperationInvariance, PTL
=============================================================================
