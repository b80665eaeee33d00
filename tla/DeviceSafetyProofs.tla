------------------------- MODULE DeviceSafetyProofs -------------------------
(***************************************************************************)
(* Facts about the storage of a machine, for any number of disks,          *)
(* partitions and stacked devices.  The kernel keeps claims apart by name: *)
(* a claim excludes one on the same device, on its disk and on its         *)
(* partitions.  The lemmas show that this keeps the claims apart by        *)
(* sectors as well, through any depth of stacking.                         *)
(***************************************************************************)
EXTENDS DeviceSafety, FiniteSetTheorems, WellFoundedInduction, TLAPS

(* No device of the stack has taken d, its disk or a partition of it for a slave. *)
Free(stack, d) == \A s \in stack : Slaves[s] \cap Contends(d) = {}

(* To contend is mutual. *)
LEMMA ContendsMutual ==
  ASSUME NEW d \in Devices, NEW e \in Contends(d)
  PROVE  d \in Contends(e) /\ e \in Devices
BY TopologyAssumption DEF Contends, Children, Devices

(* On the bare disks only a disk and its own partitions share sectors. *)
LEMMA DisksApart ==
  ASSUME NEW d \in Devices, NEW e \in Devices, PresentIn({}, d), PresentIn({}, e),
         Extent[d] \cap Extent[e] # {}
  PROVE  e \in Contends(d)
<1> DEFINE root(x) == IF x \in Parts THEN Parent[x] ELSE x
<1>1. ASSUME NEW x \in Devices, PresentIn({}, x)
      PROVE  root(x) \in Disks /\ Extent[x] \subseteq Extent[root(x)]
  BY <1>1, TopologyAssumption, GeometryAssumption DEF PresentIn, Devices
<1>2. root(d) \in Disks /\ root(e) \in Disks /\ Extent[root(d)] \cap Extent[root(e)] # {}
  BY <1>1
<1>3. root(d) = root(e)
  BY <1>2, GeometryAssumption
<1>4. CASE d \in Parts /\ e \in Parts
  BY <1>3, <1>4, GeometryAssumption DEF Contends
<1>5. CASE d \notin Parts \/ e \notin Parts
  BY <1>3, <1>5 DEF Contends, Children
<1> QED
  BY <1>4, <1>5

(* What stays when the top device of a stack is taken away. *)
LEMMA BuiltBelow ==
  ASSUME NEW A \in SUBSET Stacked, Built(A), NEW s \in A,
         \A t \in A : Slaves[t] \cap ({s} \cup Children(s)) = {}
  PROVE  /\ Built(A \ {s})
         /\ \A d \in Devices : PresentIn(A, d) /\ d \notin {s} \cup Children(s) => PresentIn(A \ {s}, d)
<1>1. ASSUME NEW d \in Devices, PresentIn(A, d), d \notin {s} \cup Children(s)
      PROVE  PresentIn(A \ {s}, d)
  BY <1>1 DEF PresentIn, Children
<1>2. ASSUME NEW t \in A \ {s}, NEW d \in Slaves[t]
      PROVE  /\ PresentIn(A \ {s}, d)
             /\ \A u \in A \ {s} : \A e \in Slaves[u] : e \in Contends(d) => u = t
  <2>1. d \in Devices /\ d \notin {s} \cup Children(s)
    BY <1>2, TopologyAssumption
  <2> QED
    BY <1>1, <1>2, <2>1 DEF Built
<1> QED
  BY <1>1, <1>2 DEF Built

(* One more device on top of a stack in which the claim holds. *)
LEMMA OneMoreOnTop ==
  ASSUME NEW A \in SUBSET Stacked, Built(A), NEW s \in A,
         \A t \in A : Slaves[t] \cap ({s} \cup Children(s)) = {},
         \A d, e \in Devices :
           /\ PresentIn(A \ {s}, d) /\ PresentIn(A \ {s}, e)
           /\ Free(A \ {s}, d) /\ Free(A \ {s}, e) /\ Extent[d] \cap Extent[e] # {}
           => e \in Contends(d)
  PROVE  \A d, e \in Devices :
           /\ PresentIn(A, d) /\ PresentIn(A, e)
           /\ Free(A, d) /\ Free(A, e) /\ Extent[d] \cap Extent[e] # {}
           => e \in Contends(d)
<1> DEFINE New == {s} \cup Children(s)
<1>1. ASSUME NEW d \in New, NEW e \in Devices, PresentIn(A, e), Free(A, e), e \notin New,
             Extent[d] \cap Extent[e] # {}
      PROVE  FALSE
  <2>1. PICK x : x \in Extent[d] /\ x \in Extent[e]
    BY <1>1
  <2>2. x \in Extent[s]
    BY <2>1, GeometryAssumption DEF Children
  <2>3. PICK c \in Slaves[s] : x \in Extent[c]
    BY <2>2, GeometryAssumption
  <2>4. c \in Devices /\ PresentIn(A, c) /\ c \notin New
    BY TopologyAssumption DEF Built
  <2>5. PresentIn(A \ {s}, c) /\ PresentIn(A \ {s}, e)
    BY <2>4, <1>1, BuiltBelow
  <2>6. Free(A \ {s}, c)
    <3> SUFFICES ASSUME NEW t \in A \ {s}, NEW f \in Slaves[t], f \in Contends(c) PROVE FALSE
      BY DEF Free
    <3> QED
      BY DEF Built
  <2>7. Free(A \ {s}, e)
    BY <1>1 DEF Free
  <2>8. e \in Contends(c)
    BY <2>1, <2>3, <2>4, <2>5, <2>6, <2>7
  <2>9. c \in Contends(e)
    BY <2>4, <2>8, ContendsMutual
  <2> QED
    BY <2>3, <2>9, <1>1 DEF Free
<1>2. SUFFICES ASSUME NEW d \in Devices, NEW e \in Devices, PresentIn(A, d), PresentIn(A, e),
                      Free(A, d), Free(A, e), Extent[d] \cap Extent[e] # {}
               PROVE  e \in Contends(d)
  OBVIOUS
<1>3. CASE d \notin New /\ e \notin New
  <2>1. PresentIn(A \ {s}, d) /\ PresentIn(A \ {s}, e)
    BY <1>2, <1>3, BuiltBelow
  <2>2. Free(A \ {s}, d) /\ Free(A \ {s}, e)
    BY <1>2 DEF Free
  <2> QED
    BY <1>2, <2>1, <2>2
<1>4. CASE d \in New /\ e \in New
  BY <1>2, <1>4, TopologyAssumption, GeometryAssumption DEF Contends, Children
<1> QED
  BY <1>1, <1>2, <1>3, <1>4

(* Two devices that share a sector and that nothing is stacked on are a disk   *)
(* and a partition of it, or the same: by induction on the set of stacked      *)
(* devices, stated with a smallest counterexample.                             *)
THEOREM SharedSectors ==
  ASSUME NEW A \in SUBSET Stacked, Built(A), NEW d \in Devices, NEW e \in Devices,
         PresentIn(A, d), PresentIn(A, e), Free(A, d), Free(A, e),
         Extent[d] \cap Extent[e] # {}
  PROVE  e \in Contends(d)
<1> DEFINE Claim(B) == \A x, y \in Devices :
                         /\ PresentIn(B, x) /\ PresentIn(B, y)
                         /\ Free(B, x) /\ Free(B, y) /\ Extent[x] \cap Extent[y] # {}
                         => y \in Contends(x)
           Bad == {B \in SUBSET Stacked : Built(B) /\ ~Claim(B)}
<1>1. Bad = {}
  <2>1. SUFFICES ASSUME Bad # {} PROVE FALSE
    OBVIOUS
  <2>2. IsFiniteSet(Stacked)
    BY TopologyAssumption, FS_Subset DEF Devices
  <2>3. IsWellFoundedOn(StrictSubsetOrdering(Stacked), SUBSET Stacked)
    BY <2>2, FS_StrictSubsetOrderingWellFounded, FS_FiniteSubsetsOfFinite
  <2>4. PICK B \in Bad : \A C \in Bad : <<C, B>> \notin StrictSubsetOrdering(Stacked)
    <3>1. Bad \subseteq SUBSET Stacked
      OBVIOUS
    <3> HIDE DEF Bad
    <3> QED
      BY <2>1, <2>3, <3>1, WFMin
  <2>5. \A C \in SUBSET Stacked : C \subseteq B /\ C # B /\ Built(C) => Claim(C)
    <3> TAKE C \in SUBSET Stacked
    <3> HAVE C \subseteq B /\ C # B /\ Built(C)
    <3>1. <<C, B>> \in StrictSubsetOrdering(Stacked)
      BY <2>4 DEF StrictSubsetOrdering
    <3>2. C \notin Bad
      BY <2>4, <3>1
    <3> HIDE DEF Claim
    <3> QED
      BY <3>2
  <2>6. CASE B = {}
    <3>1. Claim(B)
      BY <2>6, DisksApart
    <3> HIDE DEF Claim
    <3> QED
      BY <3>1, <2>4
  <2>7. CASE B # {}
    <3>1. PICK s \in B : \A t \in B : Slaves[t] \cap ({s} \cup Children(s)) = {}
      BY <2>7, <2>4, StackingAssumption
    <3>2. Built(B) /\ B \in SUBSET Stacked
      BY <2>4
    <3>3. Built(B \ {s})
      BY <3>1, <3>2, BuiltBelow
    <3>4. Claim(B \ {s})
      <4> HIDE DEF Claim
      <4> QED
        BY <3>2, <3>3, <2>5
    <3>5. Claim(B)
      BY <3>1, <3>2, <3>4, OneMoreOnTop
    <3> HIDE DEF Claim
    <3> QED
      BY <3>5, <2>4
  <2> QED
    BY <2>6, <2>7
<1>2. Claim(A)
  <2> HIDE DEF Claim
  <2> QED
    BY <1>1
<1> QED
  BY <1>2

-----------------------------------------------------------------------------
(* The list of related devices keeps its type and only grows. *)

Entry == [dev : Devices, exact : BOOLEAN]

(* What is in a list. *)
LEMMA EntryAt ==
  ASSUME NEW l \in Seq(Entry), NEW i \in DOMAIN l
  PROVE  l[i] \in Entry /\ l[i].dev \in Devices /\ l[i].exact \in BOOLEAN
<1>1. i \in 1 .. Len(l)
  OBVIOUS
<1>2. l[i] \in Entry
  BY <1>1
<1> QED
  BY <1>2 DEF Entry

(* An entry that may become exact. *)
LEMMA EntryUpgrade ==
  ASSUME NEW r \in Entry, NEW b \in BOOLEAN
  PROVE  [r EXCEPT !.exact = b] \in Entry
BY DEF Entry

(* A list changed entry by entry. *)
LEMMA EntryMap ==
  ASSUME NEW l \in Seq(Entry), NEW m, m = [i \in DOMAIN l |-> m[i]], \A i \in DOMAIN l : m[i] \in Entry
  PROVE  m \in Seq(Entry) /\ Len(m) = Len(l)
<1>1. DOMAIN l = 1 .. Len(l) /\ Len(l) \in Nat
  OBVIOUS
<1>2. m \in [1 .. Len(l) -> Entry]
  BY <1>1
<1> QED
  BY <1>1, <1>2

(* A node of sysfs that is added. *)
LEMMA AddGrows ==
  ASSUME NEW l \in Seq(Entry), NEW d \in Devices, NEW exact \in BOOLEAN
  PROVE  /\ ld_add_related_device(l, d, exact) \in Seq(Entry)
         /\ Len(ld_add_related_device(l, d, exact)) >= Len(l)
<1>1. CASE \E i \in DOMAIN l : l[i].dev = d
  <2> DEFINE m == [i \in DOMAIN l |->
                    IF l[i].dev = d /\ exact THEN [l[i] EXCEPT !.exact = TRUE] ELSE l[i]]
  <2>1. ld_add_related_device(l, d, exact) = m
    BY <1>1 DEF ld_add_related_device
  <2>2. m = [i \in DOMAIN l |-> m[i]] /\ \A i \in DOMAIN l : m[i] \in Entry
    <3>1. m = [i \in DOMAIN l |-> m[i]]
      OBVIOUS
    <3>2. ASSUME NEW i \in DOMAIN l
          PROVE  m[i] \in Entry
      <4>1. l[i] \in Entry /\ [l[i] EXCEPT !.exact = TRUE] \in Entry
        BY EntryAt, EntryUpgrade
      <4>2. m[i] = IF l[i].dev = d /\ exact THEN [l[i] EXCEPT !.exact = TRUE] ELSE l[i]
        OBVIOUS
      <4> QED
        BY <4>1, <4>2
    <3> QED
      BY <3>1, <3>2
  <2>3. m \in Seq(Entry) /\ Len(m) = Len(l)
    BY <2>2, EntryMap
  <2> HIDE DEF m
  <2> QED
    BY <2>1, <2>3
<1>2. CASE ~ \E i \in DOMAIN l : l[i].dev = d
  <2>1. ld_add_related_device(l, d, exact) = Append(l, [dev |-> d, exact |-> exact])
    BY <1>2 DEF ld_add_related_device
  <2>2. [dev |-> d, exact |-> exact] \in Entry
    BY DEF Entry
  <2> QED
    BY <2>1, <2>2
<1> QED
  BY <1>1, <1>2

(* A directory of sysfs that is read. *)
LEMMA CollectGrows ==
  ASSUME NEW l \in Seq(Entry), NEW entries \in SUBSET Devices,
         NEW m \in ld_collect_sysfs_directory(l, entries)
  PROVE  m \in Seq(Entry) /\ Len(m) >= Len(l)
<1> DEFINE rest == entries \ Listed(l)
           old == [i \in DOMAIN l |-> [l[i] EXCEPT !.exact = @ \/ l[i].dev \in entries]]
<1>1. PICK new \in SetToSeqs(rest) :
        m = old \o [i \in DOMAIN new |-> [dev |-> new[i], exact |-> TRUE]]
  BY DEF ld_collect_sysfs_directory
<1> DEFINE more == [i \in DOMAIN new |-> [dev |-> new[i], exact |-> TRUE]]
<1>2. old \in Seq(Entry) /\ Len(old) = Len(l)
  <2>1. old = [i \in DOMAIN l |-> old[i]]
    OBVIOUS
  <2>2. \A i \in DOMAIN l : old[i] \in Entry
    <3> TAKE i \in DOMAIN l
    <3>1. l[i] \in Entry /\ l[i].exact \in BOOLEAN
      BY EntryAt
    <3>2. old[i] = [l[i] EXCEPT !.exact = l[i].exact \/ l[i].dev \in entries]
      OBVIOUS
    <3>3. (l[i].exact \/ l[i].dev \in entries) \in BOOLEAN
      OBVIOUS
    <3> QED
      BY <3>1, <3>2, <3>3, EntryUpgrade
  <2> HIDE DEF old
  <2> QED
    BY <2>1, <2>2, EntryMap
<1>3. Cardinality(rest) \in Nat
  <2>1. IsFiniteSet(rest)
    BY TopologyAssumption, FS_Subset
  <2> QED
    BY <2>1, FS_CardinalityType
<1>4. new \in [1 .. Cardinality(rest) -> rest]
  BY <1>1 DEF SetToSeqs
<1>5. more \in Seq(Entry)
  <2>1. \A i \in 1 .. Cardinality(rest) : [dev |-> new[i], exact |-> TRUE] \in Entry
    BY <1>4 DEF Entry
  <2>2. more = [i \in 1 .. Cardinality(rest) |-> [dev |-> new[i], exact |-> TRUE]]
    BY <1>4
  <2>3. more \in [1 .. Cardinality(rest) -> Entry]
    BY <2>1, <2>2
  <2> HIDE DEF more
  <2> DEFINE n == Cardinality(rest)
  <2>4. n \in Nat /\ more \in [1 .. n -> Entry]
    BY <1>3, <2>3
  <2> HIDE DEF n
  <2> QED
    BY <2>4
<1>6. m = old \o more
  BY <1>1
<1> HIDE DEF old, more
<1>7. Len(more) \in Nat /\ Len(l) \in Nat
  BY <1>5
<1>8. old \o more \in Seq(Entry) /\ Len(old \o more) = Len(old) + Len(more)
  BY <1>2, <1>5
<1> QED
  BY <1>6, <1>2, <1>7, <1>8

(* One node visited by ld_collect_related_devices. *)
LEMMA ScanGrows ==
  ASSUME NEW l \in Seq(Entry), NEW i \in DOMAIN l, assembled \subseteq Stacked, NEW m \in ScanNode(l, i)
  PROVE  m \in Seq(Entry) /\ Len(m) >= Len(l)
<1> DEFINE d == l[i].dev
           up == ld_add_partition_parent_device(l, d)
           first == Collected({up}, Holders(d))
           across == Collected(first, SlavesOf(d))
<1>1. d \in Devices
  BY EntryAt
<1>2. Holders(d) \subseteq Devices /\ SlavesOf(d) \subseteq Devices /\ Children(d) \subseteq Devices
  BY TopologyAssumption DEF Holders, SlavesOf, Children, Devices
<1>3. up \in Seq(Entry) /\ Len(up) >= Len(l)
  <2>1. CASE d \in Parts
    <3>1. Parent[d] \in Devices
      BY <2>1, TopologyAssumption DEF Devices
    <3> HIDE DEF d
    <3> QED
      BY <2>1, <3>1, AddGrows DEF ld_add_partition_parent_device
  <2>2. CASE d \notin Parts
    BY <2>2 DEF ld_add_partition_parent_device
  <2> QED
    BY <2>1, <2>2
<1> HIDE DEF up, d
<1>4. ASSUME NEW k \in first
      PROVE  k \in Seq(Entry) /\ Len(k) >= Len(l)
  <2>1. k \in ld_collect_sysfs_directory(up, Holders(d))
    BY <1>4 DEF Collected
  <2> QED
    BY <2>1, <1>2, <1>3, CollectGrows
<1> HIDE DEF first
<1>5. ASSUME NEW k \in across
      PROVE  k \in Seq(Entry) /\ Len(k) >= Len(l)
  <2>1. PICK j \in first : k \in ld_collect_sysfs_directory(j, SlavesOf(d))
    BY <1>5 DEF Collected
  <2>2. k \in Seq(Entry) /\ Len(k) >= Len(j)
    BY <2>1, <1>2, <1>4, CollectGrows
  <2> QED
    BY <2>2, <1>4
<1> HIDE DEF across
<1>6. PICK k \in across : m \in ld_collect_sysfs_directory(k, IF k[i].exact THEN Children(d) ELSE {})
  BY DEF ScanNode, across, first, up, d
<1>7. m \in Seq(Entry) /\ Len(m) >= Len(k)
  BY <1>6, <1>5, <1>2, CollectGrows
<1> QED
  BY <1>5, <1>7

-----------------------------------------------------------------------------
(* The claims on the machine: what is stacked was claimed, and the devices in  *)
(* use and the target are there, with nothing stacked on them, and apart.      *)
Claims ==
  /\ Built(assembled)
  /\ \A u \in uses : u.on \in Devices => Present(u.on) /\ Free(assembled, u.on)
  /\ excl \in Devices => /\ Present(excl) /\ Free(assembled, excl)
                         /\ \A u \in uses : u.on \notin Contends(excl)

(* A claim the kernel grants is on a free device that contends with no other. *)
LEMMA Granted ==
  ASSUME TypeMachine, NEW d \in Devices, Claimable(d)
  PROVE  /\ Present(d) /\ Free(assembled, d)
         /\ \A u \in uses : u.on \notin Contends(d)
         /\ \A s \in assembled : \A e \in Slaves[s] : e \notin Contends(d)
         /\ excl \in Devices => excl \notin Contends(d)
<1>1. Present(d) /\ \A c \in Claimed : c \notin Contends(d)
  BY DEF Claimable
<1>2. \A u \in uses : u.on \in Claimed
  BY DEF Claimed
<1>3. \A s \in assembled : \A e \in Slaves[s] : e \in Claimed
  BY DEF Claimed
<1>4. excl \in Devices => excl \in Claimed
  BY DEF Claimed
<1> QED
  BY <1>1, <1>2, <1>3, <1>4 DEF Free

(* A device is taken into use: nothing else about the machine changes. *)
LEMMA ClaimsUse ==
  ASSUME TypeMachine, Claims, NEW u \in Uses, Use(u)
  PROVE  Claims'
<1>1. uses' = uses \cup {u} /\ assembled' = assembled /\ excl' = excl
  BY DEF Use, varsOfOpen, openVars
<1>2. ASSUME u.on \in Devices
      PROVE  Present(u.on) /\ Free(assembled, u.on) /\ (excl \in Devices => excl \notin Contends(u.on))
  BY <1>2, Granted DEF Use
<1>3. ASSUME excl \in Devices, u.on \in Contends(excl)
      PROVE  FALSE
  BY <1>2, <1>3, ContendsMutual
<1> QED
  BY <1>1, <1>2, <1>3 DEF Claims, Present

(* A stacked device appears over slaves that were free. *)
LEMMA ClaimsAssemble ==
  ASSUME TypeMachine, Claims, NEW s \in Stacked, Assemble(s)
  PROVE  Claims'
<1>1. /\ uses' = uses /\ assembled' = assembled \cup {s} /\ excl' = excl
      /\ s \notin assembled /\ \A d \in Slaves[s] : Claimable(d)
  BY DEF Assemble, varsOfOpen, openVars
<1>2. \A d \in Devices : Present(d) => PresentIn(assembled', d)
  BY <1>1 DEF Present, PresentIn
<1>3. \A d \in Slaves[s] : d \in Devices
  BY TopologyAssumption
<1>4. ASSUME NEW d \in Devices, Free(assembled, d), \A f \in Slaves[s] : d \notin Contends(f)
      PROVE  Free(assembled', d)
  <2> SUFFICES ASSUME NEW f \in Slaves[s], f \in Contends(d) PROVE FALSE
    BY <1>1, <1>4 DEF Free
  <2> QED
    BY <1>4, ContendsMutual
<1>5. ASSUME NEW d \in Slaves[s]
      PROVE  /\ Present(d)
             /\ \A u \in uses : u.on \notin Contends(d)
             /\ \A t \in assembled : \A e \in Slaves[t] : e \notin Contends(d)
             /\ excl \in Devices => excl \notin Contends(d)
  BY <1>1, <1>3, Granted
<1>6. Built(assembled')
  <2> SUFFICES ASSUME NEW t \in assembled', NEW d \in Slaves[t]
               PROVE  /\ PresentIn(assembled', d)
                      /\ \A v \in assembled' : \A e \in Slaves[v] : e \in Contends(d) => v = t
    BY DEF Built
  <2>1. d \in Devices
    BY <1>1, TopologyAssumption DEF TypeMachine
  <2>2. PresentIn(assembled', d)
    BY <1>1, <1>2, <1>5, <2>1 DEF Claims, Built, Present
  <2>3. ASSUME NEW v \in assembled', NEW e \in Slaves[v], e \in Contends(d)
        PROVE  v = t
    <3>1. d \in Contends(e)
      BY <2>1, <2>3, ContendsMutual
    <3>2. CASE v = s
      BY <1>1, <1>5, <3>1, <3>2
    <3>3. CASE t = s
      BY <1>1, <1>5, <2>3, <3>3
    <3>4. CASE v \in assembled /\ t \in assembled
      BY <2>3, <3>4 DEF Claims, Built
    <3> QED
      BY <1>1, <3>2, <3>3, <3>4
  <2> QED
    BY <2>2, <2>3
<1>7. ASSUME NEW u \in uses, u.on \in Devices
      PROVE  PresentIn(assembled', u.on) /\ Free(assembled', u.on)
  BY <1>2, <1>4, <1>5, <1>7 DEF Claims
<1>8. ASSUME excl \in Devices
      PROVE  PresentIn(assembled', excl) /\ Free(assembled', excl)
  <2>1. Present(excl) /\ Free(assembled, excl)
    BY <1>8 DEF Claims
  <2>2. \A f \in Slaves[s] : excl \notin Contends(f)
    BY <1>5, <1>8
  <2> QED
    BY <1>2, <1>4, <1>8, <2>1, <2>2
<1> QED
  BY <1>1, <1>6, <1>7, <1>8 DEF Claims, Present

(* A stacked device disappears only when neither it nor a partition of it is claimed. *)
LEMMA ClaimsDisassemble ==
  ASSUME TypeMachine, Claims, NEW s \in Stacked, Disassemble(s)
  PROVE  Claims'
<1>1. /\ uses' = uses /\ assembled' = assembled \ {s} /\ excl' = excl /\ Claimable(s)
  BY DEF Disassemble, varsOfOpen, openVars
<1>2. \A d \in Devices : Present(d) /\ d \notin Contends(s) => PresentIn(assembled', d)
  BY <1>1, TopologyAssumption DEF Present, PresentIn, Contends, Children
<1>3. \A d \in Devices : Free(assembled, d) => Free(assembled', d)
  BY <1>1 DEF Free
<1>4. /\ \A u \in uses : u.on \notin Contends(s)
      /\ \A t \in assembled : \A e \in Slaves[t] : e \notin Contends(s)
      /\ excl \in Devices => excl \notin Contends(s)
  BY <1>1, Granted DEF Devices
<1>5. Built(assembled')
  <2>1. \A t \in assembled : Slaves[t] \subseteq Devices
    BY TopologyAssumption DEF TypeMachine
  <2> QED
    BY <1>1, <1>2, <1>4, <2>1 DEF Claims, Built, Present
<1> QED
  BY <1>1, <1>2, <1>3, <1>4, <1>5 DEF Claims, Present

(* Any change of the machine. *)
LEMMA ClaimsMachine ==
  ASSUME TypeMachine, Claims, Machine
  PROVE  Claims'
<1>1. ASSUME NEW u \in Uses, Release(u)
      PROVE  Claims'
  BY <1>1 DEF Release, Claims, Present, varsOfOpen, openVars
<1>2. ASSUME uses' = uses, assembled' = assembled, excl' = excl
      PROVE  Claims'
  BY <1>2 DEF Claims, Present
<1>3. CASE DetachLoop \/ UnlinkBacking \/ RivalCloses
  BY <1>2, <1>3 DEF DetachLoop, UnlinkBacking, RivalCloses, varsOfOpen, openVars
<1>4. ASSUME NEW o, AttachLoop(o) \/ Retarget(o) \/ RivalOpens(o) \/ ChangeMedium(o)
      PROVE  Claims'
  BY <1>2, <1>4 DEF AttachLoop, Retarget, RivalOpens, ChangeMedium, varsOfOpen, openVars
<1> QED
  BY <1>1, <1>3, <1>4, ClaimsUse, ClaimsAssemble, ClaimsDisassemble DEF Machine

(* The exclusive open of the target, and its close. *)
LEMMA ClaimsOpen ==
  ASSUME TypeMachine, Claims, uses' = uses, assembled' = assembled,
         \/ excl' \in {excl, Nothing}
         \/ excl' \in Devices /\ Claimable(excl')
  PROVE  Claims'
<1>1. CASE excl' \in {excl, Nothing}
  BY <1>1, TopologyAssumption DEF Claims, Present, Objects
<1>2. CASE excl' \in Devices /\ Claimable(excl')
  BY <1>2, Granted DEF Claims, Present
<1> QED
  BY <1>1, <1>2

(* A device held exclusively shares no sector with one in use. *)
THEOREM ClaimsExclude ==
  ASSUME TypeMachine, Claims, excl \in Devices
  PROVE  \A u \in uses : ~Overlaps(u.on, excl)
<1> SUFFICES ASSUME NEW u \in uses, u.on \in Devices, Extent[u.on] \cap Extent[excl] # {}
             PROVE  FALSE
  BY DEF Overlaps
<1>1. /\ Built(assembled) /\ assembled \in SUBSET Stacked
      /\ PresentIn(assembled, u.on) /\ Free(assembled, u.on)
      /\ PresentIn(assembled, excl) /\ Free(assembled, excl)
  BY DEF Claims, Present, TypeMachine
<1>2. u.on \in Contends(excl)
  BY <1>1, SharedSectors
<1> QED
  BY <1>2 DEF Claims
=============================================================================
