---------------------------- MODULE PagingProofs ----------------------------
(***************************************************************************)
(* Proofs about module Paging, for every number of frames, every table     *)
(* size, every set of address spaces and every set of pages that callers   *)
(* name.                                                                   *)
(***************************************************************************)
EXTENDS Paging, PageTablesProofs, FiniteSetTheorems

-----------------------------------------------------------------------------
(***************************************************************************)
(* The theorems.                                                           *)
(***************************************************************************)

\* Every call keeps the invariant, and what it adds to a page table was free.
LEMMA StepKeepsInv ==
    ASSUME MemInv(mem), Next
    PROVE  MemInv(mem') /\ Fresh(mem, mem')
<1>0. /\ Kernel \in AS /\ Live(mem, Kernel) /\ Spaces \subseteq AS
      /\ MemInv(mem) /\ mem.cpu = "run" <=> Running
      /\ HeapPages \subseteq VAddrs /\ UserPages \subseteq VAddrs
  BY KernelSlots, HeapPagesAssumption, UserPagesAssumption
  DEF MemInv, KernelTables, Live, PML4_FRAME, AS, Running
<1>1. ASSUME NEW v \in HeapPages \cup {NullPtr}, HeapMap(v)
      PROVE  MemInv(mem') /\ Fresh(mem, mem')
  <2>1. Grows(mem, mem')
    BY <1>0, <1>1, MapPageGrows DEF HeapMap
  <2> QED
    BY <2>1, GrowsIsFresh DEF Grows
<1>2. ASSUME NEW v \in HeapPages, HeapUnmap(v)
      PROVE  MemInv(mem') /\ Fresh(mem, mem')
  BY <1>0, <1>2, UnmapPageInv, HeapPagesAssumption DEF HeapUnmap
<1>3. ASSUME Probe
      PROVE  MemInv(mem') /\ Fresh(mem, mem')
  <2>1. Grows(mem, mem')
    BY <1>0, <1>3, UnmappedVAddrGrows DEF Probe
  <2> QED
    BY <2>1, GrowsIsFresh DEF Grows
<1>4. ASSUME NEW a \in Spaces, NEW v \in UserPages, UserMap(a, v)
      PROVE  MemInv(mem') /\ Fresh(mem, mem')
  <2>1. Grows(mem, mem')
    BY <1>0, <1>4, MapPageGrows DEF UserMap
  <2> QED
    BY <2>1, GrowsIsFresh DEF Grows
<1>5. ASSUME NEW a \in Spaces, StackMap(a)
      PROVE  MemInv(mem') /\ Fresh(mem, mem')
  <2>1. Grows(mem, mem')
    BY <1>0, <1>5, MapPageGrows DEF StackMap
  <2> QED
    BY <2>1, GrowsIsFresh DEF Grows
<1>6. ASSUME NEW a \in Spaces, Create(a)
      PROVE  MemInv(mem') /\ Fresh(mem, mem')
  BY <1>6, CreatePageDirInv DEF Create
<1>7. ASSUME NEW a \in Spaces, Destroy(a)
      PROVE  MemInv(mem') /\ Fresh(mem, mem')
  BY <1>7, DestroyPageDirInv DEF Destroy
<1>8. ASSUME Halt
      PROVE  MemInv(mem') /\ Fresh(mem, mem')
  BY <1>8 DEF Halt, Fresh
<1> QED
  BY <1>1, <1>2, <1>3, <1>4, <1>5, <1>6, <1>7, <1>8 DEF Next

LEMMA Invariance == Spec => []MemInv(mem)
<1>1. Init => MemInv(mem)
  BY InitMemInv DEF Init
<1>2. MemInv(mem) /\ [Next]_vars => MemInv(mem)'
  BY StepKeepsInv DEF vars
<1> QED
  BY <1>1, <1>2, PTL DEF Spec

\* The bitmap and the page tables always have their types: no entry ever holds a
\* number that is not a physical frame of the machine.
THEOREM TypeCorrect == Spec => []TypeOK
<1>1. MemInv(mem) => TypeOK
  BY DEF MemInv, TypeOK
<1> QED
  BY <1>1, Invariance, PTL

\* On a machine of any size, no sequence of calls leaks or loses a frame: the
\* bitmap marks exactly the reserved frames and the frames the page tables hold.
THEOREM NoLeak == Spec => []BitmapMatchesTables
<1>1. MemInv(mem) => BitmapMatchesTables
  BY DEF MemInv, BitmapMatchesTables
<1> QED
  BY <1>1, Invariance, PTL

\* No frame beyond those boot set aside is ever in two entries, so no page of a
\* task is a page table or a page of another task.
THEOREM Exclusive == Spec => []NoAliasing
<1>1. MemInv(mem) => NoAliasing
  BY DEF MemInv, NoAliasing
<1> QED
  BY <1>1, Invariance, PTL

\* The page tables are trees: nothing that createPageDir and mapPage put in them is
\* out of the reach of destroyPageDir's walk.
THEOREM TreeShape == Spec => []TreesClosed
<1>1. MemInv(mem) => TreesClosed
  BY DEF MemInv, TreesClosed
<1> QED
  BY <1>1, Invariance, PTL

\* Every user address space has the kernel's directory 0 as its first branch, and no
\* other frame that boot reserved: no call gives a task a page of the kernel's image.
THEOREM KernelInEverySpace == Spec => []KernelShared
<1>1. MemInv(mem) => KernelShared
  BY DEF MemInv, KernelShared
<1> QED
  BY <1>1, Invariance, PTL

\* A frame that enters a page table was free, and a present entry is never
\* redirected, whatever the call.
THEOREM FreshAllocation == Spec => AllocationsAreFresh
<1>1. MemInv(mem) /\ [Next]_vars => [Fresh(mem, mem')]_vars
  BY StepKeepsInv DEF vars
<1> QED
  BY <1>1, Invariance, PTL DEF Spec, AllocationsAreFresh
-----------------------------------------------------------------------------
(***************************************************************************)
(* The refinement.                                                         *)
(***************************************************************************)
\* What is in a set of three things and is not empty has one to three members.
LEMMA OneToThree ==
    ASSUME NEW x, NEW y, NEW z, NEW S, S \subseteq {x, y, z}, S # {}
    PROVE  Cardinality(S) \in 1 .. 3
<1>1. /\ IsFiniteSet({}) /\ Cardinality({}) = 0
      /\ IsFiniteSet({x}) /\ Cardinality({x}) = 1
  BY FS_EmptySet, FS_Singleton
<1>2. IsFiniteSet({x} \cup {y}) /\ Cardinality({x} \cup {y}) \in 1 .. 2
  BY <1>1, FS_AddElement
<1>3. IsFiniteSet({x, y} \cup {z}) /\ Cardinality({x, y} \cup {z}) \in 1 .. 3
  <2>1. {x} \cup {y} = {x, y}
    OBVIOUS
  <2>2. IsFiniteSet({x, y}) /\ Cardinality({x, y}) \in 1 .. 2
    BY <1>2, <2>1
  <2> QED
    BY <2>2, FS_AddElement
<1>4. S \subseteq {x, y} \cup {z}
  OBVIOUS
<1>5. IsFiniteSet(S) /\ Cardinality(S) <= Cardinality({x, y} \cup {z})
  BY <1>3, <1>4, FS_Subset
<1>6. Cardinality(S) \in Nat /\ Cardinality(S) # 0
  BY <1>5, FS_CardinalityType, FS_EmptySet
<1> QED
  BY <1>3, <1>5, <1>6

\* The abstract specification counts as this one does.
LEMMA SameCardinality == \A S : Ownership!Cardinality(S) = Cardinality(S)
BY DEF Ownership!Cardinality, Cardinality

\* What an address space owns in a given memory.
OwnedIn(m, a) == {m.entry[s] : s \in {u \in Slots : u[2] = a}} \ Reserved

\* The refinement mapping in terms of OwnedIn.
LEMMA OwnedMapping == [a \in AS |-> OwnedBy(a)] = [a \in AS |-> OwnedIn(mem, a)]
BY DEF OwnedBy, OwnedIn, SlotsOf

\* The same after a step.
LEMMA OwnedMappingNext ==
    [a \in AS |-> OwnedBy(a)]' = [a \in AS |-> OwnedIn(mem', a)]
BY DEF OwnedBy, OwnedIn, SlotsOf

\* A call that adds frames to at most three entries of one address space is a grant.
LEMMA GrowthIsGrant ==
    ASSUME MemInv(mem), Grows(mem, mem'), NEW a \in AS,
           NEW x \in Slots, NEW y \in Slots, NEW z \in Slots,
           x[2] = a, y[2] = a, z[2] = a, Changes(mem, mem', {x, y, z})
    PROVE  Ownership!Grant(a) \/ UNCHANGED Ownership!vars
<1> DEFINE free == Frames \ mem.used
           granted == free \ (Frames \ mem'.used)
<1>0. /\ MemInv(mem') /\ mem.used \subseteq mem'.used
      /\ mem.used \subseteq Frames /\ mem'.used \subseteq Frames
      /\ \A u \in Slots : mem.entry[u] # 0 => mem'.entry[u] = mem.entry[u]
      /\ \A u \in Slots : mem'.entry[u] # mem.entry[u] => mem'.entry[u] \notin mem.used
      /\ 0 \in Reserved /\ Reserved \subseteq mem.used
      /\ \A u \in Slots : mem.entry[u] \in mem.used /\ mem'.entry[u] \in mem'.used
  BY LowFramesReserved DEF Grows, MemInv, MemType, FramesAccounted
<1>1. granted = mem'.used \ mem.used
  BY <1>0
<1> HIDE DEF granted
<1>2. granted \subseteq {mem'.entry[x], mem'.entry[y], mem'.entry[z]}
  <2> SUFFICES ASSUME NEW f \in granted
               PROVE  f \in {mem'.entry[x], mem'.entry[y], mem'.entry[z]}
    OBVIOUS
  <2>1. f \in mem'.used /\ f \notin mem.used /\ f \notin Reserved
    BY <1>0, <1>1
  <2>2. PICK s \in Slots : mem'.entry[s] = f
    BY <1>0, <2>1 DEF MemInv, FramesAccounted
  <2>3. mem'.entry[s] # mem.entry[s]
    BY <1>0, <2>1, <2>2
  <2> QED
    BY <2>2, <2>3 DEF Changes
<1>3. OwnedIn(mem', a) = OwnedIn(mem, a) \cup granted
  <2>1. ASSUME NEW f \in OwnedIn(mem', a) PROVE f \in OwnedIn(mem, a) \cup granted
    <3>1. PICK s \in Slots : s[2] = a /\ mem'.entry[s] = f /\ f \notin Reserved
      BY <2>1 DEF OwnedIn
    <3>2. CASE mem'.entry[s] = mem.entry[s]
      BY <3>1, <3>2 DEF OwnedIn
    <3>3. CASE mem'.entry[s] # mem.entry[s]
      BY <1>0, <1>1, <3>1, <3>3
    <3> QED BY <3>2, <3>3
  <2>2. ASSUME NEW f \in OwnedIn(mem, a) PROVE f \in OwnedIn(mem', a)
    <3>1. PICK s \in Slots : s[2] = a /\ mem.entry[s] = f /\ f \notin Reserved
      BY <2>2 DEF OwnedIn
    <3>2. mem'.entry[s] = f
      BY <1>0, <3>1
    <3> QED
      BY <3>1, <3>2 DEF OwnedIn
  <2>3. ASSUME NEW f \in granted PROVE f \in OwnedIn(mem', a)
    BY <1>0, <1>1, <1>2, <2>3 DEF OwnedIn
  <2> QED
    BY <2>1, <2>2, <2>3
<1>4. \A b \in AS \ {a} : OwnedIn(mem', b) = OwnedIn(mem, b)
  BY DEF OwnedIn, Changes
<1> DEFINE old == [b \in AS |-> OwnedIn(mem, b)]
           new == [b \in AS |-> OwnedIn(mem', b)]
<1>5. new = [old EXCEPT ![a] = @ \cup granted]
  BY <1>3, <1>4
<1>6. Frames \ mem'.used = free \ granted
  BY <1>0, <1>1
<1>7. CASE granted = {}
  <2>1. new = old
    BY <1>5, <1>7
  <2>2. Frames \ mem'.used = Frames \ mem.used
    BY <1>6, <1>7
  <2> HIDE DEF new, old
  <2> QED
    BY <2>1, <2>2, OwnedMapping, OwnedMappingNext DEF Ownership!vars, new, old
<1>8. CASE granted # {}
  <2>1. Cardinality(granted) \in 1 .. 3
    BY <1>2, <1>8, OneToThree
  <2> HIDE DEF new, old
  <2> QED
    BY <1>5, <1>6, <2>1, OwnedMapping, OwnedMappingNext, SameCardinality
    DEF Ownership!Grant, new, old, granted
<1> QED
  BY <1>7, <1>8

\* The initial memory: nothing beyond what boot reserved is owned.
LEMMA InitOwnership == Init => Ownership!Init
<1> SUFFICES ASSUME Init PROVE Ownership!Init
  OBVIOUS
<1>1. \A s \in Slots : mem.entry[s] \in Reserved
  <2>1. mem.used = Reserved /\ FramesAccounted(mem)
    BY InitMemInv DEF Init, MemInv, InitMem
  <2> QED
    BY <2>1 DEF FramesAccounted
<1>2. \A a \in AS : OwnedIn(mem, a) = {}
  BY <1>1 DEF OwnedIn
<1>3. mem.used = Reserved
  BY DEF Init, InitMem
<1> QED
  BY <1>2, <1>3, OwnedMapping DEF Ownership!Init, Ownership!Owners, AS

\* mapPage grants frames to the address space whose tables translate the address.
LEMMA MapIsGrant ==
    ASSUME MemInv(mem), Running, NEW a \in AS, Live(mem, a), NEW v \in VAddrs,
           mem' = MapPage(mem, a, v).mem, v[1] # 0 \/ a = Kernel
    PROVE  Ownership!Grant(a) \/ UNCHANGED Ownership!vars
<1>1. mem' = MapPageAt(mem, a, v).mem
  BY NullAssumption DEF MapPage
<1>2. v[1] \in Dirs /\ v[2] \in Tables /\ v[3] \in Pages /\ Through(a, v[1]) = a
  BY DEF VAddrs, Through
<1>3. Grows(mem, mem')
  BY <1>1, MapPageAtGrows DEF Running
<1>4. Changes(mem, mem', MapSlots(a, v))
  BY <1>1, MapPageAtChanges DEF Running
<1> DEFINE x == PD(a, v[1])
           y == PT(a, v[1], v[2])
           z == PTE(a, v[1], v[2], v[3])
<1>5. MapSlots(a, v) \subseteq {x, y, z}
  BY <1>2 DEF MapSlots
<1>6. Changes(mem, mem', {x, y, z})
  BY <1>4, <1>5 DEF Changes
<1>7. /\ x \in Slots /\ y \in Slots /\ z \in Slots
      /\ x[2] = a /\ y[2] = a /\ z[2] = a
  BY <1>2, SlotMembership, SlotKinds
<1> HIDE DEF x, y, z
<1> QED
  BY <1>3, <1>6, <1>7, GrowthIsGrant

\* Without an address, mapPage grants frames to the kernel, for the stack of a task
\* too.
LEMMA MapAnyIsGrant ==
    ASSUME MemInv(mem), Running, NEW a \in AS, Live(mem, a),
           mem' = MapPage(mem, a, NullPtr).mem
    PROVE  Ownership!Grant(Kernel) \/ UNCHANGED Ownership!vars
<1>1. Grows(mem, mem')
  BY MapPageGrows DEF Running
<1>2. PICK t \in Tables, p \in Pages :
          Changes(mem, mem', {PT(Kernel, 0, t), PTE(Kernel, 0, t, p)})
  BY MapAnyChanges DEF Running
<1>3. Changes(mem, mem', {PT(Kernel, 0, t), PTE(Kernel, 0, t, p), PTE(Kernel, 0, t, p)})
  BY <1>2 DEF Changes
<1>4. /\ PT(Kernel, 0, t) \in Slots /\ PTE(Kernel, 0, t, p) \in Slots
      /\ PT(Kernel, 0, t)[2] = Kernel /\ PTE(Kernel, 0, t, p)[2] = Kernel
  BY KernelSlots, SlotMembership, SlotKinds
<1> QED
  BY <1>1, <1>3, <1>4, KernelSlots, GrowthIsGrant

\* getUnmappedVAddr may grant the kernel a table.
LEMMA ProbeIsGrant ==
    ASSUME MemInv(mem), Probe
    PROVE  Ownership!Grant(Kernel) \/ UNCHANGED Ownership!vars
<1>1. Grows(mem, mem')
  BY UnmappedVAddrGrows DEF Probe, Running
<1>2. PICK t \in Tables : Changes(mem, mem', {PT(Kernel, 0, t)})
  BY UnmappedVAddrChanges DEF Probe, Running
<1>3. Changes(mem, mem', {PT(Kernel, 0, t), PT(Kernel, 0, t), PT(Kernel, 0, t)})
  BY <1>2 DEF Changes
<1>4. PT(Kernel, 0, t) \in Slots /\ PT(Kernel, 0, t)[2] = Kernel
  BY KernelSlots, SlotMembership, SlotKinds
<1> QED
  BY <1>1, <1>3, <1>4, KernelSlots, GrowthIsGrant

\* unmapPage gives back the frame of a page of the kernel's, or does nothing.
LEMMA UnmapIsGiveBack ==
    ASSUME MemInv(mem), NEW v \in HeapPages, HeapUnmap(v)
    PROVE  Ownership!GiveBack \/ UNCHANGED Ownership!vars
<1> DEFINE leaf == PTE(Kernel, v[1], v[2], v[3])
           f    == mem.entry[leaf]
<1>1. v \in VAddrs /\ v[1] = 0 /\ v[1] \in Dirs /\ v[2] \in Tables /\ v[3] \in Pages
  BY HeapPagesAssumption DEF VAddrs
<1>2. leaf \in Slots /\ leaf[2] = Kernel
  BY <1>1, KernelSlots, SlotMembership, SlotKinds
<1>3. /\ Changes(mem, mem', {leaf}) /\ mem'.entry[leaf] = 0
      /\ mem'.used = mem.used \ ({f} \ {0})
  BY <1>1, UnmapChanges DEF HeapUnmap
<1>4. f \notin Reserved \ {0}
  BY DEF HeapUnmap
<1> HIDE DEF leaf
<1>5. \A b \in AS \ {Kernel} : OwnedIn(mem', b) = OwnedIn(mem, b)
  BY <1>2, <1>3 DEF OwnedIn, Changes
<1>6. OwnedIn(mem', Kernel) = OwnedIn(mem, Kernel) \ {f}
  <2>1. ASSUME NEW g \in OwnedIn(mem', Kernel) PROVE g \in OwnedIn(mem, Kernel) /\ g # f
    <3>1. PICK s \in Slots : s[2] = Kernel /\ mem'.entry[s] = g /\ g \notin Reserved
      BY <2>1 DEF OwnedIn
    <3>2. s # leaf /\ mem.entry[s] = g
      BY <1>3, <3>1, LowFramesReserved DEF Changes
    <3>3. g # f
      BY <1>2, <3>1, <3>2 DEF MemInv, Injective, Held
    <3> QED
      BY <3>1, <3>2, <3>3 DEF OwnedIn
  <2>2. ASSUME NEW g \in OwnedIn(mem, Kernel), g # f PROVE g \in OwnedIn(mem', Kernel)
    <3>1. PICK s \in Slots : s[2] = Kernel /\ mem.entry[s] = g /\ g \notin Reserved
      BY <2>2 DEF OwnedIn
    <3>2. mem'.entry[s] = g
      BY <1>3, <2>2, <3>1 DEF Changes
    <3> QED
      BY <3>1, <3>2 DEF OwnedIn
  <2> QED
    BY <2>1, <2>2
<1> DEFINE old == [b \in AS |-> OwnedIn(mem, b)]
           new == [b \in AS |-> OwnedIn(mem', b)]
<1>7. CASE f = 0
  <2>1. OwnedIn(mem', Kernel) = OwnedIn(mem, Kernel)
    BY <1>6, <1>7, LowFramesReserved DEF OwnedIn
  <2>2. new = old /\ mem'.used = mem.used
    BY <1>3, <1>5, <1>7, <2>1
  <2> HIDE DEF new, old
  <2> QED
    BY <2>2, OwnedMapping, OwnedMappingNext DEF Ownership!vars, new, old
<1>8. CASE f # 0
  <2>1. f \in OwnedIn(mem, Kernel) /\ Kernel \in AS
    BY <1>2, <1>4, <1>8, KernelSlots DEF OwnedIn
  <2>2. f \in Frames
    BY <1>2 DEF MemInv, MemType
  <2>3. Frames \ mem'.used = (Frames \ mem.used) \cup {f}
    BY <1>3, <1>8, <2>2
  <2>4. new = [old EXCEPT ![Kernel] = @ \ {f}] /\ f \in old[Kernel]
    BY <1>5, <1>6, <2>1
  <2> HIDE DEF new, old, f
  <2> QED
    BY <2>3, <2>4, OwnedMapping, OwnedMappingNext DEF Ownership!GiveBack, new, old
<1> QED
  BY <1>7, <1>8

\* An address space that does not exist owns nothing; createPageDir grants it the
\* frames of its first two tables, or changes nothing.
LEMMA CreateIsGrant ==
    ASSUME MemInv(mem), NEW a \in Spaces, Create(a)
    PROVE  Ownership!Grant(a) \/ UNCHANGED Ownership!vars
<1> DEFINE f == GetFreePhysPage(mem.used)
           g == GetFreePhysPage(mem.used \cup {f})
<1>0. /\ a \in AS /\ PML4(a) \in Slots /\ PDPT(a) \in Slots /\ PD(a, 0) \in Slots
      /\ PML4(a)[2] = a /\ PDPT(a)[2] = a /\ PD(a, 0)[2] = a
  BY SlotMembership, SlotKinds, KernelSlots DEF AS
<1>1. CASE f = NullPtr \/ g = NullPtr
  <2>1. mem' = mem
    BY <1>1 DEF Create, CreatePageDir
  <2> QED
    BY <2>1, OwnedMapping, OwnedMappingNext DEF Ownership!vars
<1>2. CASE f # NullPtr /\ g # NullPtr
  <2>1. f \in Frames \ mem.used
    BY <1>2, FreePageIsFree DEF MemInv, MemType, GetFreePhysPage
  <2>2. mem.used \cup {f} \in SUBSET Frames
    BY <2>1 DEF MemInv, MemType
  <2>3. g \in Frames \ (mem.used \cup {f})
    BY <1>2, <2>2, FreePageIsFree DEF GetFreePhysPage
  <2>4. /\ mem'.used = mem.used \cup {f, g}
        /\ mem'.entry = [mem.entry EXCEPT ![PML4(a)] = f, ![PDPT(a)] = g,
                                          ![PD(a, 0)] = PD0_FRAME]
    <3>1. mem' = [mem EXCEPT !.used = @ \cup {f, g}, !.entry[PML4(a)] = f,
                             !.entry[PDPT(a)] = g, !.entry[PD(a, 0)] = PD0_FRAME]
      BY <1>2 DEF Create, CreatePageDir
    <3> HIDE DEF f, g
    <3> QED BY <3>1 DEF MemInv, MemType
  <2>5. mem.entry \in [Slots -> Frames]
    BY DEF MemInv, MemType
  <2> HIDE DEF f, g
  <2>6. /\ mem'.entry[PML4(a)] = f /\ mem'.entry[PDPT(a)] = g
        /\ mem'.entry[PD(a, 0)] = PD0_FRAME
        /\ \A s \in Slots \ {PML4(a), PDPT(a), PD(a, 0)} : mem'.entry[s] = mem.entry[s]
    BY <1>0, <2>4, <2>5, SlotsDiffer
  <2>7. /\ f \notin Reserved /\ g \notin Reserved /\ PD0_FRAME \in Reserved /\ 0 \in Reserved
    BY <2>1, <2>3, LowFramesReserved DEF MemInv, FramesAccounted
  <2>8. \A s \in Slots : s[2] = a => mem.entry[s] = 0
    <3> SUFFICES ASSUME NEW s \in Slots, s[2] = a PROVE mem.entry[s] = 0
      OBVIOUS
    <3>1. mem.entry[PML4(a)] = 0 /\ mem.entry[PDPT(a)] = 0
      BY <1>0 DEF Create, Live, MemInv, Closed
    <3>2. \A d \in Dirs : mem.entry[PD(a, d)] = 0
      BY <1>0, <3>1 DEF MemInv, Closed
    <3>3. \A d \in Dirs, t \in Tables : Through(a, d) = a => mem.entry[PT(a, d, t)] = 0
      BY <1>0, <3>2 DEF MemInv, Closed
    <3>4. \A d \in Dirs, t \in Tables, p \in Pages :
              Through(a, d) = a => mem.entry[PTE(a, d, t, p)] = 0
      BY <1>0, <3>3 DEF MemInv, Closed
    <3> QED
      BY <3>1, <3>2, <3>3, <3>4, SlotCases, SlotKinds
  <2>9. OwnedIn(mem, a) = {}
    BY <2>7, <2>8 DEF OwnedIn
  <2>10. OwnedIn(mem', a) = {f, g}
    <3>1. f \in OwnedIn(mem', a) /\ g \in OwnedIn(mem', a)
      BY <1>0, <2>6, <2>7 DEF OwnedIn
    <3>2. ASSUME NEW s \in Slots, s[2] = a, mem'.entry[s] \notin Reserved
          PROVE  mem'.entry[s] \in {f, g}
      BY <2>6, <2>7, <2>8, <3>2
    <3> QED
      BY <3>1, <3>2 DEF OwnedIn
  <2>11. \A b \in AS \ {a} : OwnedIn(mem', b) = OwnedIn(mem, b)
    BY <1>0, <2>6 DEF OwnedIn
  <2> DEFINE old == [b \in AS |-> OwnedIn(mem, b)]
             new == [b \in AS |-> OwnedIn(mem', b)]
             granted == (Frames \ mem.used) \ (Frames \ mem'.used)
  <2>12. granted = {f, g} /\ Frames \ mem'.used = (Frames \ mem.used) \ granted
    BY <2>1, <2>3, <2>4
  <2>13. new = [old EXCEPT ![a] = @ \cup granted]
    BY <1>0, <2>9, <2>10, <2>11, <2>12
  <2>14. Cardinality(granted) \in 1 .. 3
    BY <2>12, OneToThree
  <2> HIDE DEF new, old
  <2> QED
    BY <2>12, <2>13, <2>14, OwnedMapping, OwnedMappingNext, SameCardinality
    DEF Ownership!Grant, new, old
<1> QED
  BY <1>1, <1>2

\* destroyPageDir releases exactly what the address space owns.
LEMMA DestroyIsRelease ==
    ASSUME MemInv(mem), NEW a \in Spaces, Destroy(a)
    PROVE  Ownership!Release(a)
<1>1. WalkPageDir(mem, a) = OwnedIn(mem, a)
  <2>1. ASSUME NEW f \in WalkPageDir(mem, a) PROVE f \in OwnedIn(mem, a)
    BY <2>1, WalkIsOwned DEF Destroy, OwnedIn
  <2>2. ASSUME NEW f \in OwnedIn(mem, a) PROVE f \in WalkPageDir(mem, a)
    <3>1. PICK s \in Slots : s[2] = a /\ mem.entry[s] = f /\ f \notin Reserved
      BY <2>2 DEF OwnedIn
    <3>2. mem.entry[s] \notin {0, PD0_FRAME}
      BY <3>1, LowFramesReserved
    <3> QED
      BY <3>1, <3>2, WalkIsComplete DEF Destroy
  <2> QED
    BY <2>1, <2>2
<1>2. /\ Changes(mem, mem', {s \in Slots : s[2] = a})
      /\ \A s \in Slots : s[2] = a => mem'.entry[s] = 0
      /\ mem'.used = mem.used \ OwnedIn(mem, a)
  BY <1>1, DestroyChanges DEF Destroy
<1>3. OwnedIn(mem', a) = {}
  BY <1>2, LowFramesReserved DEF OwnedIn
<1>4. \A b \in AS \ {a} : OwnedIn(mem', b) = OwnedIn(mem, b)
  BY <1>2 DEF OwnedIn, Changes
<1>5. OwnedIn(mem, a) \subseteq Frames /\ mem.used \subseteq Frames
  BY DEF OwnedIn, MemInv, MemType
<1> DEFINE old == [b \in AS |-> OwnedIn(mem, b)]
           new == [b \in AS |-> OwnedIn(mem', b)]
<1>6. a \in AS /\ new = [old EXCEPT ![a] = {}] /\ old[a] = OwnedIn(mem, a)
  BY <1>3, <1>4 DEF AS
<1>7. Frames \ mem'.used = (Frames \ mem.used) \cup OwnedIn(mem, a)
  BY <1>2, <1>5
<1> HIDE DEF new, old
<1> QED
  BY <1>6, <1>7, OwnedMapping, OwnedMappingNext DEF Ownership!Release, new, old

\* Each call of the class Paging is one step of the abstract specification, or none.
LEMMA StepOwnership ==
    ASSUME MemInv(mem), Next
    PROVE  Ownership!Next \/ UNCHANGED Ownership!vars
<1>0. /\ Kernel \in AS /\ Live(mem, Kernel) /\ Spaces \subseteq AS
      /\ HeapPages \subseteq VAddrs /\ UserPages \subseteq VAddrs
      /\ \A v \in UserPages : v[1] # 0
      /\ AS = Ownership!Owners
  BY KernelSlots, HeapPagesAssumption, UserPagesAssumption
  DEF MemInv, KernelTables, Live, PML4_FRAME, AS, Ownership!Owners
<1> USE DEF Ownership!Next
<1>1. ASSUME NEW v \in HeapPages \cup {NullPtr}, HeapMap(v)
      PROVE  Ownership!Next \/ UNCHANGED Ownership!vars
  <2>1. CASE v = NullPtr
    BY <1>0, <1>1, <2>1, MapAnyIsGrant DEF HeapMap
  <2>2. CASE v \in HeapPages
    BY <1>0, <1>1, <2>2, MapIsGrant DEF HeapMap
  <2> QED BY <2>1, <2>2
<1>2. ASSUME NEW v \in HeapPages, HeapUnmap(v)
      PROVE  Ownership!Next \/ UNCHANGED Ownership!vars
  BY <1>2, UnmapIsGiveBack
<1>3. ASSUME Probe
      PROVE  Ownership!Next \/ UNCHANGED Ownership!vars
  BY <1>0, <1>3, ProbeIsGrant
<1>4. ASSUME NEW a \in Spaces, NEW v \in UserPages, UserMap(a, v)
      PROVE  Ownership!Next \/ UNCHANGED Ownership!vars
  BY <1>0, <1>4, MapIsGrant DEF UserMap
<1>5. ASSUME NEW a \in Spaces, StackMap(a)
      PROVE  Ownership!Next \/ UNCHANGED Ownership!vars
  BY <1>0, <1>5, MapAnyIsGrant DEF StackMap
<1>6. ASSUME NEW a \in Spaces, Create(a)
      PROVE  Ownership!Next \/ UNCHANGED Ownership!vars
  BY <1>0, <1>6, CreateIsGrant
<1>7. ASSUME NEW a \in Spaces, Destroy(a)
      PROVE  Ownership!Next \/ UNCHANGED Ownership!vars
  BY <1>7, DestroyIsRelease
<1>8. ASSUME Halt
      PROVE  Ownership!Next \/ UNCHANGED Ownership!vars
  <2>1. mem' = mem
    BY <1>8 DEF Halt
  <2> QED
    BY <2>1, OwnedMapping, OwnedMappingNext DEF Ownership!vars
<1> QED
  BY <1>1, <1>2, <1>3, <1>4, <1>5, <1>6, <1>7, <1>8 DEF Next

\* The class Paging implements the ownership of frames, on any machine: mapPage,
\* createPageDir, unmapPage and destroyPageDir, with the tables they build on the way
\* and the failures that leave them half done, only grant free frames, give back one
\* of the kernel's, or release all that a task owns.
THEOREM PagingImplementsOwnership == Spec => ImplementsOwnership
<1>1. MemInv(mem) /\ [Next]_vars => [Ownership!Next]_(Ownership!vars)
  <2> SUFFICES ASSUME MemInv(mem), [Next]_vars
               PROVE  Ownership!Next \/ UNCHANGED Ownership!vars
    OBVIOUS
  <2>1. CASE Next
    BY <2>1, StepOwnership
  <2>2. CASE UNCHANGED vars
    <3>1. mem' = mem
      BY <2>2 DEF vars
    <3> QED
      BY <3>1, OwnedMapping, OwnedMappingNext DEF Ownership!vars
  <2> QED BY <2>1, <2>2
<1> QED
  BY <1>1, InitOwnership, Invariance, PTL DEF Spec, ImplementsOwnership, Ownership!Spec

=============================================================================
