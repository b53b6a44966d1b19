-------------------------- MODULE PageTablesProofs --------------------------
(***************************************************************************)
(* Lemmas about the member functions of the class Paging, for every number *)
(* of frames, every table size and every set of address spaces: each keeps *)
(* the memory in order.  What the state machines of modules Paging and     *)
(* Tasks prove rests on them.                                              *)
(***************************************************************************)
EXTENDS PageTables, WellFoundedInduction, TLAPS

\* The kernel's own tables are where boot.asm put them: what is needed to know
\* that a table built in directory 0 hangs from a present one.
KernelTables(m) ==
    /\ m.entry[PML4(Kernel)] = PML4_FRAME
    /\ m.entry[PDPT(Kernel)] = PDPT0_FRAME
    /\ m.entry[PD(Kernel, 0)] = PD0_FRAME

\* The inductive invariant of the memory.
MemInv(m) ==
    /\ m \in MemType
    /\ FramesAccounted(m)
    /\ Injective(m)
    /\ Closed(m)
    /\ SharesKernel(m)
    /\ KernelTables(m)

-----------------------------------------------------------------------------
(***************************************************************************)
(* The slots.                                                              *)
(***************************************************************************)

\* Each constructor makes slots, at the positions that exist.
LEMMA SlotMembership ==
    /\ \A a \in AS : PML4(a) \in Slots /\ PDPT(a) \in Slots
    /\ \A a \in AS, d \in Dirs : PD(a, d) \in Slots
    /\ \A a \in AS, d \in Dirs, t \in Tables :
          Through(a, d) = a => PT(a, d, t) \in Slots
    /\ \A a \in AS, d \in Dirs, t \in Tables, p \in Pages :
          Through(a, d) = a => PTE(a, d, t, p) \in Slots
<1>1. \A a \in AS : PML4(a) \in Slots /\ PDPT(a) \in Slots
  BY DEF Slots
<1>2. \A a \in AS, d \in Dirs : PD(a, d) \in Slots
  BY DEF Slots
<1>3. ASSUME NEW a \in AS, NEW d \in Dirs, NEW t \in Tables, Through(a, d) = a
      PROVE  /\ PT(a, d, t) \in Slots
             /\ \A p \in Pages : PTE(a, d, t, p) \in Slots
  <2>1. <<a, d>> \in OwnDirs
    BY <1>3 DEF OwnDirs
  <2>2. PT(<<a, d>>[1], <<a, d>>[2], t) \in Slots
    BY <2>1 DEF Slots
  <2>3. \A p \in Pages : PTE(<<a, d>>[1], <<a, d>>[2], t, p) \in Slots
    BY <2>1 DEF Slots
  <2> QED
    BY <2>2, <2>3
<1> QED
  BY <1>1, <1>2, <1>3

\* A slot tells its address space and its indices.
LEMMA SlotKinds ==
    /\ \A a : PML4(a)[2] = a /\ PDPT(a)[2] = a
    /\ \A a, d : PD(a, d)[2] = a /\ PD(a, d)[3] = d
    /\ \A a, d, t : PT(a, d, t)[2] = a /\ PT(a, d, t)[3] = d /\ PT(a, d, t)[4] = t
    /\ \A a, d, t, p : /\ PTE(a, d, t, p)[2] = a /\ PTE(a, d, t, p)[3] = d
                       /\ PTE(a, d, t, p)[4] = t /\ PTE(a, d, t, p)[5] = p
BY DEF PML4, PDPT, PD, PT, PTE

\* Slots of different kinds are different.
LEMMA SlotsDiffer ==
    /\ \A a, b : PML4(a) # PDPT(b)
    /\ \A a, b, e : PML4(a) # PD(b, e) /\ PDPT(a) # PD(b, e)
    /\ \A a, b, e, u : PML4(a) # PT(b, e, u) /\ PDPT(a) # PT(b, e, u)
    /\ \A a, b, e, u, q : PML4(a) # PTE(b, e, u, q) /\ PDPT(a) # PTE(b, e, u, q)
    /\ \A a, d, b, e, u : PD(a, d) # PT(b, e, u)
    /\ \A a, d, b, e, u, q : PD(a, d) # PTE(b, e, u, q)
    /\ \A a, d, t, b, e, u, q : PT(a, d, t) # PTE(b, e, u, q)
BY DEF PML4, PDPT, PD, PT, PTE

\* Directory 0 and table 0 exist, and the kernel's directory 0 is its own.
LEMMA KernelSlots ==
    /\ Kernel \in AS /\ 0 \in Dirs /\ 0 \in Tables /\ Through(Kernel, 0) = Kernel
    /\ PML4(Kernel) \in Slots /\ PDPT(Kernel) \in Slots /\ PD(Kernel, 0) \in Slots
<1>1. Kernel \in AS /\ 0 \in Dirs /\ 0 \in Tables /\ Through(Kernel, 0) = Kernel
  BY SizeAssumption DEF AS, Dirs, Tables, Through
<1> QED
  BY <1>1, SlotMembership

\* Every slot is one of the five kinds.
LEMMA SlotCases ==
    ASSUME NEW s \in Slots
    PROVE  \/ \E a \in AS : s = PML4(a)
           \/ \E a \in AS : s = PDPT(a)
           \/ \E a \in AS, d \in Dirs : s = PD(a, d)
           \/ \E a \in AS, d \in Dirs, t \in Tables :
                 Through(a, d) = a /\ s = PT(a, d, t)
           \/ \E a \in AS, d \in Dirs, t \in Tables, p \in Pages :
                 Through(a, d) = a /\ s = PTE(a, d, t, p)
<1>1. CASE \E x \in OwnDirs, t \in Tables : s = PT(x[1], x[2], t)
  BY <1>1 DEF OwnDirs
<1>2. CASE \E x \in OwnDirs, t \in Tables, p \in Pages : s = PTE(x[1], x[2], t, p)
  BY <1>2 DEF OwnDirs
<1> QED
  BY <1>1, <1>2 DEF Slots

(***************************************************************************)
(* The allocator.                                                          *)
(***************************************************************************)

\* A set of natural numbers that is not empty has a smallest element.
LEMMA SmallestExists ==
    ASSUME NEW S \in SUBSET Nat, S # {}
    PROVE  Smallest(S) \in S /\ \A y \in S : Smallest(S) <= y
<1>1. \E x \in S : \A y \in S : ~(<<y, x>> \in OpToRel(<, Nat))
  BY NatLessThanWellFounded, WFMin
<1>2. PICK x \in S : \A y \in S : ~(<<y, x>> \in OpToRel(<, Nat))
  BY <1>1
<1>3. \A y \in S : x <= y
  <2> TAKE y \in S
  <2>1. x \in Nat /\ y \in Nat
    OBVIOUS
  <2>2. ~(y < x)
    BY <1>2, <2>1 DEF OpToRel
  <2> QED
    BY <2>1, <2>2
<1> QED
  BY <1>2, <1>3 DEF Smallest

\* getFreePhysPage returns a frame that is free.
LEMMA FreePageIsFree ==
    ASSUME NEW used \in SUBSET Frames, FreePhysPages(used) # {}
    PROVE  GetFreePhysPage(used) \in Frames \ used
<1>1. FreePhysPages(used) \in SUBSET Nat
  BY SizeAssumption DEF FreePhysPages, Frames
<1>2. GetFreePhysPage(used) \in FreePhysPages(used)
  BY <1>1, SmallestExists DEF GetFreePhysPage
<1> QED
  BY <1>2 DEF FreePhysPages

\* Frame 0 and the frames of the kernel's own tables are reserved.
LEMMA LowFramesReserved ==
    /\ {0, PML4_FRAME, PDPT0_FRAME, PD0_FRAME, PT0_FRAME} \subseteq Reserved
    /\ Reserved \subseteq Frames
<1>1. BitmapPages \in Nat
  BY SizeAssumption DEF BitmapPages, CeilDiv, PAGESIZE
<1> QED
  BY <1>1, SizeAssumption, LayoutAssumption
  DEF Reserved, Frames, PML4_FRAME, PDPT0_FRAME, PD0_FRAME, PT0_FRAME

\* The slot s may be filled: the entry one level up is present.  Entry 0 of the
\* PDPT of an address space is never filled from the allocator.
Anchored(m, s) ==
    \/ \E a \in AS, d \in Dirs : s = PD(a, d) /\ m.entry[PDPT(a)] # 0
    \/ \E a \in AS, d \in Dirs, t \in Tables :
          s = PT(a, d, t) /\ Through(a, d) = a /\ m.entry[PD(a, d)] # 0
    \/ \E a \in AS, d \in Dirs, t \in Tables, p \in Pages :
          s = PTE(a, d, t, p) /\ Through(a, d) = a /\ m.entry[PT(a, d, t)] # 0

\* The parent of an anchored slot is present.
LEMMA AnchoredParent ==
    ASSUME NEW m, NEW a, NEW d, NEW t, NEW p
    PROVE  /\ Anchored(m, PD(a, d)) => m.entry[PDPT(a)] # 0
           /\ Anchored(m, PT(a, d, t)) => m.entry[PD(a, d)] # 0
           /\ Anchored(m, PTE(a, d, t, p)) => m.entry[PT(a, d, t)] # 0
<1>1. ASSUME Anchored(m, PD(a, d))
      PROVE  m.entry[PDPT(a)] # 0
  <2>1. PICK b \in AS, e \in Dirs : PD(a, d) = PD(b, e) /\ m.entry[PDPT(b)] # 0
    BY <1>1, SlotsDiffer DEF Anchored
  <2>2. a = b
    BY <2>1 DEF PD, PT, PTE
  <2> QED BY <2>1, <2>2
<1>2. ASSUME Anchored(m, PT(a, d, t))
      PROVE  m.entry[PD(a, d)] # 0
  <2>1. PICK b \in AS, e \in Dirs, u \in Tables :
            PT(a, d, t) = PT(b, e, u) /\ m.entry[PD(b, e)] # 0
    BY <1>2, SlotsDiffer DEF Anchored
  <2>2. a = b /\ d = e
    BY <2>1 DEF PD, PT, PTE
  <2> QED BY <2>1, <2>2
<1>3. ASSUME Anchored(m, PTE(a, d, t, p))
      PROVE  m.entry[PT(a, d, t)] # 0
  <2>1. PICK b \in AS, e \in Dirs, u \in Tables, q \in Pages :
            PTE(a, d, t, p) = PTE(b, e, u, q) /\ m.entry[PT(b, e, u)] # 0
    BY <1>3, SlotsDiffer DEF Anchored
  <2>2. a = b /\ d = e /\ t = u
    BY <2>1 DEF PD, PT, PTE
  <2> QED BY <2>1, <2>2
<1> QED
  BY <1>1, <1>2, <1>3

\* A call that only adds: present entries and used frames stay, and what is added
\* was free.
Grows(m, n) ==
    /\ MemInv(n)
    /\ m.used \subseteq n.used
    /\ \A u \in Slots : m.entry[u] # 0 => n.entry[u] = m.entry[u]
    /\ \A u \in Slots : n.entry[u] # m.entry[u] => n.entry[u] \notin m.used

\* Calls that only add can follow each other.
LEMMA GrowsTransitive ==
    ASSUME NEW m, MemInv(m), NEW n, NEW o, Grows(m, n), Grows(n, o)
    PROVE  Grows(m, o)
BY DEF Grows

\* What such a call enters in a table was free.
LEMMA GrowsIsFresh ==
    ASSUME NEW m, MemInv(m), NEW n, Grows(m, n)
    PROVE  Fresh(m, n)
BY DEF Grows, Fresh

\* fatalError stops the processor and leaves the memory as it is.
LEMMA FatalGrows ==
    ASSUME NEW m, MemInv(m)
    PROVE  Grows(m, FatalError(m)) /\ FatalError(m).cpu = "halt"
<1>1. /\ FatalError(m) \in MemType /\ FatalError(m).cpu = "halt"
      /\ FatalError(m).used = m.used /\ FatalError(m).entry = m.entry
  BY DEF FatalError, MemInv, MemType
<1> QED
  BY <1>1 DEF Grows, MemInv, FramesAccounted, Injective, Held, Closed, SharesKernel,
              Live, KernelTables

\* What is true of Fill field by field.
LEMMA FillFields ==
    ASSUME NEW m, m \in MemType, FramesAccounted(m), NEW s \in Slots,
           FreePhysPages(m.used) # {}
    PROVE  /\ Fill(m, s) \in MemType
           /\ Fill(m, s).cpu = m.cpu
           /\ Fill(m, s).entry[s] \in Frames \ m.used
           /\ Fill(m, s).entry[s] \notin Reserved
           /\ Fill(m, s).entry[s] # 0
           /\ Fill(m, s).used = m.used \cup {Fill(m, s).entry[s]}
           /\ \A u \in Slots : u # s => Fill(m, s).entry[u] = m.entry[u]
<1> DEFINE f == GetFreePhysPage(m.used)
<1>1. f \in Frames \ m.used
  BY FreePageIsFree DEF MemType
<1>2. f \notin Reserved /\ f # 0
  BY <1>1, LowFramesReserved DEF FramesAccounted
<1> QED
  BY <1>1, <1>2 DEF Fill, MemType

\* A free frame that enters an anchored, empty slot leaves the memory in order.
LEMMA FillKeepsInv ==
    ASSUME NEW m, MemInv(m), NEW s \in Slots, m.entry[s] = 0,
           FreePhysPages(m.used) # {}, Anchored(m, s)
    PROVE  Grows(m, Fill(m, s)) /\ Fill(m, s).cpu = m.cpu /\ Fill(m, s).entry[s] # 0
<1> DEFINE n == Fill(m, s)
           f == n.entry[s]
<1> USE DEF MemInv
<1>0. /\ n \in MemType /\ f \in Frames \ m.used /\ f \notin Reserved /\ f # 0
      /\ n.used = m.used \cup {f}
      /\ \A u \in Slots : u # s => n.entry[u] = m.entry[u]
  BY FillFields
<1> HIDE DEF n
<1>1. FramesAccounted(n)
  BY <1>0, LowFramesReserved DEF FramesAccounted
<1>2. Injective(n)
  BY <1>0 DEF Injective, Held, FramesAccounted
<1>3. Closed(n)
  <2>1. \A u \in Slots : m.entry[u] # 0 => n.entry[u] # 0
    BY <1>0
  <2>2. \A a \in AS : s # PML4(a) /\ s # PDPT(a)
    BY SlotsDiffer DEF Anchored
  <2> SUFFICES ASSUME NEW a \in AS
               PROVE  /\ n.entry[PML4(a)] = 0 <=> n.entry[PDPT(a)] = 0
                      /\ \A d \in Dirs : n.entry[PD(a, d)] # 0 => n.entry[PDPT(a)] # 0
                      /\ \A d \in {e \in Dirs : Through(a, e) = a}, t \in Tables :
                            /\ n.entry[PT(a, d, t)] # 0 => n.entry[PD(a, d)] # 0
                            /\ \A p \in Pages :
                                  n.entry[PTE(a, d, t, p)] # 0 => n.entry[PT(a, d, t)] # 0
    BY DEF Closed
  <2>3. n.entry[PML4(a)] = 0 <=> n.entry[PDPT(a)] = 0
    BY <1>0, <2>2, SlotMembership DEF Closed
  <2>4. ASSUME NEW d \in Dirs, n.entry[PD(a, d)] # 0
        PROVE  n.entry[PDPT(a)] # 0
    <3>1. CASE s = PD(a, d)
      BY <2>4, <3>1, <2>1, SlotMembership, AnchoredParent
    <3>2. CASE s # PD(a, d)
      BY <3>2, <1>0, <2>1, <2>4, SlotMembership DEF Closed
    <3> QED BY <3>1, <3>2
  <2>5. ASSUME NEW d \in Dirs, Through(a, d) = a, NEW t \in Tables,
               n.entry[PT(a, d, t)] # 0
        PROVE  n.entry[PD(a, d)] # 0
    <3>1. CASE s = PT(a, d, t)
      BY <2>5, <3>1, <2>1, SlotMembership, AnchoredParent
    <3>2. CASE s # PT(a, d, t)
      BY <3>2, <1>0, <2>1, <2>5, SlotMembership DEF Closed
    <3> QED BY <3>1, <3>2
  <2>6. ASSUME NEW d \in Dirs, Through(a, d) = a, NEW t \in Tables, NEW p \in Pages,
               n.entry[PTE(a, d, t, p)] # 0
        PROVE  n.entry[PT(a, d, t)] # 0
    <3>1. CASE s = PTE(a, d, t, p)
      BY <2>6, <3>1, <2>1, SlotMembership, AnchoredParent
    <3>2. CASE s # PTE(a, d, t, p)
      BY <3>2, <1>0, <2>1, <2>6, SlotMembership DEF Closed
    <3> QED BY <3>1, <3>2
  <2> QED
    BY <2>3, <2>4, <2>5, <2>6
<1>4. SharesKernel(n)
  <2>1. \A a \in AS : s # PML4(a)
    BY SlotsDiffer DEF Anchored
  <2>2. ASSUME NEW a \in Spaces, Live(n, a)
        PROVE  n.entry[PD(a, 0)] = PD0_FRAME
    <3>1. m.entry[PD(a, 0)] = PD0_FRAME
      BY <1>0, <2>1, <2>2, SlotMembership DEF Live, SharesKernel, AS
    <3>2. PD(a, 0) \in Slots
      BY SlotMembership, KernelSlots DEF AS
    <3> QED
      BY <1>0, <3>1, <3>2 DEF PD0_FRAME
  <2>3. \A u \in Slots : n.entry[u] \in Reserved \ {0} => u[2] = Kernel \/ u = PD(u[2], 0)
    BY <1>0 DEF SharesKernel
  <2> QED
    BY <2>2, <2>3 DEF SharesKernel
<1>5. KernelTables(n)
  <2>1. /\ PML4(Kernel) \in Slots /\ PDPT(Kernel) \in Slots /\ PD(Kernel, 0) \in Slots
    BY KernelSlots
  <2> QED
    BY <2>1, <1>0 DEF KernelTables, PML4_FRAME, PDPT0_FRAME, PD0_FRAME
<1>6. Grows(m, n)
  BY <1>0, <1>1, <1>2, <1>3, <1>4, <1>5 DEF Grows
<1> QED
  BY <1>0, <1>6, FillFields DEF n

(***************************************************************************)
(* The calls.                                                              *)
(***************************************************************************)
\* A table is built where there is none, or the processor halts.
LEMMA BuildTableGrows ==
    ASSUME NEW m, MemInv(m), NEW s \in Slots, m.cpu = "run" => Anchored(m, s)
    PROVE  /\ Grows(m, BuildTable(m, s))
           /\ BuildTable(m, s).cpu = "run" => BuildTable(m, s).entry[s] # 0
           /\ m.cpu = "halt" => BuildTable(m, s) = m
<1>0. Grows(m, m)
  BY DEF Grows
<1>1. m.cpu \in {"run", "halt"}
  BY DEF MemInv, MemType
<1>2. CASE m.cpu = "halt" \/ m.entry[s] # 0
  BY <1>0, <1>1, <1>2 DEF BuildTable
<1>3. CASE m.cpu = "run" /\ m.entry[s] = 0 /\ FreePhysPages(m.used) = {}
  BY <1>3, FatalGrows DEF BuildTable
<1>4. CASE m.cpu = "run" /\ m.entry[s] = 0 /\ FreePhysPages(m.used) # {}
  BY <1>4, FillKeepsInv DEF BuildTable
<1> QED
  BY <1>1, <1>2, <1>3, <1>4

\* The walk for an unmapped page may build a table of directory 0, and names a
\* page unless it halts.
LEMMA UnmappedVAddrGrows ==
    ASSUME NEW m, MemInv(m), m.cpu = "run"
    PROVE  /\ Grows(m, GetUnmappedVAddr(m).mem)
           /\ GetUnmappedVAddr(m).vaddr # NullPtr =>
                 /\ GetUnmappedVAddr(m).vaddr \in VAddrs
                 /\ GetUnmappedVAddr(m).mem.cpu = "run"
<1> DEFINE open == {t \in Tables : Unmapped(m, t) # {}}
           t    == Smallest(open)
           m1   == IF open = {} THEN FatalError(m) ELSE BuildTable(m, PT(Kernel, 0, t))
           p    == Smallest(Unmapped(m, t))
<1>0. /\ GetUnmappedVAddr(m).mem = m1
      /\ GetUnmappedVAddr(m).vaddr = IF m1.cpu = "halt" THEN NullPtr ELSE <<0, t, p>>
  BY DEF GetUnmappedVAddr
<1>1. CASE open = {}
  BY <1>0, <1>1, FatalGrows
<1>2. CASE open # {}
  <2>1. open \in SUBSET Nat
    BY SizeAssumption DEF Tables
  <2>2. t \in open
    BY <1>2, <2>1, SmallestExists
  <2>3. t \in Tables /\ Unmapped(m, t) # {}
    BY <2>2
  <2>4. Unmapped(m, t) \in SUBSET Nat /\ Unmapped(m, t) \subseteq Pages
    BY SizeAssumption DEF Unmapped, Pages
  <2>5. p \in Pages
    BY <2>3, <2>4, SmallestExists
  <2> HIDE DEF p, t
  <2>6. PT(Kernel, 0, t) \in Slots /\ Anchored(m, PT(Kernel, 0, t))
    BY <2>3, KernelSlots, SlotMembership
    DEF Anchored, MemInv, KernelTables, PD0_FRAME
  <2>7. Grows(m, m1)
    BY <1>2, <2>6, BuildTableGrows
  <2>8. <<0, t, p>> \in VAddrs
    BY <2>3, <2>5, KernelSlots DEF VAddrs
  <2>9. m1.cpu \in {"run", "halt"}
    BY <2>7 DEF Grows, MemInv, MemType
  <2> QED
    BY <1>0, <2>7, <2>8, <2>9
<1> QED
  BY <1>1, <1>2

\* mapPage with an address: its failures leave tables behind, in order.
LEMMA MapPageAtGrows ==
    ASSUME NEW m, MemInv(m), NEW a \in AS, NEW v \in VAddrs, Live(m, a), m.cpu = "run"
    PROVE  Grows(m, MapPageAt(m, a, v).mem)
<1> DEFINE s    == Through(a, v[1])
           m1   == IF m.entry[PDPT(a)] = 0 THEN FatalError(m)
                   ELSE BuildTable(m, PD(a, v[1]))
           m2   == BuildTable(m1, PT(s, v[1], v[2]))
           leaf == PTE(s, v[1], v[2], v[3])
<1>0. MapPageAt(m, a, v).mem =
          IF m2.cpu = "halt" \/ m2.entry[leaf] # 0 \/ FreePhysPages(m2.used) = {}
          THEN m2 ELSE Fill(m2, leaf)
  BY DEF MapPageAt
<1>1. v[1] \in Dirs /\ v[2] \in Tables /\ v[3] \in Pages
  BY DEF VAddrs
<1>2. s \in AS /\ Through(s, v[1]) = s
  BY KernelSlots DEF Through
<1>3. /\ PD(a, v[1]) \in Slots /\ PD(s, v[1]) \in Slots
      /\ PT(s, v[1], v[2]) \in Slots /\ leaf \in Slots
  BY <1>1, <1>2, SlotMembership
<1> HIDE DEF s
<1>4. m.entry[PDPT(a)] # 0
  BY SlotMembership DEF MemInv, Closed, Live
<1>5. /\ Grows(m, m1)
      /\ m1.cpu = "run" => m1.entry[PD(a, v[1])] # 0
  BY <1>1, <1>3, <1>4, BuildTableGrows DEF Anchored
<1>6. m1.cpu = "run" => m1.entry[PD(s, v[1])] # 0
  <2>1. CASE v[1] = 0
    <3>1. s = Kernel
      BY <2>1 DEF s, Through
    <3> QED
      BY <2>1, <3>1, <1>5 DEF Grows, MemInv, KernelTables, PD0_FRAME
  <2>2. CASE v[1] # 0
    BY <2>2, <1>5 DEF s, Through
  <2> QED BY <2>1, <2>2
<1> HIDE DEF m1
<1>7. MemInv(m1)
  BY <1>5 DEF Grows
<1>8. /\ Grows(m1, m2)
      /\ m2.cpu = "run" => m2.entry[PT(s, v[1], v[2])] # 0
  <2>1. m1.cpu = "run" => Anchored(m1, PT(s, v[1], v[2]))
    BY <1>1, <1>2, <1>6 DEF Anchored
  <2> QED
    BY <2>1, <1>3, <1>7, BuildTableGrows
<1> HIDE DEF m2
<1>9. MemInv(m2) /\ Grows(m, m2) /\ m2.cpu \in {"run", "halt"}
  BY <1>5, <1>8, GrowsTransitive DEF Grows, MemInv, MemType
<1>10. CASE m2.cpu = "halt" \/ m2.entry[leaf] # 0 \/ FreePhysPages(m2.used) = {}
  BY <1>0, <1>9, <1>10
<1>11. CASE m2.cpu = "run" /\ m2.entry[leaf] = 0 /\ FreePhysPages(m2.used) # {}
  <2>1. Anchored(m2, leaf)
    BY <1>1, <1>2, <1>8, <1>11 DEF Anchored
  <2>2. Grows(m2, Fill(m2, leaf))
    BY <2>1, <1>3, <1>9, <1>11, FillKeepsInv
  <2> QED
    BY <1>0, <1>9, <1>11, <2>2, GrowsTransitive
<1> QED
  BY <1>9, <1>10, <1>11

\* mapPage, whether or not it is given an address.
LEMMA MapPageGrows ==
    ASSUME NEW m, MemInv(m), NEW a \in AS, NEW v \in VAddrs \cup {NullPtr},
           Live(m, a), m.cpu = "run"
    PROVE  Grows(m, MapPage(m, a, v).mem)
<1>1. CASE v = NullPtr
  <2> DEFINE u == GetUnmappedVAddr(m)
  <2>1. /\ Grows(m, u.mem)
        /\ u.vaddr # NullPtr => u.vaddr \in VAddrs /\ u.mem.cpu = "run"
    BY UnmappedVAddrGrows
  <2>2. MapPage(m, a, v).mem = IF u.vaddr = NullPtr THEN u.mem
                               ELSE MapPageAt(u.mem, a, u.vaddr).mem
    BY <1>1 DEF MapPage
  <2> HIDE DEF u
  <2>3. MemInv(u.mem) /\ Live(u.mem, a)
    BY <2>1, SlotMembership DEF Grows, Live
  <2>4. CASE u.vaddr = NullPtr
    BY <2>1, <2>2, <2>4
  <2>5. CASE u.vaddr # NullPtr
    <3>1. Grows(u.mem, MapPageAt(u.mem, a, u.vaddr).mem)
      BY <2>1, <2>3, <2>5, MapPageAtGrows
    <3> QED
      BY <2>1, <2>2, <2>3, <2>5, <3>1, GrowsTransitive
  <2> QED
    BY <2>4, <2>5
<1>2. CASE v \in VAddrs
  <2>1. v # NullPtr
    BY <1>2, NullAssumption
  <2>2. MapPage(m, a, v).mem = MapPageAt(m, a, v).mem
    BY <2>1 DEF MapPage
  <2> QED
    BY <1>2, <2>2, MapPageAtGrows
<1> QED
  BY <1>1, <1>2

\* unmapPage keeps the invariant when its caller passes a page that it got from
\* mapPage: in directory 0, and not one of the boot mappings.
LEMMA UnmapPageInv ==
    ASSUME NEW m, MemInv(m), NEW v \in VAddrs, v[1] = 0,
           m.entry[PTE(Kernel, v[1], v[2], v[3])] \notin Reserved \ {0}
    PROVE  MemInv(UnmapPage(m, v)) /\ Fresh(m, UnmapPage(m, v))
<1> DEFINE leaf == PTE(Kernel, v[1], v[2], v[3])
           f    == m.entry[leaf]
           n    == UnmapPage(m, v)
<1> USE DEF MemInv
<1>1. v[1] \in Dirs /\ v[2] \in Tables /\ v[3] \in Pages
  BY DEF VAddrs
<1>2. leaf \in Slots
  BY <1>1, KernelSlots, SlotMembership
<1>3. CASE n = m
  BY <1>3 DEF Fresh
<1>4. CASE n = [m EXCEPT !.used = @ \ {f}, !.entry[leaf] = 0] /\ f # 0
  <2>1. f \in Frames /\ f \notin Reserved
    BY <1>2, <1>4 DEF MemType
  <2>11. 0 \in Frames
    BY LowFramesReserved
  <2> HIDE DEF n, leaf
  <2>2. /\ n \in MemType /\ n.used = m.used \ {f} /\ n.entry[leaf] = 0
        /\ \A u \in Slots : u # leaf => n.entry[u] = m.entry[u]
    BY <1>2, <1>4, <2>11 DEF MemType
  <2>3. \A u \in Slots : m.entry[u] = f => u = leaf
    BY <1>2, <2>1 DEF Injective, Held
  <2>4. \A a, d, t : leaf # PML4(a) /\ leaf # PDPT(a) /\ leaf # PD(a, d) /\ leaf # PT(a, d, t)
    BY SlotsDiffer DEF leaf
  <2> HIDE DEF f
  <2>5. FramesAccounted(n)
    BY <1>2, <2>1, <2>2, <2>3, LowFramesReserved DEF FramesAccounted, f
  <2>6. Injective(n)
    BY <2>2, LowFramesReserved DEF Injective, Held
  <2>7. Closed(n)
    <3>1. \A u \in Slots : n.entry[u] # 0 => m.entry[u] # 0
      BY <2>2
    <3>2. \A a \in AS, d \in Dirs, t \in Tables : Through(a, d) = a => n.entry[PT(a, d, t)] = m.entry[PT(a, d, t)]
      BY <2>2, <2>4, SlotMembership
    <3>3. \A a \in AS : /\ n.entry[PML4(a)] = m.entry[PML4(a)]
                        /\ n.entry[PDPT(a)] = m.entry[PDPT(a)]
                        /\ \A d \in Dirs : n.entry[PD(a, d)] = m.entry[PD(a, d)]
      <4> TAKE a \in AS
      <4>1. PML4(a) \in Slots /\ PDPT(a) \in Slots /\ \A d \in Dirs : PD(a, d) \in Slots
        BY SlotMembership
      <4> QED
        BY <4>1, <2>2, <2>4
    <3> QED
      BY <3>1, <3>2, <3>3, SlotMembership DEF Closed
  <2>8. SharesKernel(n)
    <3>1. \A a \in Spaces : PML4(a) \in Slots /\ PD(a, 0) \in Slots
      BY SlotMembership, KernelSlots DEF AS
    <3> QED
      BY <2>2, <2>4, <3>1 DEF SharesKernel, Live
  <2>9. KernelTables(n)
    BY <2>2, <2>4, KernelSlots DEF KernelTables
  <2>10. Fresh(m, n)
    BY <2>2 DEF Fresh
  <2> QED
    BY <2>2, <2>5, <2>6, <2>7, <2>8, <2>9, <2>10 DEF n
<1> QED
  BY <1>3, <1>4 DEF UnmapPage

\* createPageDir makes a PML4 and a PDPT from two different free frames, or
\* leaves the memory as it was.
LEMMA CreatePageDirInv ==
    ASSUME NEW m, MemInv(m), NEW a \in Spaces, ~Live(m, a)
    PROVE  MemInv(CreatePageDir(m, a).mem) /\ Fresh(m, CreatePageDir(m, a).mem)
<1> DEFINE f == GetFreePhysPage(m.used)
           g == GetFreePhysPage(m.used \cup {f})
           n == CreatePageDir(m, a).mem
<1> USE DEF MemInv
<1>1. CASE f = NullPtr \/ g = NullPtr
  BY <1>1 DEF CreatePageDir, Fresh
<1>2. CASE f # NullPtr /\ g # NullPtr
  <2>1. f \in Frames \ m.used
    BY <1>2, FreePageIsFree DEF GetFreePhysPage, MemType
  <2>2. g \in Frames \ (m.used \cup {f})
    <3>1. m.used \cup {f} \in SUBSET Frames
      BY <2>1 DEF MemType
    <3>2. FreePhysPages(m.used \cup {f}) # {}
      BY <1>2 DEF GetFreePhysPage
    <3> HIDE DEF f
    <3> QED
      BY <3>1, <3>2, FreePageIsFree
  <2>3. /\ a \in AS /\ a # Kernel
        /\ PML4(a) \in Slots /\ PDPT(a) \in Slots /\ PD(a, 0) \in Slots
    BY SlotMembership, KernelSlots, SpaceAssumption DEF AS
  <2>4. PML4(a) # PDPT(a) /\ PML4(a) # PD(a, 0) /\ PDPT(a) # PD(a, 0)
    BY SlotsDiffer
  <2>5. n = [m EXCEPT !.used = @ \cup {f, g}, !.entry[PML4(a)] = f,
                      !.entry[PDPT(a)] = g, !.entry[PD(a, 0)] = PD0_FRAME]
    BY <1>2 DEF CreatePageDir
  <2> HIDE DEF n, f, g
  <2>6. /\ n \in MemType /\ n.used = m.used \cup {f, g}
        /\ n.entry[PML4(a)] = f /\ n.entry[PDPT(a)] = g /\ n.entry[PD(a, 0)] = PD0_FRAME
        /\ \A u \in Slots : u \notin {PML4(a), PDPT(a), PD(a, 0)} => n.entry[u] = m.entry[u]
    BY <2>1, <2>2, <2>3, <2>4, <2>5, LowFramesReserved DEF MemType
  <2>7. f \notin Reserved /\ g \notin Reserved /\ f # 0 /\ g # 0 /\ f # g
    BY <2>1, <2>2, LowFramesReserved DEF FramesAccounted
  <2>8. m.entry[PML4(a)] = 0 /\ m.entry[PDPT(a)] = 0 /\ m.entry[PD(a, 0)] = 0
    BY <2>3, KernelSlots DEF Closed, Live
  <2>9. FramesAccounted(n)
    BY <2>3, <2>6, <2>8, LowFramesReserved DEF FramesAccounted
  <2>10. Injective(n)
    <3>1. \A u \in Slots : m.entry[u] \in m.used
      BY DEF FramesAccounted
    <3>2. n.entry[PD(a, 0)] \in Reserved
      BY <2>6, LowFramesReserved
    <3> QED
      BY <2>1, <2>2, <2>6, <2>7, <3>1, <3>2 DEF Injective, Held
  <2>11. Closed(n)
    <3>1. \A u \in Slots : m.entry[u] # 0 => n.entry[u] # 0
      BY <2>6, <2>8
    <3>2. ASSUME NEW b \in AS
          PROVE  n.entry[PML4(b)] = 0 <=> n.entry[PDPT(b)] = 0
      <4>1. CASE b = a
        BY <4>1, <2>6, <2>7
      <4>2. CASE b # a
        <5>1. PML4(b) \notin {PML4(a), PDPT(a), PD(a, 0)}
          BY <4>2, SlotsDiffer DEF PML4
        <5>2. PDPT(b) \notin {PML4(a), PDPT(a), PD(a, 0)}
          BY <4>2, SlotsDiffer DEF PDPT
        <5> QED
          BY <5>1, <5>2, <2>6, SlotMembership DEF Closed
      <4> QED BY <4>1, <4>2
    <3>3. ASSUME NEW b \in AS, NEW d \in Dirs, n.entry[PD(b, d)] # 0
          PROVE  n.entry[PDPT(b)] # 0
      <4>1. CASE b = a
        BY <4>1, <2>6, <2>7
      <4>2. CASE b # a
        <5>1. PD(b, d) \notin {PML4(a), PDPT(a), PD(a, 0)}
          BY <4>2, SlotsDiffer DEF PD
        <5> QED
          BY <5>1, <3>1, <3>3, <2>6, SlotMembership DEF Closed
      <4> QED BY <4>1, <4>2
    <3>4. \A b \in AS, d \in Dirs, t \in Tables :
              Through(b, d) = b => n.entry[PT(b, d, t)] = m.entry[PT(b, d, t)]
      BY <2>6, SlotsDiffer, SlotMembership
    <3>5. \A b \in AS, d \in Dirs, t \in Tables, p \in Pages :
              Through(b, d) = b => n.entry[PTE(b, d, t, p)] = m.entry[PTE(b, d, t, p)]
      BY <2>6, SlotsDiffer, SlotMembership
    <3> QED
      BY <3>1, <3>2, <3>3, <3>4, <3>5, SlotMembership DEF Closed
  <2>12. SharesKernel(n)
    <3>1. ASSUME NEW b \in Spaces, Live(n, b)
          PROVE  n.entry[PD(b, 0)] = PD0_FRAME
      <4>1. CASE b = a
        BY <4>1, <2>6
      <4>2. CASE b # a
        <5>1. PML4(b) \notin {PML4(a), PDPT(a), PD(a, 0)}
          BY <4>2, SlotsDiffer DEF PML4
        <5>2. PD(b, 0) \notin {PML4(a), PDPT(a), PD(a, 0)}
          BY <4>2, SlotsDiffer DEF PD
        <5>3. PML4(b) \in Slots /\ PD(b, 0) \in Slots
          BY SlotMembership, KernelSlots DEF AS
        <5> QED
          BY <5>1, <5>2, <5>3, <3>1, <2>6 DEF SharesKernel, Live
      <4> QED BY <4>1, <4>2
    <3>2. PD(a, 0)[2] = a
      BY DEF PD
    <3> QED
      BY <3>1, <3>2, <2>6, <2>7 DEF SharesKernel
  <2>13. KernelTables(n)
    <3>1. /\ PML4(Kernel) \notin {PML4(a), PDPT(a), PD(a, 0)}
          /\ PDPT(Kernel) \notin {PML4(a), PDPT(a), PD(a, 0)}
          /\ PD(Kernel, 0) \notin {PML4(a), PDPT(a), PD(a, 0)}
      BY <2>3, SlotsDiffer DEF PML4, PDPT, PD
    <3> QED
      BY <3>1, <2>6, KernelSlots DEF KernelTables
  <2>14. Fresh(m, n)
    BY <2>1, <2>2, <2>6, <2>8 DEF Fresh
  <2> QED
    BY <2>6, <2>9, <2>10, <2>11, <2>12, <2>13, <2>14 DEF n
<1> QED
  BY <1>1, <1>2

\* destroyPageDir's walk comes across every frame the address space holds, except
\* the shared directory 0.
LEMMA WalkIsComplete ==
    ASSUME NEW m, MemInv(m), NEW a \in Spaces, Live(m, a), NEW s \in Slots,
           s[2] = a, m.entry[s] \notin {0, PD0_FRAME}
    PROVE  m.entry[s] \in WalkPageDir(m, a)
<1> USE DEF MemInv
<1>0. a \in AS /\ a # Kernel
  BY SpaceAssumption DEF AS
<1>1. \A d \in Dirs, t \in Tables :
          Through(a, d) = a /\ m.entry[PT(a, d, t)] # 0 => m.entry[PD(a, d)] \notin {0, PD0_FRAME}
  <2> SUFFICES ASSUME NEW d \in Dirs, NEW t \in Tables, Through(a, d) = a,
                      m.entry[PT(a, d, t)] # 0
               PROVE  m.entry[PD(a, d)] \notin {0, PD0_FRAME}
    OBVIOUS
  <2>1. m.entry[PD(a, d)] # 0
    BY <1>0 DEF Closed
  <2>2. d # 0
    BY <1>0 DEF Through
  <2>3. PD(a, d) # PD(a, 0)
    BY <2>2 DEF PD
  <2>4. PD(a, d) \in Slots /\ PD(a, d)[2] = a
    BY <1>0, SlotMembership DEF PD
  <2>5. PD0_FRAME \in Reserved \ {0}
    BY LowFramesReserved DEF PD0_FRAME
  <2> QED
    BY <1>0, <2>1, <2>3, <2>4, <2>5 DEF SharesKernel
<1>2. CASE \E b \in AS : s = PML4(b) \/ s = PDPT(b)
  BY <1>2, SlotKinds DEF WalkPageDir
<1>3. CASE \E b \in AS, d \in Dirs : s = PD(b, d)
  BY <1>3, SlotKinds DEF WalkPageDir
<1>4. CASE \E b \in AS, d \in Dirs, t \in Tables : Through(b, d) = b /\ s = PT(b, d, t)
  <2>1. PICK d \in Dirs, t \in Tables : Through(a, d) = a /\ s = PT(a, d, t)
    BY <1>4, SlotKinds
  <2>2. <<d, t>> \in {x \in {e \in Dirs : m.entry[PD(a, e)] \notin {0, PD0_FRAME}} \X Tables :
                          m.entry[PT(a, x[1], x[2])] # 0}
    BY <1>1, <2>1
  <2> QED
    BY <2>1, <2>2 DEF WalkPageDir
<1>5. CASE \E b \in AS, d \in Dirs, t \in Tables, p \in Pages :
               Through(b, d) = b /\ s = PTE(b, d, t, p)
  <2>1. PICK d \in Dirs, t \in Tables, p \in Pages :
            Through(a, d) = a /\ s = PTE(a, d, t, p)
    BY <1>5, SlotKinds
  <2>2. m.entry[PT(a, d, t)] # 0
    BY <1>0, <2>1 DEF Closed
  <2> DEFINE tables == {x \in {e \in Dirs : m.entry[PD(a, e)] \notin {0, PD0_FRAME}} \X Tables :
                            m.entry[PT(a, x[1], x[2])] # 0}
             leaves == {y \in tables \X Pages : m.entry[PTE(a, y[1][1], y[1][2], y[2])] # 0}
  <2>3. <<d, t>> \in tables
    BY <1>1, <2>1, <2>2
  <2> HIDE DEF tables
  <2>4. <<<<d, t>>, p>> \in leaves
    BY <2>1, <2>3
  <2>5. m.entry[s] \in {m.entry[PTE(a, y[1][1], y[1][2], y[2])] : y \in leaves}
    BY <2>1, <2>4
  <2> QED
    BY <2>5 DEF WalkPageDir, tables
<1> QED
  BY <1>2, <1>3, <1>4, <1>5, SlotCases

\* And nothing else: what it frees is held by that address space and was not
\* reserved at boot.
LEMMA WalkIsOwned ==
    ASSUME NEW m, MemInv(m), NEW a \in Spaces, Live(m, a), NEW f \in WalkPageDir(m, a)
    PROVE  f \notin Reserved /\ \E s \in Slots : s[2] = a /\ m.entry[s] = f
<1> USE DEF MemInv
<1>0. a \in AS /\ a # Kernel
  BY SpaceAssumption DEF AS
<1>1. ASSUME NEW s \in Slots, s[2] = a, m.entry[s] \notin {0, PD0_FRAME}
      PROVE  m.entry[s] \notin Reserved
  <2>1. CASE s = PD(a, 0)
    BY <1>1, <2>1 DEF SharesKernel, Closed, Live
  <2>2. CASE s # PD(a, 0)
    BY <1>0, <1>1, <2>2 DEF SharesKernel
  <2> QED BY <2>1, <2>2
<1>2. ASSUME NEW s \in Slots, s[2] = a, m.entry[s] # 0, s # PD(a, 0)
      PROVE  m.entry[s] \notin Reserved
  BY <1>0, <1>2 DEF SharesKernel
<1>3. PML4(a) # PD(a, 0) /\ PDPT(a) # PD(a, 0) /\ PML4(a)[2] = a /\ PDPT(a)[2] = a
  BY SlotsDiffer, SlotKinds
<1>4. CASE f \in {m.entry[PML4(a)], m.entry[PDPT(a)]}
  BY <1>0, <1>2, <1>3, <1>4, SlotMembership DEF Live, Closed
<1>5. CASE \E d \in Dirs : f = m.entry[PD(a, d)] /\ f \notin {0, PD0_FRAME}
  BY <1>0, <1>1, <1>5, SlotMembership, SlotKinds
<1>6. CASE \E d \in Dirs, t \in Tables :
               /\ m.entry[PD(a, d)] \notin {0, PD0_FRAME}
               /\ f = m.entry[PT(a, d, t)] /\ f # 0
  <2>1. PICK d \in Dirs, t \in Tables :
               /\ m.entry[PD(a, d)] \notin {0, PD0_FRAME}
               /\ f = m.entry[PT(a, d, t)] /\ f # 0
    BY <1>6
  <2>2. d # 0
    BY <2>1 DEF SharesKernel
  <2>3. PT(a, d, t) \in Slots /\ PT(a, d, t)[2] = a /\ PT(a, d, t) # PD(a, 0)
    BY <1>0, <2>2, SlotMembership, SlotKinds, SlotsDiffer DEF Through
  <2> QED
    BY <1>2, <2>1, <2>3
<1>7. CASE \E d \in Dirs, t \in Tables, p \in Pages :
               /\ m.entry[PD(a, d)] \notin {0, PD0_FRAME}
               /\ f = m.entry[PTE(a, d, t, p)] /\ f # 0
  <2>1. PICK d \in Dirs, t \in Tables, p \in Pages :
               /\ m.entry[PD(a, d)] \notin {0, PD0_FRAME}
               /\ f = m.entry[PTE(a, d, t, p)] /\ f # 0
    BY <1>7
  <2>2. d # 0
    BY <2>1 DEF SharesKernel
  <2>3. PTE(a, d, t, p) \in Slots /\ PTE(a, d, t, p)[2] = a /\ PTE(a, d, t, p) # PD(a, 0)
    BY <1>0, <2>2, SlotMembership, SlotKinds, SlotsDiffer DEF Through
  <2> QED
    BY <1>2, <2>1, <2>3
<1> QED
  BY <1>4, <1>5, <1>6, <1>7 DEF WalkPageDir

\* destroyPageDir leaves the memory in order.
LEMMA DestroyPageDirInv ==
    ASSUME NEW m, MemInv(m), NEW a \in Spaces, Live(m, a)
    PROVE  MemInv(DestroyPageDir(m, a)) /\ Fresh(m, DestroyPageDir(m, a))
<1> DEFINE n == DestroyPageDir(m, a)
           w == WalkPageDir(m, a)
<1> USE DEF MemInv
<1>0. a \in AS /\ a # Kernel /\ 0 \in Frames /\ 0 \in Reserved
  BY SpaceAssumption, LowFramesReserved DEF AS
<1>1. /\ n \in MemType /\ n.used = m.used \ w
      /\ \A s \in Slots : n.entry[s] = IF s[2] = a THEN 0 ELSE m.entry[s]
  BY <1>0 DEF DestroyPageDir, MemType
<1>2. \A f \in w : f \notin Reserved /\ \E s \in Slots : s[2] = a /\ m.entry[s] = f
  BY WalkIsOwned
<1>3. \A s \in Slots : s[2] = a => m.entry[s] \in w \/ m.entry[s] \in {0, PD0_FRAME}
  BY WalkIsComplete
<1> HIDE DEF n, w
<1>4. FramesAccounted(n)
  <2>1. ASSUME NEW f, f \in n.used
        PROVE  f \in Reserved \cup {n.entry[s] : s \in Slots}
    <3>1. CASE f \in Reserved
      BY <3>1
    <3>2. CASE f \notin Reserved
      <4>1. PICK s \in Slots : m.entry[s] = f
        BY <1>1, <2>1, <3>2 DEF FramesAccounted
      <4>2. s[2] # a
        BY <1>1, <1>3, <2>1, <3>2, <4>1, LowFramesReserved
      <4> QED
        BY <1>1, <4>1, <4>2
    <3> QED BY <3>1, <3>2
  <2>2. ASSUME NEW f \in Reserved
        PROVE  f \in n.used
    BY <1>1, <1>2 DEF FramesAccounted
  <2>3. ASSUME NEW s \in Slots
        PROVE  n.entry[s] \in n.used
    <3>1. CASE s[2] = a
      BY <3>1, <1>0, <1>1, <2>2
    <3>2. CASE s[2] # a
      <4>1. n.entry[s] = m.entry[s] /\ m.entry[s] \in m.used
        BY <3>2, <1>1 DEF FramesAccounted
      <4>2. m.entry[s] \notin w
        BY <1>2, <3>2 DEF Injective, Held
      <4> QED
        BY <4>1, <4>2, <1>1
    <3> QED BY <3>1, <3>2
  <2> QED
    BY <2>1, <2>2, <2>3 DEF FramesAccounted
<1>5. Injective(n)
  BY <1>0, <1>1 DEF Injective, Held
<1>6. Closed(n)
  <2> SUFFICES ASSUME NEW b \in AS
               PROVE  /\ n.entry[PML4(b)] = 0 <=> n.entry[PDPT(b)] = 0
                      /\ \A d \in Dirs : n.entry[PD(b, d)] # 0 => n.entry[PDPT(b)] # 0
                      /\ \A d \in {e \in Dirs : Through(b, e) = b}, t \in Tables :
                            /\ n.entry[PT(b, d, t)] # 0 => n.entry[PD(b, d)] # 0
                            /\ \A p \in Pages :
                                  n.entry[PTE(b, d, t, p)] # 0 => n.entry[PT(b, d, t)] # 0
    BY DEF Closed
  <2>1. CASE b = a
    BY <2>1, <1>1, SlotMembership, SlotKinds
  <2>2. CASE b # a
    <3>1. /\ n.entry[PML4(b)] = m.entry[PML4(b)] /\ n.entry[PDPT(b)] = m.entry[PDPT(b)]
          /\ \A d \in Dirs : n.entry[PD(b, d)] = m.entry[PD(b, d)]
      BY <2>2, <1>1, SlotMembership, SlotKinds
    <3>2. \A d \in Dirs, t \in Tables :
              Through(b, d) = b =>
                /\ n.entry[PT(b, d, t)] = m.entry[PT(b, d, t)]
                /\ \A p \in Pages : n.entry[PTE(b, d, t, p)] = m.entry[PTE(b, d, t, p)]
      BY <2>2, <1>1, SlotMembership, SlotKinds
    <3> QED
      BY <3>1, <3>2 DEF Closed
  <2> QED BY <2>1, <2>2
<1>7. SharesKernel(n)
  <2>1. ASSUME NEW b \in Spaces, Live(n, b)
        PROVE  n.entry[PD(b, 0)] = PD0_FRAME
    <3>1. PML4(b) \in Slots /\ PD(b, 0) \in Slots /\ PML4(b)[2] = b /\ PD(b, 0)[2] = b
      BY SlotMembership, KernelSlots, SlotKinds DEF AS
    <3> QED
      BY <1>1, <2>1, <3>1 DEF SharesKernel, Live
  <2>2. \A s \in Slots : n.entry[s] \in Reserved \ {0} => s[2] = Kernel \/ s = PD(s[2], 0)
    BY <1>1 DEF SharesKernel
  <2> QED
    BY <2>1, <2>2 DEF SharesKernel
<1>8. KernelTables(n)
  BY <1>0, <1>1, KernelSlots, SlotKinds DEF KernelTables
<1>9. Fresh(m, n)
  BY <1>1 DEF Fresh
<1> QED
  BY <1>1, <1>4, <1>5, <1>6, <1>7, <1>8, <1>9 DEF n

(***************************************************************************)
(* Which entries a call changes.                                           *)
(***************************************************************************)
Changes(m, n, S) == \A u \in Slots \ S : n.entry[u] = m.entry[u]

\* BuildTable changes the entry it builds, and none when that is present.
LEMMA BuildTableChanges ==
    ASSUME NEW m, MemInv(m), NEW s \in Slots
    PROVE  /\ Changes(m, BuildTable(m, s), {s})
           /\ m.entry[s] # 0 => BuildTable(m, s) = m
           /\ BuildTable(m, s).cpu = "run" => m.cpu = "run"
<1>0. m.cpu \in {"run", "halt"}
  BY DEF MemInv, MemType
<1>1. CASE m.cpu = "halt" \/ m.entry[s] # 0
  BY <1>0, <1>1 DEF BuildTable, Changes
<1>2. CASE m.cpu = "run" /\ m.entry[s] = 0 /\ FreePhysPages(m.used) = {}
  <2>1. FatalError(m).entry = m.entry
    BY DEF FatalError, MemInv, MemType
  <2> QED
    BY <1>2, <2>1 DEF BuildTable, Changes
<1>3. CASE m.cpu = "run" /\ m.entry[s] = 0 /\ FreePhysPages(m.used) # {}
  BY <1>3, FillFields DEF BuildTable, Changes, MemInv
<1> QED
  BY <1>0, <1>1, <1>2, <1>3

\* The entries that mapPage(v) may change in the tables that translate v.
MapSlots(a, v) ==
    {PT(Through(a, v[1]), v[1], v[2]), PTE(Through(a, v[1]), v[1], v[2], v[3])}
      \cup (IF v[1] = 0 THEN {} ELSE {PD(a, v[1])})

\* mapPage(v) changes the entries on the way to v, and the page's own exactly when
\* it says so.  Directory 0 is always there.
LEMMA MapPageAtChanges ==
    ASSUME NEW m, MemInv(m), NEW a \in AS, NEW v \in VAddrs, Live(m, a), m.cpu = "run"
    PROVE  LET r    == MapPageAt(m, a, v)
               leaf == PTE(Through(a, v[1]), v[1], v[2], v[3])
           IN  /\ Changes(m, r.mem, MapSlots(a, v))
               /\ r.vaddr \in {v, NullPtr}
               /\ r.vaddr = NullPtr => r.mem.entry[leaf] = m.entry[leaf]
               /\ r.vaddr # NullPtr => /\ m.entry[leaf] = 0
                                       /\ r.mem.entry[leaf] \notin Reserved
                                       /\ r.mem.cpu = "run"
<1> DEFINE s    == Through(a, v[1])
           m1   == IF m.entry[PDPT(a)] = 0 THEN FatalError(m)
                   ELSE BuildTable(m, PD(a, v[1]))
           m2   == BuildTable(m1, PT(s, v[1], v[2]))
           leaf == PTE(s, v[1], v[2], v[3])
           r    == MapPageAt(m, a, v)
<1>0. r = IF m2.cpu = "halt" \/ m2.entry[leaf] # 0 \/ FreePhysPages(m2.used) = {}
          THEN [mem |-> m2, vaddr |-> NullPtr]
          ELSE [mem |-> Fill(m2, leaf), vaddr |-> v]
  BY DEF MapPageAt
<1>1. v[1] \in Dirs /\ v[2] \in Tables /\ v[3] \in Pages
  BY DEF VAddrs
<1>2. s \in AS /\ Through(s, v[1]) = s
  BY KernelSlots DEF Through
<1>3. /\ PD(a, v[1]) \in Slots /\ PD(s, v[1]) \in Slots
      /\ PT(s, v[1], v[2]) \in Slots /\ leaf \in Slots
  BY <1>1, <1>2, SlotMembership
<1>4. m.entry[PDPT(a)] # 0
  BY SlotMembership DEF MemInv, Closed, Live
<1>5. v[1] = 0 => m.entry[PD(a, v[1])] # 0
  BY KernelSlots DEF MemInv, SharesKernel, KernelTables, AS, PD0_FRAME
<1> HIDE DEF s
<1>6. /\ Changes(m, m1, IF v[1] = 0 THEN {} ELSE {PD(a, v[1])})
      /\ Grows(m, m1)
      /\ m1.cpu = "run" => m1.entry[PD(a, v[1])] # 0
  <2>1. m1 = BuildTable(m, PD(a, v[1]))
    BY <1>4
  <2>2. Grows(m, m1) /\ (m1.cpu = "run" => m1.entry[PD(a, v[1])] # 0)
    BY <1>1, <1>3, <1>4, <2>1, BuildTableGrows DEF Anchored
  <2>3. Changes(m, m1, {PD(a, v[1])}) /\ (v[1] = 0 => m1 = m)
    BY <1>3, <1>5, <2>1, BuildTableChanges
  <2> HIDE DEF m1
  <2> QED
    BY <2>2, <2>3 DEF Changes
<1>7. m1.cpu = "run" => Anchored(m1, PT(s, v[1], v[2]))
  <2>1. CASE v[1] = 0
    <3>1. s = Kernel
      BY <2>1 DEF s, Through
    <3> QED
      BY <1>1, <1>2, <2>1, <3>1, <1>6 DEF Anchored, Grows, MemInv, KernelTables, PD0_FRAME
  <2>2. CASE v[1] # 0
    BY <1>1, <1>2, <2>2, <1>6 DEF Anchored, s, Through
  <2> QED BY <2>1, <2>2
<1>8. MemInv(m1)
  BY <1>6 DEF Grows
<1> HIDE DEF m1
<1>9. MemInv(m2) /\ Changes(m1, m2, {PT(s, v[1], v[2])})
  BY <1>3, <1>7, <1>8, BuildTableGrows, BuildTableChanges DEF Grows
<1>10. m2.cpu \in {"run", "halt"}
  BY <1>9 DEF MemInv, MemType
<1> HIDE DEF m2
<1>11. /\ Changes(m, m2, MapSlots(a, v)) /\ m2.entry[leaf] = m.entry[leaf]
  <2>1. leaf # PT(s, v[1], v[2]) /\ leaf # PD(a, v[1])
    BY SlotsDiffer
  <2> QED
    BY <1>3, <1>6, <1>9, <2>1 DEF Changes, MapSlots, s
<1>12. CASE m2.cpu = "halt" \/ m2.entry[leaf] # 0 \/ FreePhysPages(m2.used) = {}
  BY <1>0, <1>11, <1>12 DEF s
<1>13. CASE m2.cpu = "run" /\ m2.entry[leaf] = 0 /\ FreePhysPages(m2.used) # {}
  <2> DEFINE n == Fill(m2, leaf)
  <2>1. /\ n.cpu = "run" /\ n.entry[leaf] \notin Reserved
        /\ \A u \in Slots : u # leaf => n.entry[u] = m2.entry[u]
    BY <1>3, <1>9, <1>13, FillFields DEF MemInv
  <2>2. r.mem = n /\ r.vaddr = v /\ v # NullPtr
    BY <1>0, <1>13, NullAssumption
  <2> HIDE DEF n, r
  <2>3. leaf \in MapSlots(a, v)
    BY DEF MapSlots, s
  <2>4. Changes(m, n, MapSlots(a, v))
    BY <1>11, <2>1, <2>3 DEF Changes
  <2> QED
    BY <1>11, <1>13, <2>1, <2>2, <2>4 DEF r, s
<1> QED
  BY <1>10, <1>12, <1>13

\* getUnmappedVAddr changes at most the table of the page it names, which was not
\* mapped and which it leaves with a table.
LEMMA UnmappedVAddrChanges ==
    ASSUME NEW m, MemInv(m), m.cpu = "run"
    PROVE  LET r == GetUnmappedVAddr(m)
           IN  /\ \E t \in Tables : Changes(m, r.mem, {PT(Kernel, 0, t)})
               /\ r.vaddr # NullPtr =>
                    \E t \in Tables, p \in Pages :
                        /\ r.vaddr = <<0, t, p>>
                        /\ Changes(m, r.mem, {PT(Kernel, 0, t)})
                        /\ t = 0 => p >= FirstPage
                        /\ m.entry[PTE(Kernel, 0, t, p)] = 0
<1> DEFINE open == {t \in Tables : Unmapped(m, t) # {}}
           t    == Smallest(open)
           m1   == IF open = {} THEN FatalError(m) ELSE BuildTable(m, PT(Kernel, 0, t))
           p    == Smallest(Unmapped(m, t))
           r    == GetUnmappedVAddr(m)
<1>0. r.mem = m1 /\ r.vaddr = IF m1.cpu = "halt" THEN NullPtr ELSE <<0, t, p>>
  BY DEF GetUnmappedVAddr
<1>1. CASE open = {}
  <2>1. m1.cpu = "halt" /\ m1.entry = m.entry
    BY <1>1 DEF FatalError, MemInv, MemType
  <2> QED
    BY <1>0, <2>1, KernelSlots DEF Changes
<1>2. CASE open # {}
  <2>1. open \in SUBSET Nat
    BY SizeAssumption DEF Tables
  <2>2. t \in Tables /\ Unmapped(m, t) # {}
    BY <1>2, <2>1, SmallestExists
  <2>3. Unmapped(m, t) \in SUBSET Nat
    BY SizeAssumption DEF Unmapped, Pages
  <2>4. p \in Unmapped(m, t)
    BY <2>2, <2>3, SmallestExists
  <2> HIDE DEF p, t
  <2>5. p \in Pages /\ m.entry[PTE(Kernel, 0, t, p)] = 0 /\ (t = 0 => p >= FirstPage)
    BY <2>4 DEF Unmapped
  <2>6. PT(Kernel, 0, t) \in Slots
    BY <2>2, KernelSlots, SlotMembership
  <2>7. Changes(m, m1, {PT(Kernel, 0, t)})
    BY <1>2, <2>6, BuildTableChanges
  <2> HIDE DEF m1, r
  <2>8. \E u \in Tables : Changes(m, r.mem, {PT(Kernel, 0, u)})
    BY <1>0, <2>2, <2>7
  <2>9. ASSUME r.vaddr # NullPtr
        PROVE  \E u \in Tables, q \in Pages :
                   /\ r.vaddr = <<0, u, q>>
                   /\ Changes(m, r.mem, {PT(Kernel, 0, u)})
                   /\ u = 0 => q >= FirstPage
                   /\ m.entry[PTE(Kernel, 0, u, q)] = 0
    BY <1>0, <2>2, <2>5, <2>7, <2>9
  <2> QED
    BY <2>8, <2>9 DEF r
<1> QED
  BY <1>1, <1>2

\* mapPage without an address maps a page of directory 0, in the kernel's tables
\* whatever the address space, and tells which; or none.
LEMMA MapAnyChanges ==
    ASSUME NEW m, MemInv(m), NEW a \in AS, Live(m, a), m.cpu = "run"
    PROVE  LET r == MapPage(m, a, NullPtr)
           IN  /\ r.vaddr = NullPtr =>
                    \E t \in Tables, p \in Pages :
                        /\ Changes(m, r.mem, {PT(Kernel, 0, t), PTE(Kernel, 0, t, p)})
                        /\ r.mem.entry[PTE(Kernel, 0, t, p)] = m.entry[PTE(Kernel, 0, t, p)]
               /\ r.vaddr # NullPtr =>
                    \E t \in Tables, p \in Pages :
                        /\ Changes(m, r.mem, {PT(Kernel, 0, t), PTE(Kernel, 0, t, p)})
                        /\ r.vaddr = <<0, t, p>>
                        /\ m.entry[PTE(Kernel, 0, t, p)] = 0
                        /\ r.mem.entry[PTE(Kernel, 0, t, p)] \notin Reserved
                        /\ r.mem.cpu = "run"
<1> DEFINE u == GetUnmappedVAddr(m)
           r == MapPage(m, a, NullPtr)
<1>1. r = IF u.vaddr = NullPtr THEN u ELSE MapPageAt(u.mem, a, u.vaddr)
  BY DEF MapPage
<1>2. /\ \E t \in Tables : Changes(m, u.mem, {PT(Kernel, 0, t)})
      /\ u.vaddr # NullPtr =>
           \E t \in Tables, p \in Pages :
               /\ u.vaddr = <<0, t, p>>
               /\ Changes(m, u.mem, {PT(Kernel, 0, t)})
               /\ m.entry[PTE(Kernel, 0, t, p)] = 0
  BY UnmappedVAddrChanges
<1>3. /\ MemInv(u.mem) /\ Live(u.mem, a)
      /\ u.vaddr # NullPtr => u.vaddr \in VAddrs /\ u.mem.cpu = "run"
  BY UnmappedVAddrGrows, SlotMembership DEF Grows, Live
<1>4. \A t \in Tables, p \in Pages :
          PTE(Kernel, 0, t, p) \in Slots /\ PTE(Kernel, 0, t, p) # PT(Kernel, 0, t)
  BY KernelSlots, SlotMembership, SlotsDiffer
<1> HIDE DEF u, r
<1>5. CASE u.vaddr = NullPtr
  <2>1. 0 \in Pages
    BY SizeAssumption DEF Pages
  <2>2. PICK t \in Tables : Changes(m, u.mem, {PT(Kernel, 0, t)})
    BY <1>2
  <2>3. /\ Changes(m, u.mem, {PT(Kernel, 0, t), PTE(Kernel, 0, t, 0)})
        /\ u.mem.entry[PTE(Kernel, 0, t, 0)] = m.entry[PTE(Kernel, 0, t, 0)]
    BY <1>4, <2>1, <2>2 DEF Changes
  <2> QED
    BY <1>1, <1>5, <2>1, <2>3 DEF r
<1>6. CASE u.vaddr # NullPtr
  <2> DEFINE v == u.vaddr
             w == MapPageAt(u.mem, a, v)
  <2>1. PICK t \in Tables, p \in Pages :
            /\ v = <<0, t, p>>
            /\ Changes(m, u.mem, {PT(Kernel, 0, t)})
            /\ m.entry[PTE(Kernel, 0, t, p)] = 0
    BY <1>2, <1>6
  <2>2. v[1] = 0 /\ v[2] = t /\ v[3] = p /\ Through(a, v[1]) = Kernel
    BY <2>1 DEF Through
  <2>3. /\ Changes(u.mem, w.mem, {PT(Kernel, 0, t), PTE(Kernel, 0, t, p)})
        /\ w.vaddr \in {v, NullPtr}
        /\ w.vaddr = NullPtr =>
             w.mem.entry[PTE(Kernel, 0, t, p)] = u.mem.entry[PTE(Kernel, 0, t, p)]
        /\ w.vaddr # NullPtr => /\ w.mem.entry[PTE(Kernel, 0, t, p)] \notin Reserved
                                /\ w.mem.cpu = "run"
    BY <1>3, <1>6, <2>2, MapPageAtChanges, SMTT(30) DEF MapSlots
  <2>4. u.mem.entry[PTE(Kernel, 0, t, p)] = m.entry[PTE(Kernel, 0, t, p)]
    BY <1>4, <2>1 DEF Changes
  <2>5. Changes(m, w.mem, {PT(Kernel, 0, t), PTE(Kernel, 0, t, p)})
    BY <2>1, <2>3 DEF Changes
  <2>6. r = w
    BY <1>1, <1>6
  <2> HIDE DEF w, v
  <2>7. CASE w.vaddr = NullPtr
    BY <2>3, <2>4, <2>5, <2>6, <2>7 DEF r
  <2>8. CASE w.vaddr # NullPtr
    BY <2>1, <2>3, <2>5, <2>6, <2>8 DEF r
  <2> QED BY <2>7, <2>8
<1> QED
  BY <1>5, <1>6

\* createPageDir makes the address space live or changes nothing.
LEMMA CreateChanges ==
    ASSUME NEW m, MemInv(m), NEW a \in Spaces
    PROVE  LET r == CreatePageDir(m, a)
           IN  /\ Changes(m, r.mem, {PML4(a), PDPT(a), PD(a, 0)})
               /\ r.mem.cpu = m.cpu
               /\ r.pml4 = NullPtr => r.mem = m
               /\ r.pml4 # NullPtr => Live(r.mem, a)
<1> DEFINE f == GetFreePhysPage(m.used)
           g == GetFreePhysPage(m.used \cup {f})
           r == CreatePageDir(m, a)
<1>0. a \in AS /\ PML4(a) \in Slots /\ PDPT(a) \in Slots /\ PD(a, 0) \in Slots /\ a # NullPtr
  BY SlotMembership, KernelSlots, NullAssumption DEF AS
<1>1. CASE f = NullPtr \/ g = NullPtr
  BY <1>1 DEF CreatePageDir, Changes
<1>2. CASE f # NullPtr /\ g # NullPtr
  <2>1. f # 0
    <3>1. f \in Frames \ m.used
      BY <1>2, FreePageIsFree DEF MemInv, MemType, GetFreePhysPage
    <3> QED
      BY <3>1, LowFramesReserved DEF MemInv, FramesAccounted
  <2>2. /\ r.mem.cpu = m.cpu /\ r.pml4 = a
        /\ r.mem.entry = [m.entry EXCEPT ![PML4(a)] = f, ![PDPT(a)] = g, ![PD(a, 0)] = PD0_FRAME]
    <3>1. r = [mem  |-> [m EXCEPT !.used = @ \cup {f, g},
                                  !.entry[PML4(a)] = f,
                                  !.entry[PDPT(a)] = g,
                                  !.entry[PD(a, 0)] = PD0_FRAME],
               pml4 |-> a]
      BY <1>2 DEF CreatePageDir
    <3> HIDE DEF f, g, r
    <3> QED BY <3>1 DEF MemInv, MemType
  <2>3. m.entry \in [Slots -> Frames]
    BY DEF MemInv, MemType
  <2> HIDE DEF f, g, r
  <2>4. /\ r.mem.entry[PML4(a)] = f
        /\ \A u \in Slots \ {PML4(a), PDPT(a), PD(a, 0)} : r.mem.entry[u] = m.entry[u]
    BY <1>0, <2>2, <2>3, SlotsDiffer
  <2> QED
    BY <1>0, <2>1, <2>2, <2>4 DEF Live, Changes, r
<1> QED
  BY <1>1, <1>2

\* destroyPageDir empties the address space and touches no other.
LEMMA DestroyChanges ==
    ASSUME NEW m, MemInv(m), NEW a \in Spaces
    PROVE  LET n == DestroyPageDir(m, a)
           IN  /\ Changes(m, n, {s \in Slots : s[2] = a})
               /\ \A s \in Slots : s[2] = a => n.entry[s] = 0
               /\ n.used = m.used \ WalkPageDir(m, a)
               /\ n.cpu = m.cpu
               /\ ~Live(n, a)
<1> DEFINE n == DestroyPageDir(m, a)
<1>1. PML4(a) \in Slots /\ PML4(a)[2] = a
  BY SlotMembership, SlotKinds DEF AS
<1>2. /\ n.cpu = m.cpu /\ n.entry = [s \in Slots |-> IF s[2] = a THEN 0 ELSE m.entry[s]]
      /\ n.used = m.used \ WalkPageDir(m, a)
  BY DEF DestroyPageDir, MemInv, MemType
<1> HIDE DEF n
<1>3. \A s \in Slots : n.entry[s] = IF s[2] = a THEN 0 ELSE m.entry[s]
  BY <1>2
<1> QED
  BY <1>1, <1>2, <1>3 DEF n, Live, Changes

\* unmapPage changes the entry of its page, which is 0 afterwards.
LEMMA UnmapChanges ==
    ASSUME NEW m, MemInv(m), NEW v \in VAddrs, v[1] = 0
    PROVE  LET leaf == PTE(Kernel, v[1], v[2], v[3])
               n    == UnmapPage(m, v)
           IN  /\ Changes(m, n, {leaf}) /\ n.cpu = m.cpu
               /\ n.entry[leaf] = 0
               /\ n.used = m.used \ ({m.entry[leaf]} \ {0})
<1> DEFINE leaf == PTE(Kernel, v[1], v[2], v[3])
           n    == UnmapPage(m, v)
<1>1. v[1] \in Dirs /\ v[2] \in Tables /\ v[3] \in Pages
  BY DEF VAddrs
<1>2. leaf \in Slots /\ m.entry \in [Slots -> Frames]
  BY <1>1, KernelSlots, SlotMembership DEF MemInv, MemType
<1>3. CASE m.entry[leaf] = 0
  BY <1>3 DEF UnmapPage, Changes
<1>4. CASE m.entry[leaf] # 0
  <2>1. m.entry[PT(Kernel, v[1], v[2])] # 0 /\ m.entry[PD(Kernel, v[1])] # 0
    BY <1>1, <1>4, KernelSlots DEF MemInv, Closed
  <2>2. n = [m EXCEPT !.used = @ \ {m.entry[leaf]}, !.entry[leaf] = 0]
    BY <1>4, <2>1 DEF UnmapPage
  <2>3. /\ n.used = m.used \ {m.entry[leaf]} /\ n.cpu = m.cpu
        /\ n.entry = [m.entry EXCEPT ![leaf] = 0]
    <3> HIDE DEF n, leaf
    <3> QED BY <2>2 DEF MemInv, MemType
  <2> HIDE DEF n, leaf
  <2> QED
    BY <1>2, <1>4, <2>3 DEF Changes, n, leaf
<1> QED
  BY <1>3, <1>4

-----------------------------------------------------------------------------
(***************************************************************************)
(* The initial memory.                                                     *)
(***************************************************************************)
\* The memory is in order when boot hands it over.
LEMMA InitMemInv == MemInv(InitMem)
<1> DEFINE e == InitMem.entry
<1>1. \A p \in IdentityPages : p \in Frames /\ p \in Reserved /\ p # 0 /\ p \in Pages
  <2>1. BitmapPages \in Nat
    BY SizeAssumption DEF BitmapPages, CeilDiv, PAGESIZE
  <2> QED
    BY <2>1, SizeAssumption, LayoutAssumption
    DEF IdentityPages, Frames, Reserved, Pages, PT0_FRAME
<1>2. {PTE(Kernel, 0, 0, p) : p \in IdentityPages} \subseteq Slots
  BY <1>1, KernelSlots, SlotMembership
<1>3. /\ InitMem.used = Reserved /\ InitMem.cpu = "run"
      /\ e[PML4(Kernel)] = PML4_FRAME /\ e[PDPT(Kernel)] = PDPT0_FRAME
      /\ e[PD(Kernel, 0)] = PD0_FRAME
  BY KernelSlots, SlotsDiffer DEF InitMem
<1>4. PT(Kernel, 0, 0) \in Slots /\ e[PT(Kernel, 0, 0)] = PT0_FRAME
  <2>1. PT(Kernel, 0, 0) \in Slots
    BY KernelSlots, SlotMembership
  <2> QED
    BY <2>1, SlotsDiffer DEF InitMem
<1>5. \A s \in Slots :
          \/ /\ s \in {PML4(Kernel), PDPT(Kernel), PD(Kernel, 0), PT(Kernel, 0, 0)}
             /\ e[s] \in {PML4_FRAME, PDPT0_FRAME, PD0_FRAME, PT0_FRAME}
          \/ \E p \in IdentityPages : s = PTE(Kernel, 0, 0, p) /\ e[s] = p
          \/ e[s] = 0
  <2> SUFFICES ASSUME NEW s \in Slots,
                      s \notin {PML4(Kernel), PDPT(Kernel), PD(Kernel, 0), PT(Kernel, 0, 0)}
               PROVE  \/ \E p \in IdentityPages : s = PTE(Kernel, 0, 0, p) /\ e[s] = p
                      \/ e[s] = 0
    BY <1>3, <1>4
  <2>1. CASE s \in {PTE(Kernel, 0, 0, p) : p \in IdentityPages}
    <3>1. e[s] = s[5]
      BY <2>1 DEF InitMem
    <3> QED
      BY <2>1, <3>1, SlotKinds
  <2>2. CASE s \notin {PTE(Kernel, 0, 0, p) : p \in IdentityPages}
    BY <2>2 DEF InitMem
  <2> QED BY <2>1, <2>2
<1>6. \A s \in Slots : e[s] \in Reserved
  BY <1>1, <1>5, LowFramesReserved
<1>7. InitMem \in MemType
  <2>1. e = [s \in Slots |-> e[s]]
    BY DEF InitMem
  <2>2. e \in [Slots -> Frames]
    BY <2>1, <1>6, LowFramesReserved
  <2> QED
    BY <2>2, LowFramesReserved DEF MemType, InitMem
<1>8. FramesAccounted(InitMem)
  BY <1>3, <1>6 DEF FramesAccounted
<1>9. Injective(InitMem)
  BY <1>6 DEF Injective, Held
<1>10. \A s \in Slots : e[s] # 0 => s[2] = Kernel
  BY <1>5, SlotKinds
<1>11. Closed(InitMem)
  <2> SUFFICES ASSUME NEW a \in AS
               PROVE  /\ e[PML4(a)] = 0 <=> e[PDPT(a)] = 0
                      /\ \A d \in Dirs : e[PD(a, d)] # 0 => e[PDPT(a)] # 0
                      /\ \A d \in {f \in Dirs : Through(a, f) = a}, t \in Tables :
                            /\ e[PT(a, d, t)] # 0 => e[PD(a, d)] # 0
                            /\ \A p \in Pages :
                                  e[PTE(a, d, t, p)] # 0 => e[PT(a, d, t)] # 0
    BY DEF Closed
  <2>1. CASE a # Kernel
    BY <2>1, <1>10, SlotMembership, SlotKinds
  <2>2. CASE a = Kernel
    <3>1. e[PML4(a)] # 0 /\ e[PDPT(a)] # 0
      BY <2>2, <1>3 DEF PML4_FRAME, PDPT0_FRAME
    <3>2. ASSUME NEW d \in Dirs, Through(a, d) = a, NEW t \in Tables, e[PT(a, d, t)] # 0
          PROVE  e[PD(a, d)] # 0
      <4>1. PT(a, d, t) \in Slots
        BY <3>2, SlotMembership
      <4>2. PT(a, d, t) = PT(Kernel, 0, 0)
        BY <3>2, <4>1, <1>5, SlotsDiffer
      <4>3. d = 0
        BY <4>2, SlotKinds
      <4> QED
        BY <2>2, <4>3, <1>3 DEF PD0_FRAME
    <3>3. ASSUME NEW d \in Dirs, Through(a, d) = a, NEW t \in Tables, NEW p \in Pages,
                 e[PTE(a, d, t, p)] # 0
          PROVE  e[PT(a, d, t)] # 0
      <4>1. PTE(a, d, t, p) \in Slots
        BY <3>3, SlotMembership
      <4>2. PICK q \in IdentityPages : PTE(a, d, t, p) = PTE(Kernel, 0, 0, q)
        BY <3>3, <4>1, <1>5, SlotsDiffer
      <4>3. d = 0 /\ t = 0
        BY <4>2, SlotKinds
      <4> QED
        BY <2>2, <4>3, <1>4 DEF PT0_FRAME
    <3> QED
      BY <3>1, <3>2, <3>3
  <2> QED BY <2>1, <2>2
<1>12. SharesKernel(InitMem)
  BY <1>10, SpaceAssumption, SlotMembership, SlotKinds DEF SharesKernel, Live, AS
<1>13. KernelTables(InitMem)
  BY <1>3 DEF KernelTables
<1> QED
  BY <1>7, <1>8, <1>9, <1>11, <1>12, <1>13 DEF MemInv
=============================================================================
