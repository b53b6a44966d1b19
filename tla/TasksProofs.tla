----------------------------- MODULE TasksProofs ----------------------------
(***************************************************************************)
(* Proofs about the task manager, for any number of task slots, any images *)
(* that loadElf may meet and any machine.  Fairness plays no part here.    *)
(***************************************************************************)
EXTENDS Tasks, PageTablesProofs, FiniteSetTheorems

-----------------------------------------------------------------------------
(***************************************************************************)
(* The inductive invariant.                                                *)
(***************************************************************************)
KernelVAddrs == {0} \X Tables \X Pages

\* The kernel pages that were not mapped at boot.
Mapped(m) == {v \in KernelVAddrs : m.entry[PTE(Kernel, v[1], v[2], v[3])] \notin Reserved}

\* Those that were.
Boots(m) == {v \in KernelVAddrs : m.entry[PTE(Kernel, v[1], v[2], v[3])] \in Reserved \ {0}}

\* The pages in m that were not mapped at boot are the heap's, or the kernel stacks of the tasks in S, one each.
PagesOwned(m, S, k, h) ==
    /\ Mapped(m) = h \cup ({k[p] : p \in S} \ {NullPtr})
    /\ \A p, q \in S : k[p] = k[q] /\ k[p] # NullPtr => p = q
    /\ \A p \in S : k[p] \notin h

\* nProc is no less than the number of tasks: failed loads only raise it.
Counted == nProc \in Nat /\ nProc >= Cardinality(LiveTasks)

\* What mapPage returned was not mapped at boot, whoever unmaps it.
Handed == heap \cup {kstack[p] : p \in Pids} \subseteq (KernelVAddrs \ Boots(mem)) \cup {NullPtr}

IInv ==
    /\ MemInv(mem)
    /\ TypeOK
    /\ Counted
    /\ AddressSpacesMatchTasks
    /\ Running => Handed
    /\ Running /\ robbed = FALSE => PagesOwned(mem, LiveTasks, kstack, heap)

-----------------------------------------------------------------------------
(***************************************************************************)
(* Pids.                                                                   *)
(***************************************************************************)
\* The task slots are address spaces, and slots of pList.
LEMMA PidFacts ==
    /\ TaskPids = Spaces /\ TaskPids \subseteq Pids /\ TaskPids \subseteq Nat
    /\ TaskPids \subseteq AS /\ 0 \notin TaskPids /\ Kernel = 0 /\ Kernel \in AS
    /\ MaxPid \in Nat /\ 0 \in Pids
BY TasksAssumption DEF TaskPids, Pids, AS

\* There are finitely many tasks.
LEMMA LiveTasksFinite == IsFiniteSet(LiveTasks) /\ Cardinality(LiveTasks) \in Nat
<1>1. IsFiniteSet(1 .. MaxPid - 1)
  BY TasksAssumption, FS_Interval
<1>2. LiveTasks \in SUBSET (1 .. MaxPid - 1)
  BY DEF LiveTasks, Ready, TaskPids
<1> QED
  BY <1>1, <1>2, FS_Subset, FS_CardinalityType

\* loadTask's search finds a slot that no task is in, or MaxPid.
LEMMA FreePidIsFree ==
    ASSUME FreePid < MaxPid
    PROVE  FreePid \in TaskPids /\ state[FreePid] = 0
<1>1. {p \in TaskPids : state[p] = 0} \cup {MaxPid} \in SUBSET Nat
  BY PidFacts
<1>2. FreePid \in {p \in TaskPids : state[p] = 0} \cup {MaxPid}
  BY <1>1, SmallestExists DEF FreePid
<1> QED
  BY <1>2, PidFacts

\* schedule finds a ready task or falls back to the kernel's thread.
LEMMA NextPidIsReady ==
    ASSUME TypeOK
    PROVE  NextPid \in LiveTasks \cup {0}
<1> DEFINE above == Ready(current + 1 .. MaxPid - 1)
           below == Ready(1 .. current - 1)
<1>1. current \in Nat /\ current < MaxPid
  BY TasksAssumption DEF TypeOK, LiveTasks, Ready, TaskPids
<1>2. above \subseteq LiveTasks /\ below \subseteq LiveTasks
  BY <1>1, TasksAssumption DEF LiveTasks, Ready, TaskPids
<1>3. above \in SUBSET Nat /\ below \in SUBSET Nat
  BY <1>2, PidFacts DEF LiveTasks, Ready
<1>4. above # {} => Smallest(above) \in above
  BY <1>3, SmallestExists
<1>5. below # {} => Smallest(below) \in below
  BY <1>3, SmallestExists
<1>6. NextPid = IF above # {} THEN Smallest(above)
                ELSE IF below # {} THEN Smallest(below) ELSE 0
  BY DEF NextPid
<1> HIDE DEF above, below
<1> QED
  BY <1>2, <1>4, <1>5, <1>6

-----------------------------------------------------------------------------
(***************************************************************************)
(* What calls of the class Paging mean for tasks.                          *)
(***************************************************************************)
\* A page of directory 0 is an address, and its entry a slot of the kernel's.
LEMMA KernelVAddrFacts ==
    ASSUME NEW v \in KernelVAddrs
    PROVE  /\ v \in VAddrs /\ v # NullPtr
           /\ v[1] = 0 /\ v[2] \in Tables /\ v[3] \in Pages /\ v = <<0, v[2], v[3]>>
           /\ PTE(Kernel, v[1], v[2], v[3]) \in Slots
           /\ PTE(Kernel, v[1], v[2], v[3])[2] = Kernel
<1>1. v[1] = 0 /\ v[2] \in Tables /\ v[3] \in Pages /\ v = <<0, v[2], v[3]>>
  BY DEF KernelVAddrs
<1>2. v \in VAddrs
  BY <1>1, KernelSlots DEF VAddrs
<1> QED
  BY <1>1, <1>2, NullAssumption, KernelSlots, SlotMembership, SlotKinds

\* A change in the tables of a task is none of the other tasks' or of the kernel's.
LEMMA ElsewhereSame ==
    ASSUME NEW m, NEW n, NEW a \in Spaces, Changes(m, n, {s \in Slots : s[2] = a})
    PROVE  /\ Mapped(n) = Mapped(m) /\ Boots(n) = Boots(m)
           /\ \A b \in AS \ {a} : Live(n, b) <=> Live(m, b)
<1>1. a # Kernel
  BY SpaceAssumption
<1>2. \A v \in KernelVAddrs : n.entry[PTE(Kernel, v[1], v[2], v[3])]
                              = m.entry[PTE(Kernel, v[1], v[2], v[3])]
  BY <1>1, KernelVAddrFacts DEF Changes
<1>3. \A b \in AS \ {a} : n.entry[PML4(b)] = m.entry[PML4(b)]
  BY SlotMembership, SlotKinds DEF Changes
<1> QED
  BY <1>2, <1>3 DEF Mapped, Boots, Live

\* mapPage without an address: the page it returns was not mapped, and is.
LEMMA MapAnyMaps ==
    ASSUME NEW m, MemInv(m), NEW a \in AS, Live(m, a), m.cpu = "run"
    PROVE  LET r == MapPage(m, a, NullPtr)
           IN  /\ MemInv(r.mem)
               /\ \A b \in AS : Live(r.mem, b) <=> Live(m, b)
               /\ Boots(r.mem) = Boots(m)
               /\ r.vaddr = NullPtr => Mapped(r.mem) = Mapped(m)
               /\ r.vaddr # NullPtr => /\ r.vaddr \in KernelVAddrs \ Mapped(m)
                                       /\ r.vaddr \notin Boots(m)
                                       /\ Mapped(r.mem) = Mapped(m) \cup {r.vaddr}
<1> DEFINE r == MapPage(m, a, NullPtr)
<1>1. MemInv(r.mem)
  BY MapPageGrows DEF Grows
<1>2. PICK t \in Tables, p \in Pages :
          /\ Changes(m, r.mem, {PT(Kernel, 0, t), PTE(Kernel, 0, t, p)})
          /\ r.vaddr = NullPtr =>
               r.mem.entry[PTE(Kernel, 0, t, p)] = m.entry[PTE(Kernel, 0, t, p)]
          /\ r.vaddr # NullPtr =>
               /\ r.vaddr = <<0, t, p>>
               /\ m.entry[PTE(Kernel, 0, t, p)] = 0
               /\ r.mem.entry[PTE(Kernel, 0, t, p)] \notin Reserved
  BY MapAnyChanges
<1> HIDE DEF r
<1>3. \A b \in AS : Live(r.mem, b) <=> Live(m, b)
  <2>1. \A b \in AS : PML4(b) \in Slots \ {PT(Kernel, 0, t), PTE(Kernel, 0, t, p)}
    BY SlotMembership, SlotsDiffer
  <2> QED
    BY <1>2, <2>1 DEF Changes, Live
<1> DEFINE w == <<0, t, p>>
<1>4. w \in KernelVAddrs /\ w[1] = 0 /\ w[2] = t /\ w[3] = p
  BY DEF KernelVAddrs
<1>5. ASSUME NEW v \in KernelVAddrs, v # w
      PROVE  r.mem.entry[PTE(Kernel, v[1], v[2], v[3])] = m.entry[PTE(Kernel, v[1], v[2], v[3])]
  <2>1. v[1] = 0 /\ v = <<0, v[2], v[3]>> /\ PTE(Kernel, v[1], v[2], v[3]) \in Slots
    BY KernelVAddrFacts
  <2>2. v[2] # t \/ v[3] # p
    BY <1>5, <2>1
  <2>3. PTE(Kernel, v[1], v[2], v[3]) # PTE(Kernel, 0, t, p)
    BY <2>2, SlotKinds
  <2>4. PTE(Kernel, v[1], v[2], v[3]) # PT(Kernel, 0, t)
    BY SlotsDiffer
  <2> QED
    BY <1>2, <2>1, <2>3, <2>4 DEF Changes
<1> HIDE DEF w
<1>6. r.vaddr = NullPtr => Mapped(r.mem) = Mapped(m)
  BY <1>2, <1>4, <1>5 DEF Mapped
<1>7. ASSUME r.vaddr # NullPtr
      PROVE  /\ r.vaddr = w /\ w \notin Mapped(m) /\ w \notin Boots(m)
             /\ Mapped(r.mem) = Mapped(m) \cup {w}
  BY <1>2, <1>4, <1>5, <1>7, LowFramesReserved DEF Mapped, Boots, w
<1>8. Boots(r.mem) = Boots(m)
  <2>1. r.mem.entry[PTE(Kernel, w[1], w[2], w[3])] \in Reserved \ {0}
        <=> m.entry[PTE(Kernel, w[1], w[2], w[3])] \in Reserved \ {0}
    BY <1>2, <1>4
  <2> QED
    BY <1>5, <2>1 DEF Boots
<1> QED
  BY <1>1, <1>3, <1>4, <1>6, <1>7, <1>8 DEF r

\* On a halted processor it does nothing.
LEMMA MapAnyHalted ==
    ASSUME NEW m, MemInv(m), NEW a \in AS, m.cpu = "halt"
    PROVE  MemInv(MapPage(m, a, NullPtr).mem) /\ MapPage(m, a, NullPtr).mem.cpu = "halt"
<1> DEFINE open == {t \in Tables : Unmapped(m, t) # {}}
           t    == Smallest(open)
           m1   == IF open = {} THEN FatalError(m) ELSE BuildTable(m, PT(Kernel, 0, t))
<1>1. m1 \in {m, FatalError(m)}
  BY DEF BuildTable
<1>2. m1.cpu = "halt" /\ MemInv(m1)
  BY <1>1, FatalGrows DEF Grows
<1>3. GetUnmappedVAddr(m).mem = m1 /\ GetUnmappedVAddr(m).vaddr = NullPtr
  BY <1>2 DEF GetUnmappedVAddr
<1>4. MapPage(m, a, NullPtr) = GetUnmappedVAddr(m)
  BY <1>3 DEF MapPage
<1> QED
  BY <1>2, <1>3, <1>4

\* unmapPage of a page of the kernel's that may be mapped, but not since boot.
LEMMA UnmapUnmaps ==
    ASSUME NEW m, MemInv(m), NEW v \in KernelVAddrs \ Boots(m)
    PROVE  LET n == UnmapPage(m, v)
           IN  /\ MemInv(n) /\ n.cpu = m.cpu /\ Boots(n) = Boots(m)
               /\ \A b \in AS : Live(n, b) <=> Live(m, b)
               /\ Mapped(n) = Mapped(m) \ {v}
<1> DEFINE n    == UnmapPage(m, v)
           leaf == PTE(Kernel, v[1], v[2], v[3])
<1>1. v \in KernelVAddrs /\ m.entry[leaf] \notin Reserved \ {0}
  BY DEF Boots
<1>2. v \in VAddrs /\ v[1] = 0 /\ v = <<0, v[2], v[3]>> /\ leaf \in Slots
  BY <1>1, KernelVAddrFacts
<1>3. MemInv(n)
  BY <1>1, <1>2, UnmapPageInv
<1>4. Changes(m, n, {leaf}) /\ n.cpu = m.cpu /\ n.entry[leaf] = 0
  BY <1>2, UnmapChanges
<1>5. \A b \in AS : PML4(b) \in Slots \ {leaf}
  BY SlotMembership, SlotsDiffer
<1> HIDE DEF n
<1>6. \A b \in AS : Live(n, b) <=> Live(m, b)
  BY <1>4, <1>5 DEF Changes, Live
<1>7. ASSUME NEW u \in KernelVAddrs, u # v
      PROVE  n.entry[PTE(Kernel, u[1], u[2], u[3])] = m.entry[PTE(Kernel, u[1], u[2], u[3])]
  <2>1. u[1] = 0 /\ u = <<0, u[2], u[3]>> /\ PTE(Kernel, u[1], u[2], u[3]) \in Slots
    BY KernelVAddrFacts
  <2>2. v[2] # u[2] \/ v[3] # u[3]
    BY <1>2, <1>7, <2>1
  <2>3. PTE(Kernel, u[1], u[2], u[3]) # leaf
    BY <2>2, SlotKinds
  <2> QED
    BY <1>4, <2>1, <2>3 DEF Changes
<1>8. Mapped(n) = Mapped(m) \ {v}
  BY <1>1, <1>4, <1>7, LowFramesReserved DEF Mapped
<1>9. Boots(n) = Boots(m)
  BY <1>1, <1>4, <1>7 DEF Boots
<1> QED
  BY <1>3, <1>4, <1>6, <1>8, <1>9 DEF n

-----------------------------------------------------------------------------
(***************************************************************************)
(* The pieces of loadTask.                                                 *)
(***************************************************************************)
UserVAddrs == {v \in VAddrs : v[1] # 0}

\* From m to n only tables of task p change, and p has an address space unless the
\* processor halts.
Loads(m, n, p) ==
    /\ MemInv(n)
    /\ Changes(m, n, {s \in Slots : s[2] = p})
    /\ n.cpu = "run" => m.cpu = "run" /\ Live(n, p)

\* Such changes can follow each other.
LEMMA LoadsTransitive ==
    ASSUME NEW m, NEW n, NEW o, NEW p, Loads(m, n, p), Loads(n, o, p)
    PROVE  Loads(m, o, p)
BY DEF Loads, Changes

\* A user page that is touched is mapped in the tables of its task, or nothing runs.
LEMMA TouchPageLoads ==
    ASSUME NEW m, MemInv(m), NEW p \in Spaces, m.cpu = "run" => Live(m, p),
           NEW v \in UserVAddrs
    PROVE  Loads(m, TouchPage(m, p, v), p)
<1> DEFINE r == MapPage(m, p, v)
           n == TouchPage(m, p, v)
<1>0. m.cpu \in {"run", "halt"}
  BY DEF MemInv, MemType
<1>1. CASE m.cpu = "halt"
  BY <1>1 DEF TouchPage, Loads, Changes
<1>2. CASE m.cpu = "run"
  <2>1. p \in AS /\ v \in VAddrs /\ v[1] # 0 /\ v # NullPtr /\ Live(m, p)
    BY <1>2, NullAssumption DEF AS, UserVAddrs
  <2>2. v[1] \in Dirs /\ v[2] \in Tables /\ v[3] \in Pages /\ Through(p, v[1]) = p
    BY <2>1 DEF VAddrs, Through
  <2>3. r = MapPageAt(m, p, v)
    BY <2>1 DEF MapPage
  <2>4. Grows(m, r.mem) /\ Changes(m, r.mem, MapSlots(p, v))
    BY <1>2, <2>1, <2>3, MapPageAtGrows, MapPageAtChanges
  <2>5. MapSlots(p, v) \subseteq {s \in Slots : s[2] = p}
    BY <2>1, <2>2, SlotMembership, SlotKinds DEF MapSlots
  <2> HIDE DEF r
  <2>6. /\ Changes(m, r.mem, {s \in Slots : s[2] = p}) /\ MemInv(r.mem)
        /\ Live(r.mem, p)
    BY <2>1, <2>4, <2>5, SlotMembership DEF Changes, Grows, Live
  <2>7. n \in {r.mem, FatalError(r.mem)}
    BY <1>2 DEF TouchPage, r
  <2>8. /\ MemInv(FatalError(r.mem)) /\ FatalError(r.mem).cpu = "halt"
        /\ FatalError(r.mem).entry = r.mem.entry
    BY <2>6, FatalGrows DEF Grows, FatalError, MemInv, MemType
  <2> HIDE DEF n
  <2> QED
    BY <1>2, <2>6, <2>7, <2>8 DEF Loads, Changes, n
<1> QED
  BY <1>0, <1>1, <1>2

\* createPageDir and the segments of the image.
LEMMA LoadElfLoads ==
    ASSUME NEW m, MemInv(m), m.cpu = "run", NEW p \in Spaces, ~Live(m, p), NEW img \in Images
    PROVE  Loads(m, LoadElf(m, p, img), p)
<1> DEFINE c == CreatePageDir(m, p)
<1>1. CASE c.pml4 = NullPtr
  <2>1. /\ MemInv(FatalError(m)) /\ FatalError(m).cpu = "halt" /\ FatalError(m).entry = m.entry
    BY FatalGrows DEF Grows, FatalError, MemInv, MemType
  <2> QED
    BY <1>1, <2>1 DEF LoadElf, Loads, Changes
<1>2. CASE c.pml4 # NullPtr
  <2>1. MemInv(c.mem) /\ Live(c.mem, p) /\ c.mem.cpu = "run"
        /\ Changes(m, c.mem, {PML4(p), PDPT(p), PD(p, 0)})
    BY <1>2, CreatePageDirInv, CreateChanges
  <2>2. {PML4(p), PDPT(p), PD(p, 0)} \subseteq {s \in Slots : s[2] = p}
    BY SlotMembership, SlotKinds, KernelSlots DEF AS
  <2> HIDE DEF c
  <2>3. Loads(m, c.mem, p)
    BY <2>1, <2>2 DEF Loads, Changes
  <2>4. img.page = NullPtr \/ img.page \in UserVAddrs
    BY ImagesAssumption DEF UserVAddrs
  <2>5. img.page # NullPtr => Loads(m, TouchPage(c.mem, p, img.page), p)
    BY <2>1, <2>3, <2>4, TouchPageLoads, LoadsTransitive
  <2> QED
    BY <1>2, <2>3, <2>5 DEF LoadElf, c
<1> QED
  BY <1>1, <1>2

-----------------------------------------------------------------------------
(***************************************************************************)
(* loadTask.                                                               *)
(***************************************************************************)
\* A failed load leaves everything but nProc as it was.
LEMMA LoadFailsKeeps ==
    ASSUME IInv, Running, NEW img \in Images, LoadFails(img),
           UNCHANGED <<current, heap, history>>, loop' \in {"hello", "sh", "test", "load", "asleep"}
    PROVE  IInv'
<1> DEFINE p == FreePid
           m == LoadElf(mem, p, img)
<1>1. p \in TaskPids /\ state[p] = 0 /\ p \in Spaces
  BY FreePidIsFree, PidFacts DEF LoadFails
<1>2. ~Live(mem, p)
  BY <1>1 DEF IInv, AddressSpacesMatchTasks
<1>3. Loads(mem, m, p)
  BY <1>1, <1>2, LoadElfLoads DEF IInv, Running
<1>4. /\ mem' = (IF m.cpu = "halt" THEN m ELSE DestroyPageDir(m, p))
      /\ nProc' = nProc + 1 /\ UNCHANGED <<state, kstack>>
  BY DEF LoadFails
<1> HIDE DEF p, m
<1>5. LiveTasks' = LiveTasks /\ Cardinality(LiveTasks) \in Nat
  BY <1>4, LiveTasksFinite DEF LiveTasks, Ready
<1>6. Counted'
  BY <1>4, <1>5 DEF IInv, Counted
<1>7. MemInv(m) /\ m.cpu \in {"run", "halt"}
  BY <1>3 DEF Loads, MemInv, MemType
<1>8. CASE m.cpu = "halt"
  <2>1. MemInv(mem') /\ ~Running'
    BY <1>4, <1>7, <1>8 DEF Running
  <2>2. TypeOK'
    BY <1>4, <1>5, <1>6, <2>1 DEF IInv, TypeOK, MemInv, Counted, history
  <2> QED
    BY <1>6, <2>1, <2>2 DEF IInv, AddressSpacesMatchTasks
<1>9. CASE m.cpu = "run"
  <2>1. mem' = DestroyPageDir(m, p) /\ Live(m, p)
    BY <1>3, <1>4, <1>9 DEF Loads
  <2>2. MemInv(mem')
    BY <1>1, <1>7, <2>1, DestroyPageDirInv
  <2>3. ~Live(mem', p) /\ Changes(m, mem', {s \in Slots : s[2] = p})
    BY <1>1, <1>7, <2>1, DestroyChanges
  <2>4. Changes(mem, mem', {s \in Slots : s[2] = p})
    BY <1>3, <2>3 DEF Loads, Changes
  <2>5. /\ Mapped(mem') = Mapped(mem) /\ Boots(mem') = Boots(mem)
        /\ \A b \in AS \ {p} : Live(mem', b) <=> Live(mem, b)
    BY <1>1, <2>4, ElsewhereSame
  <2>6. TypeOK'
    BY <1>4, <1>5, <1>6, <2>2 DEF IInv, TypeOK, MemInv, Counted, history
  <2>7. AddressSpacesMatchTasks'
    BY <1>1, <1>2, <1>4, <2>3, <2>5, PidFacts DEF IInv, AddressSpacesMatchTasks
  <2>8. robbed' = FALSE => PagesOwned(mem', LiveTasks', kstack', heap')
    BY <1>4, <1>5, <2>5 DEF IInv, PagesOwned, history
  <2>9. Handed'
    BY <1>4, <2>5 DEF IInv, Handed
  <2> QED
    BY <1>6, <2>2, <2>6, <2>7, <2>8, <2>9 DEF IInv
<1> QED
  BY <1>7, <1>8, <1>9

\* A successful load makes one task ready, with an address space and a kernel stack of
\* its own, or none if mapPage has no page for it.
LEMMA LoadSucceedsKeeps ==
    ASSUME IInv, Running, NEW img \in Images, LoadSucceeds(img),
           UNCHANGED <<current, heap, history>>, loop' \in {"hello", "sh", "test", "load", "asleep"}
    PROVE  IInv'
<1> DEFINE p == FreePid
           e == LoadElf(mem, p, img)
           m == TouchPage(e, p, StackPage)
           k == MapPage(m, p, NullPtr)
<1>1. p \in TaskPids /\ state[p] = 0 /\ p \in Spaces /\ p \in AS
  BY FreePidIsFree, PidFacts DEF LoadSucceeds
<1>2. ~Live(mem, p)
  BY <1>1 DEF IInv, AddressSpacesMatchTasks
<1>3. Loads(mem, m, p)
  <2>1. Loads(mem, e, p)
    BY <1>1, <1>2, LoadElfLoads DEF IInv, Running
  <2>2. StackPage \in UserVAddrs
    BY ImagesAssumption DEF UserVAddrs
  <2> HIDE DEF e
  <2>3. Loads(e, m, p)
    BY <1>1, <2>1, <2>2, TouchPageLoads DEF Loads
  <2> QED
    BY <2>1, <2>3, LoadsTransitive
<1>4. /\ mem' = k.mem /\ nProc' = nProc + 1
      /\ IF k.mem.cpu = "halt" THEN UNCHANGED <<state, kstack>>
         ELSE /\ state' = [state EXCEPT ![p] = 1]
              /\ kstack' = [kstack EXCEPT ![p] = k.vaddr]
  BY DEF LoadSucceeds
<1> HIDE DEF p, m
<1>5. MemInv(m) /\ m.cpu \in {"run", "halt"} /\ Cardinality(LiveTasks) \in Nat
  BY <1>3, LiveTasksFinite DEF Loads, MemInv, MemType
<1>6. MemInv(k.mem) /\ (m.cpu = "halt" => k.mem.cpu = "halt")
  BY <1>1, <1>3, <1>5, MapAnyMaps, MapAnyHalted DEF Loads
<1>7. CASE k.mem.cpu = "halt"
  <2>1. UNCHANGED <<state, kstack>> /\ LiveTasks' = LiveTasks
    BY <1>4, <1>7 DEF LiveTasks, Ready
  <2>2. MemInv(mem') /\ ~Running'
    BY <1>4, <1>6, <1>7 DEF Running
  <2>3. Counted'
    BY <1>4, <1>5, <2>1 DEF IInv, Counted
  <2>4. TypeOK'
    BY <1>4, <2>1, <2>2, <2>3 DEF IInv, TypeOK, MemInv, Counted, history
  <2> QED
    BY <2>2, <2>3, <2>4 DEF IInv, AddressSpacesMatchTasks
<1>8. CASE k.mem.cpu # "halt"
  <2>1. m.cpu = "run" /\ Live(m, p)
    BY <1>3, <1>5, <1>6, <1>8 DEF Loads
  <2>2. /\ \A b \in AS : Live(k.mem, b) <=> Live(m, b)
        /\ Boots(k.mem) = Boots(m)
        /\ k.vaddr = NullPtr => Mapped(k.mem) = Mapped(m)
        /\ k.vaddr # NullPtr => /\ k.vaddr \in KernelVAddrs \ Mapped(m)
                                /\ k.vaddr \notin Boots(m)
                                /\ Mapped(k.mem) = Mapped(m) \cup {k.vaddr}
    BY <1>1, <1>5, <2>1, MapAnyMaps
  <2>3. /\ Mapped(m) = Mapped(mem) /\ Boots(m) = Boots(mem)
        /\ \A b \in AS \ {p} : Live(m, b) <=> Live(mem, b)
    BY <1>1, <1>3, ElsewhereSame DEF Loads
  <2> HIDE DEF k
  <2>4. /\ state' = [state EXCEPT ![p] = 1] /\ kstack' = [kstack EXCEPT ![p] = k.vaddr]
        /\ MemInv(mem')
    BY <1>4, <1>6, <1>8
  <2>5. LiveTasks' = LiveTasks \cup {p} /\ p \notin LiveTasks
    BY <1>1, <2>4, PidFacts DEF IInv, TypeOK, LiveTasks, Ready
  <2>6. Cardinality(LiveTasks') = Cardinality(LiveTasks) + 1
    BY <2>5, LiveTasksFinite, FS_AddElement
  <2>7. Counted'
    BY <1>4, <1>5, <2>6 DEF IInv, Counted
  <2>8. k.vaddr \in VAddrs \cup {NullPtr} /\ p \in Pids
    BY <1>1, <2>2, KernelVAddrFacts, PidFacts
  <2>9. TypeOK'
    <3>1. kstack' \in [Pids -> VAddrs \cup {NullPtr}] /\ state' \in [Pids -> {0, 1}]
      BY <2>4, <2>8 DEF IInv, TypeOK
    <3> QED
      BY <2>4, <2>5, <2>7, <3>1 DEF IInv, TypeOK, MemInv, Counted, history
  <2>10. AddressSpacesMatchTasks'
    <3>1. ASSUME NEW q \in TaskPids PROVE state'[q] = 1 <=> Live(mem', q)
      <4>1. CASE q = p
        BY <1>1, <1>4, <2>1, <2>2, <2>4, <2>8, <4>1 DEF IInv, TypeOK
      <4>2. CASE q # p
        BY <1>4, <2>2, <2>3, <2>4, <2>8, <4>2, PidFacts
        DEF IInv, TypeOK, AddressSpacesMatchTasks
      <4> QED BY <4>1, <4>2
    <3> QED
      BY <3>1 DEF AddressSpacesMatchTasks
  <2>11. kstack'[p] = k.vaddr /\ \A q \in LiveTasks : kstack'[q] = kstack[q]
    BY <2>4, <2>5, <2>8, PidFacts DEF IInv, TypeOK, LiveTasks, Ready
  <2>12. ASSUME robbed' = FALSE PROVE PagesOwned(mem', LiveTasks', kstack', heap')
    <3>1. PagesOwned(mem, LiveTasks, kstack, heap)
      BY <2>12 DEF IInv, history
    <3>2. k.vaddr # NullPtr => k.vaddr \notin heap /\ \A q \in LiveTasks : kstack[q] # k.vaddr
      BY <2>2, <2>3, <3>1 DEF PagesOwned
    <3>3. NullPtr \notin heap
      BY NullAssumption DEF IInv, TypeOK
    <3>4. Mapped(mem') = heap \cup ({kstack'[q] : q \in LiveTasks'} \ {NullPtr})
      BY <1>4, <2>2, <2>3, <2>5, <2>11, <3>1 DEF PagesOwned
    <3> QED
      BY <2>5, <2>11, <3>1, <3>2, <3>3, <3>4 DEF PagesOwned
  <2>13. Handed'
    <3>1. \A q \in Pids : kstack'[q] \in {kstack[q], k.vaddr}
      BY <2>4 DEF IInv, TypeOK
    <3>2. Boots(mem') = Boots(mem)
      BY <1>4, <2>2, <2>3
    <3> QED
      BY <2>2, <2>3, <3>1, <3>2 DEF IInv, Handed
  <2> QED
    BY <2>4, <2>7, <2>9, <2>10, <2>12, <2>13 DEF IInv
<1> QED
  BY <1>7, <1>8

\* loadTask keeps the invariant, whichever way it ends.
LEMMA LoadTaskKeeps ==
    ASSUME IInv, Running, NEW ok \in BOOLEAN, LoadTask(ok),
           loop' \in {"hello", "sh", "test", "load", "asleep"}
    PROVE  IInv'
<1>1. CASE LoadRefused
  BY <1>1 DEF LoadTask, LoadRefused, IInv, TypeOK, Counted, AddressSpacesMatchTasks, Running,
              LiveTasks, Ready, Handed, history
<1>2. CASE \E img \in Images : LoadFails(img)
  BY <1>2, LoadFailsKeeps DEF LoadTask
<1>3. CASE \E img \in Images : LoadSucceeds(img)
  BY <1>3, LoadSucceedsKeeps DEF LoadTask
<1> QED
  BY <1>1, <1>2, <1>3 DEF LoadTask

-----------------------------------------------------------------------------
(***************************************************************************)
(* The other actions.                                                      *)
(***************************************************************************)
\* A task that runs is ready, so it has an address space.
LEMMA RunningTaskIsLive ==
    ASSUME IInv, NEW p, RunningTask(p)
    PROVE  /\ p \in TaskPids /\ p \in LiveTasks /\ p \in Spaces /\ p \in AS
           /\ Live(mem, p) /\ Running /\ kstack[p] # NullPtr
<1>1. p \in TaskPids /\ p \in LiveTasks /\ Running /\ kstack[p] # NullPtr
  BY PidFacts DEF RunningTask, HasStack, IInv, TypeOK
<1> QED
  BY <1>1, PidFacts DEF IInv, AddressSpacesMatchTasks, LiveTasks, Ready

\* A page fault changes the tables of its task, or halts the processor.
LEMMA PageFaultKeeps ==
    ASSUME IInv, NEW p \in TaskPids, PageFault(p)
    PROVE  IInv'
<1>1. p \in Spaces /\ Live(mem, p) /\ Running
  BY RunningTaskIsLive DEF PageFault
<1>2. PICK v \in FaultPages : mem' = TouchPage(mem, p, v)
  BY DEF PageFault
<1>3. v \in UserVAddrs
  BY ImagesAssumption DEF UserVAddrs
<1>4. Loads(mem, mem', p)
  BY <1>1, <1>2, <1>3, TouchPageLoads DEF IInv
<1>5. /\ Mapped(mem') = Mapped(mem) /\ Boots(mem') = Boots(mem)
      /\ \A b \in AS \ {p} : Live(mem', b) <=> Live(mem, b)
  BY <1>1, <1>4, ElsewhereSame DEF Loads
<1>6. /\ UNCHANGED <<state, kstack, nProc, current, heap, loop, saved, robbed>>
      /\ LiveTasks' = LiveTasks
  BY DEF PageFault, procVars, history, LiveTasks, Ready
<1>7. MemInv(mem') /\ TypeOK' /\ Counted'
  BY <1>4, <1>6 DEF Loads, IInv, TypeOK, Counted, MemInv
<1>8. AddressSpacesMatchTasks'
  BY <1>1, <1>4, <1>5, <1>6, PidFacts DEF Loads, IInv, AddressSpacesMatchTasks, Running
<1>9. robbed' = FALSE => PagesOwned(mem', LiveTasks', kstack', heap')
  BY <1>1, <1>5, <1>6 DEF IInv, PagesOwned
<1>10. Handed'
  BY <1>1, <1>5, <1>6 DEF IInv, Handed
<1> QED
  BY <1>7, <1>8, <1>9, <1>10 DEF IInv

\* exitTask gives back the stack and the address space of the task that ends, and,
\* when nobody lost a page before, those only.
LEMMA ExitTaskKeeps ==
    ASSUME IInv, NEW p \in TaskPids, ExitTask(p)
    PROVE  IInv'
<1> DEFINE v == kstack[p]
           m == UnmapPage(mem, v)
<1>1. /\ p \in LiveTasks /\ p \in Spaces /\ p \in AS /\ p \in Pids
      /\ Live(mem, p) /\ Running /\ v # NullPtr
  BY RunningTaskIsLive, PidFacts DEF ExitTask
<1>2. robbed = FALSE => PagesOwned(mem, LiveTasks, kstack, heap)
  BY <1>1 DEF IInv
<1>3. v \in KernelVAddrs \ Boots(mem)
  BY <1>1 DEF IInv, Handed
<1>4. /\ MemInv(m) /\ Boots(m) = Boots(mem) /\ m.cpu = mem.cpu /\ Mapped(m) = Mapped(mem) \ {v}
      /\ \A b \in AS : Live(m, b) <=> Live(mem, b)
  BY <1>3, UnmapUnmaps DEF IInv
<1>5. /\ nProc' = nProc - 1 /\ state' = [state EXCEPT ![p] = 0] /\ current' = 0
      /\ mem' = DestroyPageDir(m, p) /\ UNCHANGED <<kstack, heap, loop, saved, robbed>>
  BY DEF ExitTask, history
<1> HIDE DEF m
<1>6. MemInv(mem')
  BY <1>1, <1>4, <1>5, DestroyPageDirInv
<1>7. ~Live(mem', p) /\ Changes(m, mem', {s \in Slots : s[2] = p})
  BY <1>1, <1>4, <1>5, DestroyChanges
<1>8. /\ Mapped(mem') = Mapped(mem) \ {v} /\ Boots(mem') = Boots(mem)
      /\ \A b \in AS \ {p} : Live(mem', b) <=> Live(mem, b)
  BY <1>1, <1>4, <1>7, ElsewhereSame
<1>9. LiveTasks' = LiveTasks \ {p}
  BY <1>1, <1>5, PidFacts DEF IInv, TypeOK, LiveTasks, Ready
<1>10. /\ Cardinality(LiveTasks') = Cardinality(LiveTasks) - 1
       /\ Cardinality(LiveTasks) \in Nat /\ Cardinality(LiveTasks') \in Nat
  <2>1. IsFiniteSet(LiveTasks') /\ Cardinality(LiveTasks') \in Nat
    BY <1>9, LiveTasksFinite, FS_RemoveElement, FS_CardinalityType
  <2> QED
    BY <1>1, <1>9, <2>1, LiveTasksFinite, FS_RemoveElement
<1>11. Counted'
  BY <1>5, <1>10 DEF IInv, Counted
<1>12. TypeOK'
  BY <1>1, <1>5, <1>6, <1>11 DEF IInv, TypeOK, MemInv, Counted
<1>13. AddressSpacesMatchTasks'
  BY <1>1, <1>5, <1>7, <1>8, PidFacts DEF IInv, TypeOK, AddressSpacesMatchTasks
<1>14. ASSUME robbed' = FALSE PROVE PagesOwned(mem', LiveTasks', kstack', heap')
  <2>1. PagesOwned(mem, LiveTasks, kstack, heap)
    BY <1>2, <1>5, <1>14
  <2>2. Mapped(mem') = heap \cup ({kstack[q] : q \in LiveTasks \ {p}} \ {NullPtr})
    BY <1>1, <1>8, <2>1 DEF PagesOwned
  <2> QED
    BY <1>5, <1>9, <2>1, <2>2 DEF PagesOwned
<1>15. Handed'
  BY <1>1, <1>5, <1>8 DEF IInv, Handed
<1> QED
  BY <1>6, <1>11, <1>12, <1>13, <1>14, <1>15 DEF IInv

\* A load that faults gives back the address space it made.  The stack it unmaps was
\* mapped by no task of its slot: whoever had the page has lost it.
LEMMA LoadFaultsKeeps ==
    ASSUME IInv, NEW img \in Images, LoadFaults(img)
    PROVE  IInv'
<1> DEFINE p == FreePid
           v == kstack[p]
           m == LoadElf(mem, p, img)
           n == IF v = NullPtr THEN m ELSE UnmapPage(m, v)
<1>1. p \in TaskPids /\ state[p] = 0 /\ p \in Spaces /\ p \in AS /\ p \in Pids
  BY FreePidIsFree, PidFacts DEF LoadFaults
<1>2. ~Live(mem, p) /\ Running /\ 0 \in LiveTasks \cup {0}
  BY <1>1 DEF IInv, AddressSpacesMatchTasks, LoadFaults, RunningTask, AtLoop
<1>3. Loads(mem, m, p)
  BY <1>1, <1>2, LoadElfLoads DEF IInv, Running
<1>4. /\ m.cpu = "run"
      /\ UNCHANGED <<state, kstack, nProc, heap, saved>>
      /\ saved => /\ mem' = DestroyPageDir(n, p) /\ current' = 0
                  /\ loop' = (IF loop = "load" THEN "test" ELSE loop)
                  /\ robbed' = (robbed \/ HasStack(p))
      /\ ~saved => mem' = FatalError(m) /\ UNCHANGED <<current, loop, robbed>>
  BY DEF LoadFaults
<1>5. LiveTasks' = LiveTasks /\ Counted'
  BY <1>4 DEF IInv, Counted, LiveTasks, Ready
<1> HIDE DEF p, m
<1>6. MemInv(m) /\ Live(m, p)
  BY <1>3, <1>4 DEF Loads
<1>7. CASE ~saved
  <2>1. MemInv(mem') /\ ~Running'
    BY <1>4, <1>6, <1>7, FatalGrows DEF Grows, Running
  <2>2. TypeOK'
    BY <1>4, <1>5, <1>7, <2>1 DEF IInv, TypeOK, MemInv
  <2> QED
    BY <1>5, <2>1, <2>2 DEF IInv, AddressSpacesMatchTasks
<1>8. CASE saved
  <2>1. /\ Mapped(m) = Mapped(mem) /\ Boots(m) = Boots(mem)
        /\ \A b \in AS \ {p} : Live(m, b) <=> Live(mem, b)
    BY <1>1, <1>3, ElsewhereSame DEF Loads
  <2>2. v # NullPtr => v \in KernelVAddrs \ Boots(m)
    BY <1>1, <1>2, <2>1 DEF IInv, Handed
  <2>3. /\ MemInv(n) /\ Boots(n) = Boots(m) /\ Mapped(n) = Mapped(m) \ {v}
        /\ \A b \in AS : Live(n, b) <=> Live(m, b)
    <3>1. CASE v = NullPtr
      BY <1>6, <3>1, KernelVAddrFacts DEF Mapped
    <3>2. CASE v # NullPtr
      BY <1>6, <2>2, <3>2, UnmapUnmaps
    <3> QED
      BY <3>1, <3>2
  <2> HIDE DEF n
  <2>4. MemInv(mem') /\ ~Live(mem', p) /\ Changes(n, mem', {s \in Slots : s[2] = p})
    BY <1>1, <1>4, <1>6, <1>8, <2>3, DestroyPageDirInv, DestroyChanges
  <2>5. /\ Mapped(mem') = Mapped(mem) \ {v} /\ Boots(mem') = Boots(mem)
        /\ \A b \in AS \ {p} : Live(mem', b) <=> Live(mem, b)
    BY <1>1, <2>1, <2>3, <2>4, ElsewhereSame
  <2>6. robbed \in BOOLEAN /\ HasStack(p) \in BOOLEAN
    BY DEF IInv, TypeOK, HasStack
  <2>7. TypeOK'
    <3>1. robbed' \in BOOLEAN
      BY <1>4, <1>8, <2>6
    <3>2. /\ current' \in LiveTasks' \cup {0}
          /\ loop' \in {"hello", "sh", "test", "load", "asleep"}
      BY <1>4, <1>8 DEF IInv, TypeOK
    <3> QED
      BY <1>4, <1>5, <2>4, <3>1, <3>2 DEF IInv, TypeOK, MemInv
  <2>8. AddressSpacesMatchTasks'
    BY <1>1, <1>2, <1>4, <2>4, <2>5, PidFacts DEF IInv, AddressSpacesMatchTasks
  <2>9. Handed'
    BY <1>2, <1>4, <2>5 DEF IInv, Handed
  <2>10. ASSUME robbed' = FALSE PROVE PagesOwned(mem', LiveTasks', kstack', heap')
    <3>1. robbed = FALSE /\ ~HasStack(p)
      BY <1>4, <1>8, <2>6, <2>10
    <3>2. v \notin Mapped(mem)
      BY <3>1, KernelVAddrFacts, LowFramesReserved DEF HasStack, Mapped, KernelPage
    <3>3. Mapped(mem') = Mapped(mem)
      BY <2>5, <3>2
    <3> QED
      BY <1>2, <1>4, <1>5, <3>1, <3>3 DEF IInv, PagesOwned
  <2> QED
    BY <1>5, <2>4, <2>7, <2>8, <2>9, <2>10 DEF IInv
<1> QED
  BY <1>7, <1>8

\* malloc's page was nobody's.
LEMMA HeapGrowKeeps ==
    ASSUME IInv, HeapGrow
    PROVE  IInv'
<1> DEFINE r == MapPage(mem, Kernel, NullPtr)
<1>1. mem.cpu = "run" /\ Kernel \in AS /\ Live(mem, Kernel) /\ MemInv(mem)
  BY PidFacts DEF HeapGrow, Running, IInv, MemInv, KernelTables, Live, PML4_FRAME
<1>2. /\ MemInv(r.mem)
      /\ \A b \in AS : Live(r.mem, b) <=> Live(mem, b)
      /\ Boots(r.mem) = Boots(mem)
      /\ r.vaddr = NullPtr => Mapped(r.mem) = Mapped(mem)
      /\ r.vaddr # NullPtr => /\ r.vaddr \in KernelVAddrs \ Mapped(mem)
                              /\ r.vaddr \notin Boots(mem)
                              /\ Mapped(r.mem) = Mapped(mem) \cup {r.vaddr}
  BY <1>1, MapAnyMaps
<1>3. /\ mem' = r.mem /\ heap' = heap \cup ({r.vaddr} \ {NullPtr})
      /\ UNCHANGED <<state, kstack, nProc, current, loop, saved, robbed>>
      /\ LiveTasks' = LiveTasks
  BY DEF HeapGrow, procVars, history, LiveTasks, Ready
<1> HIDE DEF r
<1>4. heap' \subseteq VAddrs
  BY <1>2, <1>3, KernelVAddrFacts DEF IInv, TypeOK
<1>5. TypeOK' /\ Counted'
  BY <1>2, <1>3, <1>4 DEF IInv, TypeOK, Counted, MemInv
<1>6. AddressSpacesMatchTasks'
  BY <1>1, <1>2, <1>3, PidFacts DEF IInv, AddressSpacesMatchTasks, Running
<1>7. ASSUME robbed' = FALSE PROVE PagesOwned(mem', LiveTasks', kstack', heap')
  <2>1. PagesOwned(mem, LiveTasks, kstack, heap)
    BY <1>1, <1>3, <1>7 DEF IInv, Running
  <2>2. Mapped(mem') = heap' \cup ({kstack[q] : q \in LiveTasks} \ {NullPtr})
    BY <1>2, <1>3, <2>1 DEF PagesOwned
  <2>3. \A q \in LiveTasks : kstack[q] \notin heap'
    BY <1>2, <1>3, <2>1 DEF PagesOwned
  <2> QED
    BY <1>3, <2>1, <2>2, <2>3 DEF PagesOwned
<1>8. Handed'
  BY <1>1, <1>2, <1>3 DEF IInv, Handed, Running
<1> QED
  BY <1>2, <1>3, <1>5, <1>6, <1>7, <1>8 DEF IInv

\* free() unmaps no stack as long as nobody lost a page.
LEMMA HeapShrinkKeeps ==
    ASSUME IInv, HeapShrink
    PROVE  IInv'
<1>1. PICK v \in heap : mem' = UnmapPage(mem, v) /\ heap' = heap \ {v}
  BY DEF HeapShrink
<1>2. Running /\ v \in KernelVAddrs \ Boots(mem)
  BY NullAssumption DEF IInv, HeapShrink, Handed, TypeOK
<1>3. /\ MemInv(mem') /\ mem'.cpu = mem.cpu /\ Mapped(mem') = Mapped(mem) \ {v}
      /\ Boots(mem') = Boots(mem)
      /\ \A b \in AS : Live(mem', b) <=> Live(mem, b)
  BY <1>1, <1>2, UnmapUnmaps DEF IInv
<1>4. /\ UNCHANGED <<state, kstack, nProc, current, loop, saved, robbed>>
      /\ LiveTasks' = LiveTasks
  BY DEF HeapShrink, procVars, history, LiveTasks, Ready
<1>5. TypeOK' /\ Counted'
  BY <1>1, <1>3, <1>4 DEF IInv, TypeOK, Counted, MemInv
<1>6. AddressSpacesMatchTasks'
  BY <1>2, <1>3, <1>4, PidFacts DEF IInv, AddressSpacesMatchTasks, Running
<1>7. ASSUME robbed' = FALSE PROVE PagesOwned(mem', LiveTasks', kstack', heap')
  <2>1. PagesOwned(mem, LiveTasks, kstack, heap)
    BY <1>2, <1>4, <1>7 DEF IInv
  <2>2. Mapped(mem') = heap' \cup ({kstack[q] : q \in LiveTasks} \ {NullPtr})
    BY <1>1, <1>3, <2>1 DEF PagesOwned
  <2> QED
    BY <1>1, <1>4, <2>1, <2>2 DEF PagesOwned
<1>8. Handed'
  BY <1>1, <1>2, <1>3, <1>4 DEF IInv, Handed
<1> QED
  BY <1>3, <1>5, <1>6, <1>7, <1>8 DEF IInv

\* A step that moves only current, to a ready task or to the kernel, or the main
\* loop's position, keeps the invariant.
LEMMA MovesKeep ==
    ASSUME IInv, UNCHANGED <<mem, state, kstack, nProc, heap, robbed>>,
           current' \in LiveTasks \cup {0}, saved' \in BOOLEAN,
           loop' \in {"hello", "sh", "test", "load", "asleep"}
    PROVE  IInv'
BY DEF IInv, TypeOK, Counted, AddressSpacesMatchTasks, Running, LiveTasks, Ready, Handed

\* A processor that halts leaves the rest as it is.
LEMMA CrashKeeps ==
    ASSUME IInv, Crash \/ HeapFault
    PROVE  IInv'
<1>1. mem' = FatalError(mem) /\ UNCHANGED <<procVars, heap, loop, history>>
  BY DEF Crash, HeapFault
<1>2. MemInv(mem') /\ ~Running'
  BY <1>1, FatalGrows DEF IInv, Grows, Running
<1> QED
  BY <1>1, <1>2 DEF procVars, history, IInv, TypeOK, Counted, MemInv, AddressSpacesMatchTasks,
                    LiveTasks, Ready

-----------------------------------------------------------------------------
(***************************************************************************)
(* The theorems.                                                           *)
(***************************************************************************)
\* No task, nothing on the heap and only boot's mappings.
LEMMA InitTasks == Init => IInv
<1> SUFFICES ASSUME Init PROVE IInv
  OBVIOUS
<1>1. MemInv(mem) /\ mem.used = Reserved
  BY InitMemInv DEF Init, InitMem
<1>2. \A s \in Slots : mem.entry[s] \in Reserved
  BY <1>1 DEF MemInv, FramesAccounted
<1>3. LiveTasks = {}
  <2>1. ASSUME NEW p \in TaskPids PROVE state[p] = 0
    <3>1. p \in Pids /\ p # 0
      BY PidFacts
    <3> QED
      BY <3>1 DEF Init
  <2> QED
    BY <2>1 DEF LiveTasks, Ready
<1>4. Cardinality(LiveTasks) = 0
  BY <1>3, FS_EmptySet
<1>5. TypeOK /\ Counted
  <2>1. saved \in BOOLEAN /\ robbed \in BOOLEAN
    BY Zenon DEF Init
  <2>2. /\ mem \in MemType /\ state \in [Pids -> {0, 1}]
        /\ kstack \in [Pids -> VAddrs \cup {NullPtr}]
        /\ nProc = 0 /\ current = 0 /\ heap = {} /\ loop = "hello"
    BY <1>1 DEF Init, MemInv
  <2> QED
    BY <1>4, <2>1, <2>2 DEF TypeOK, Counted
<1>6. \A p \in TaskPids : ~Live(mem, p)
  <2>1. ASSUME NEW p \in TaskPids PROVE mem.entry[PML4(p)] = 0
    <3>1. PML4(p) \in Slots /\ PML4(p)[2] # Kernel /\ PML4(p) # PD(p, 0)
      BY PidFacts, SlotMembership, SlotKinds, SlotsDiffer
    <3>2. PML4(p)[2] = p
      BY SlotKinds
    <3> QED
      BY <1>1, <1>2, <3>1, <3>2 DEF MemInv, SharesKernel
  <2> QED
    BY <2>1 DEF Live
<1>7. AddressSpacesMatchTasks
  BY <1>3, <1>6 DEF AddressSpacesMatchTasks, LiveTasks, Ready
<1>8. Mapped(mem) = {}
  BY <1>2, KernelVAddrFacts DEF Mapped
<1>9. PagesOwned(mem, LiveTasks, kstack, heap)
  BY <1>3, <1>8 DEF PagesOwned, Init
<1>10. Handed
  BY DEF Handed, Init
<1> QED
  BY <1>1, <1>5, <1>7, <1>9, <1>10 DEF IInv

\* The invariant holds in every step.
LEMMA StepTasks == IInv /\ [Next]_vars => IInv'
<1> SUFFICES ASSUME IInv, [Next]_vars PROVE IInv'
  OBVIOUS
<1> DEFINE places == {"hello", "sh", "test", "load", "asleep"}
<1>0. loop \in places /\ current \in LiveTasks \cup {0} /\ saved \in BOOLEAN
  BY DEF IInv, TypeOK
<1>1. CASE BootHello
  BY <1>1, LoadTaskKeeps DEF BootHello, AtLoop
<1>2. CASE BootShell
  BY <1>2, LoadTaskKeeps DEF BootShell, AtLoop
<1>3. CASE LoopTest
  BY <1>0, <1>3, MovesKeep DEF LoopTest, procVars, history
<1>4. CASE LoopLoad
  <2>1. PICK ok \in BOOLEAN : loop' = (IF ok THEN "test" ELSE "asleep") /\ LoadTask(ok)
    BY <1>4 DEF LoopLoad
  <2>2. loop' \in {"hello", "sh", "test", "load", "asleep"}
    BY <2>1
  <2> QED
    BY <1>4, <2>1, <2>2, LoadTaskKeeps DEF LoopLoad, AtLoop
<1>5. ASSUME NEW p \in TaskPids, SysRun(p) PROVE IInv'
  BY <1>0, <1>5, LoadTaskKeeps DEF SysRun, RunningTask
<1>6. CASE TickReturns \/ Halt \/ UNCHANGED vars
  BY <1>0, <1>6, MovesKeep DEF TickReturns, Halt, vars
<1>7. CASE Schedule
  <2>1. saved' \in BOOLEAN /\ current' \in LiveTasks \cup {0}
    BY <1>7, NextPidIsReady DEF Schedule, IInv
  <2> QED
    BY <1>0, <1>7, <2>1, MovesKeep DEF Schedule
<1> QED
  BY <1>1, <1>2, <1>3, <1>4, <1>5, <1>6, <1>7, PageFaultKeeps, ExitTaskKeeps, LoadFaultsKeeps,
     CrashKeeps, HeapGrowKeeps, HeapShrinkKeeps
  DEF Next, KernelLoop

\* The invariant always holds.
LEMMA TasksInvariant == Spec => []IInv
BY InitTasks, StepTasks, PTL DEF Spec

\* pList, nProc and the heap always have their types, nProc never wraps below 0, and
\* schedule never switches to a slot that exitTask freed or loadTask has not filled.
THEOREM TasksTypeCorrect == Spec => []TypeOK
<1>1. IInv => TypeOK
  BY DEF IInv
<1> QED
  BY <1>1, TasksInvariant, PTL

\* Across every path of loadTask, exitTask, the fault handler and malloc, no frame is
\* leaked, shared or freed while it is referred to.
THEOREM MemoryStaysInOrder == Spec => []MemoryInOrder
<1>1. IInv => MemoryInOrder
  BY DEF IInv, MemInv, MemoryInOrder
<1> QED
  BY <1>1, TasksInvariant, PTL

\* While the kernel runs, a slot of pList is ready exactly when its address space
\* exists.
THEOREM SpacesMatchTasks == Spec => []AddressSpacesMatchTasks
<1>1. IInv => AddressSpacesMatchTasks
  BY DEF IInv
<1> QED
  BY <1>1, TasksInvariant, PTL

\* Until a load that faults unmaps a page in use, every kernel page that boot did not
\* map is the heap's or the stack of one ready task: exitTask and free() never unmap
\* each other's pages.
THEOREM KernelPagesHaveOneOwner == Spec => []KernelPagesOwned
<1>1. IInv => KernelPagesOwned
  <2> SUFFICES ASSUME IInv, Running, ~robbed PROVE KernelPagesOwned
    BY DEF KernelPagesOwned
  <2>0. robbed = FALSE
    BY DEF IInv, TypeOK
  <2>1. PagesOwned(mem, LiveTasks, kstack, heap)
    BY <2>0 DEF IInv
  <2>2. Mapped(mem) = {v \in {0} \X Tables \X Pages : KernelPage(v) \notin Reserved}
    BY DEF Mapped, KernelVAddrs, KernelPage
  <2> DEFINE stacks == [p \in LiveTasks |-> kstack[p]]
  <2>3. \A p \in LiveTasks : stacks[p] = kstack[p]
    OBVIOUS
  <2>4. {stacks[p] : p \in LiveTasks} = {kstack[p] : p \in LiveTasks}
    BY <2>3
  <2> HIDE DEF stacks
  <2>5. /\ Mapped(mem) = heap \cup ({stacks[p] : p \in LiveTasks} \ {NullPtr})
        /\ \A p, q \in LiveTasks : stacks[p] = stacks[q] /\ stacks[p] # NullPtr => p = q
        /\ \A p \in LiveTasks : stacks[p] \notin heap
    BY <2>1, <2>3, <2>4 DEF PagesOwned
  <2> QED
    BY <2>2, <2>5 DEF KernelPagesOwned, stacks
<1> QED
  BY <1>1, TasksInvariant, PTL

\* schedule's early returns starve nobody: when nProc is 0, or 1 while a task runs, no
\* other task is ready, however many loads failed before.
THEOREM EarlyReturnsStarveNobody == Spec => []EarlyReturnsAreSafe
<1>1. IInv => EarlyReturnsAreSafe
  <2> SUFFICES ASSUME IInv, nProc = 0 \/ (nProc = 1 /\ current # 0)
               PROVE  LiveTasks \subseteq {current}
    BY DEF EarlyReturnsAreSafe
  <2>1. IsFiniteSet(LiveTasks) /\ Cardinality(LiveTasks) \in Nat /\ Cardinality(LiveTasks) <= nProc
    BY LiveTasksFinite DEF IInv, Counted
  <2>2. CASE Cardinality(LiveTasks) = 0
    BY <2>1, <2>2, FS_EmptySet
  <2>3. CASE Cardinality(LiveTasks) = 1 /\ current # 0
    <3>1. current \in LiveTasks
      BY <2>3 DEF IInv, TypeOK
    <3>2. PICK x : LiveTasks = {x}
      BY <2>1, <2>3, FS_Singleton
    <3> QED
      BY <3>1, <3>2
  <2> QED
    BY <2>1, <2>2, <2>3
<1> QED
  BY <1>1, TasksInvariant, PTL

=============================================================================
