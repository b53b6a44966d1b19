----------------------------- MODULE PageTables -----------------------------
(***************************************************************************)
(* The physical page allocator and the four level page tables of           *)
(* kernel/mm/paging.cpp.                                                   *)
(*                                                                         *)
(* A bitmap says which physical page frames are used; a frame is named by  *)
(* its number (its physical address / PAGESIZE).  The page tables of all   *)
(* address spaces are one function from entry positions ("slots") to       *)
(* frames, 0 standing for an entry whose PRESENT bit is clear: frame 0 is  *)
(* reserved at boot and no entry ever points to it.  Every address space   *)
(* reaches the kernel's page directory 0 through entry 0 of its PDPT, so a *)
(* virtual address in directory 0 is translated by the kernel's tables     *)
(* whatever the address space.                                             *)
(*                                                                         *)
(* The member functions of the class Paging are operators on the memory m, *)
(* so that the operations of their callers can be composed of them: module *)
(* Paging is the state machine of single calls, module Tasks that of the   *)
(* task manager.                                                           *)
(***************************************************************************)
EXTENDS Integers, FiniteSets

CONSTANTS
    MaxPhysPages,   \* maxPhysPages: the number of physical page frames
    FirstPage,      \* FREE_PAGES_START / PAGESIZE
    BootPages,      \* the pages boot.asm identity-maps below FREE_PAGES_START
    MbiReserved,    \* frames the multiboot memory map does not call RAM
    NDirs,          \* entries of a PDPT in use (512 in the hardware)
    NTables,        \* entries of a page directory (512)
    NPages,         \* entries of a page table (512)
    Kernel,         \* the kernel's address space, the PML4 at PML4_ADDR
    Spaces,         \* the address spaces createPageDir may make
    NullPtr         \* the nullptr a call returns, or is given for "any"

Frames  == 0 .. MaxPhysPages - 1
Dirs    == 0 .. NDirs - 1
Tables  == 0 .. NTables - 1
Pages   == 0 .. NPages - 1
AS      == Spaces \cup {Kernel}

\* A page-aligned virtual address: its indices in the PDPT, the PD and the PT.
\* Only entry 0 of a PML4 is ever present.
VAddrs  == Dirs \X Tables \X Pages

\* The frames of the kernel's own tables (PML4_ADDR .. PT0_ADDR).
PML4_FRAME  == 1
PDPT0_FRAME == 2
PD0_FRAME   == 3
PT0_FRAME   == 4

PAGESIZE == 4096

CeilDiv(n, k) == (n \div k) + (IF n % k = 0 THEN 0 ELSE 1)

\* The number of pages of the bitmap, which init puts at FREE_PAGES_START.
BitmapPages == CeilDiv(CeilDiv(MaxPhysPages, 8), PAGESIZE)

ASSUME SizeAssumption ==
    /\ MaxPhysPages \in Nat
    /\ NDirs \in Nat \ {0} /\ NTables \in Nat \ {0} /\ NPages \in Nat \ {0}

\* The bitmap lies in RAM, and PT0 maps it.
ASSUME LayoutAssumption ==
    /\ FirstPage \in Nat /\ FirstPage > PT0_FRAME
    /\ FirstPage + BitmapPages <= MaxPhysPages
    /\ FirstPage + BitmapPages <= NPages
    /\ BootPages \subseteq 1 .. FirstPage - 1
    /\ MbiReserved \subseteq Frames

ASSUME SpaceAssumption == Kernel \notin Spaces

ASSUME NullAssumption == NullPtr \notin VAddrs \cup Frames \cup AS

-----------------------------------------------------------------------------
(***************************************************************************)
(* Slots.  PML4(a) is the entry of the address space itself (its cr3);     *)
(* the others are the entries of its tables.                               *)
(***************************************************************************)
PML4(a)         == <<"PML4", a, 0, 0, 0>>
PDPT(a)         == <<"PDPT", a, 0, 0, 0>>
PD(a, d)        == <<"PD", a, d, 0, 0>>
PT(a, d, t)     == <<"PT", a, d, t, 0>>
PTE(a, d, t, p) == <<"PTE", a, d, t, p>>

\* The address space whose tables translate directory d of a.
Through(a, d) == IF d = 0 THEN Kernel ELSE a

\* The page directories that are not another address space's.
OwnDirs == {x \in AS \X Dirs : Through(x[1], x[2]) = x[1]}

Slots ==
    UNION { {PML4(a) : a \in AS},
            {PDPT(a) : a \in AS},
            {PD(a, d) : a \in AS, d \in Dirs},
            {PT(x[1], x[2], t) : x \in OwnDirs, t \in Tables},
            {PTE(x[1], x[2], t, p) : x \in OwnDirs, t \in Tables, p \in Pages} }

\* Pages of the kernel's first page table that are mapped to the frame of the
\* same number: boot.asm's, and the bitmap's.
IdentityPages == BootPages \cup (FirstPage .. FirstPage + BitmapPages - 1)

\* Frames the allocator never hands out: init marks everything up to the end of
\* the bitmap, reserveMbiMemmap what the memory map reserves.
Reserved == (0 .. FirstPage + BitmapPages - 1) \cup MbiReserved

MemType == [used : SUBSET Frames, entry : [Slots -> Frames], cpu : {"run", "halt"}]

InitMem ==
    [used  |-> Reserved,
     entry |-> [s \in Slots |->
                  CASE s = PML4(Kernel)     -> PML4_FRAME
                    [] s = PDPT(Kernel)     -> PDPT0_FRAME
                    [] s = PD(Kernel, 0)    -> PD0_FRAME
                    [] s = PT(Kernel, 0, 0) -> PT0_FRAME
                    [] s \in {PTE(Kernel, 0, 0, p) : p \in IdentityPages} -> s[5]
                    [] OTHER -> 0],
     cpu   |-> "run"]

Live(m, a) == m.entry[PML4(a)] # 0

FatalError(m) == [m EXCEPT !.cpu = "halt"]

Smallest(S) == CHOOSE x \in S : \A y \in S : x <= y

-----------------------------------------------------------------------------
(***************************************************************************)
(* The allocator.  The scan goes through maxPhysPages / 8 whole bytes of   *)
(* the bitmap.                                                             *)
(***************************************************************************)
FreePhysPages(used) == {f \in Frames : f < 8 * (MaxPhysPages \div 8)} \ used

GetFreePhysPage(used) ==
    IF FreePhysPages(used) = {} THEN NullPtr ELSE Smallest(FreePhysPages(used))

\* Mutant of Fill: markPhysPageUsed is forgotten.
FillUnmarked(m, s) == [m EXCEPT !.entry[s] = GetFreePhysPage(m.used)]

\* getFreePhysPage, the entry written, markPhysPageUsed.
Fill(m, s) ==
    LET f == GetFreePhysPage(m.used)
    IN  [m EXCEPT !.used = @ \cup {f}, !.entry[s] = f]

\* The missing PD or PT that mapPage and getUnmappedVAddr build on their way.
BuildTable(m, s) ==
    IF m.cpu = "halt" \/ m.entry[s] # 0 THEN m
    ELSE IF FreePhysPages(m.used) = {} THEN FatalError(m)
    ELSE Fill(m, s)

\* The unmapped pages of table t of the kernel's directory 0, the first
\* FREE_PAGES_START bytes skipped.
Unmapped(m, t) ==
    {p \in Pages : /\ t = 0 => p >= FirstPage
                   /\ m.entry[PTE(Kernel, 0, t, p)] = 0}

\* The first unmapped page of directory 0, its table built when it is missing.
\* A full directory is fatal: the next one is not present.
GetUnmappedVAddr(m) ==
    LET open == {t \in Tables : Unmapped(m, t) # {}}
        t    == Smallest(open)
        m1   == IF open = {} THEN FatalError(m) ELSE BuildTable(m, PT(Kernel, 0, t))
    IN  [mem   |-> m1,
         vaddr |-> IF m1.cpu = "halt" THEN NullPtr
                   ELSE <<0, t, Smallest(Unmapped(m, t))>>]

\* Mutant of MapPageAt: the result of getFreePhysPage is not checked.
MapPageAtUnchecked(m, a, v) ==
    LET s    == Through(a, v[1])
        m2   == BuildTable(BuildTable(m, PD(a, v[1])), PT(s, v[1], v[2]))
        leaf == PTE(s, v[1], v[2], v[3])
    IN  IF m2.cpu = "halt" \/ m2.entry[leaf] # 0
        THEN [mem |-> m2, vaddr |-> NullPtr]
        ELSE [mem |-> Fill(m2, leaf), vaddr |-> v]

\* Mutant of MapPageAt: a page that is mapped is mapped again, elsewhere.
MapPageAtAgain(m, a, v) ==
    LET s    == Through(a, v[1])
        m2   == BuildTable(BuildTable(m, PD(a, v[1])), PT(s, v[1], v[2]))
        leaf == PTE(s, v[1], v[2], v[3])
    IN  IF m2.cpu = "halt" \/ FreePhysPages(m2.used) = {}
        THEN [mem |-> m2, vaddr |-> NullPtr]
        ELSE [mem   |-> [Fill(m2, leaf) EXCEPT !.used = @ \ {m2.entry[leaf]}],
              vaddr |-> v]

\* mapPage with an explicit vaddr v.
MapPageAt(m, a, v) ==
    LET s    == Through(a, v[1])
        m1   == IF m.entry[PDPT(a)] = 0 THEN FatalError(m)
                ELSE BuildTable(m, PD(a, v[1]))
        m2   == BuildTable(m1, PT(s, v[1], v[2]))
        leaf == PTE(s, v[1], v[2], v[3])
    IN  IF m2.cpu = "halt" \/ m2.entry[leaf] # 0 \/ FreePhysPages(m2.used) = {}
        THEN [mem |-> m2, vaddr |-> NullPtr]
        ELSE [mem |-> Fill(m2, leaf), vaddr |-> v]

\* mapPage: a null vaddr asks for the first unmapped one.  No caller passes a
\* physical address.
MapPage(m, a, vaddr) ==
    LET u == IF vaddr = NullPtr THEN GetUnmappedVAddr(m)
             ELSE [mem |-> m, vaddr |-> vaddr]
    IN  IF u.vaddr = NullPtr THEN u ELSE MapPageAt(u.mem, a, u.vaddr)

\* Mutant of UnmapPage: markPhysPageFree is forgotten.
UnmapPageUnmarked(m, v) ==
    LET leaf == PTE(Kernel, v[1], v[2], v[3])
    IN  IF m.entry[leaf] = 0 THEN m ELSE [m EXCEPT !.entry[leaf] = 0]

\* Mutant of UnmapPage: the page table is given back and its pages are not.
UnmapPageTable(m, v) ==
    LET table == PT(Kernel, v[1], v[2])
    IN  IF m.entry[PTE(Kernel, v[1], v[2], v[3])] = 0 THEN m
        ELSE [m EXCEPT !.used = @ \ ({m.entry[table]} \ Reserved), !.entry[table] = 0]

\* unmapPage: through the kernel's PML4, an unmapped page is only logged.
UnmapPage(m, v) ==
    LET leaf == PTE(Kernel, v[1], v[2], v[3])
    IN  IF \/ m.entry[PD(Kernel, v[1])] = 0
           \/ m.entry[PT(Kernel, v[1], v[2])] = 0
           \/ m.entry[leaf] = 0
        THEN m
        ELSE [m EXCEPT !.used = @ \ {m.entry[leaf]}, !.entry[leaf] = 0]

\* Mutant of CreatePageDir: the kernel's directory is not entered.
CreatePageDirBare(m, a) ==
    LET f == GetFreePhysPage(m.used)
        g == GetFreePhysPage(m.used \cup {f})
    IN  IF f = NullPtr \/ g = NullPtr
        THEN [mem |-> m, pml4 |-> NullPtr]
        ELSE [mem  |-> [m EXCEPT !.used = @ \cup {f, g},
                                 !.entry[PML4(a)] = f, !.entry[PDPT(a)] = g],
              pml4 |-> a]

\* createPageDir: a PML4 and a PDPT, or nothing; directory 0 is the kernel's.
CreatePageDir(m, a) ==
    LET f == GetFreePhysPage(m.used)
        g == GetFreePhysPage(m.used \cup {f})
    IN  IF f = NullPtr \/ g = NullPtr
        THEN [mem |-> m, pml4 |-> NullPtr]
        ELSE [mem  |-> [m EXCEPT !.used = @ \cup {f, g},
                                 !.entry[PML4(a)] = f,
                                 !.entry[PDPT(a)] = g,
                                 !.entry[PD(a, 0)] = PD0_FRAME],
              pml4 |-> a]

\* Mutant of WalkPageDir: the walk stops at the page tables.
WalkPageDirShort(m, a) ==
    LET dirs   == {d \in Dirs : m.entry[PD(a, d)] \notin {0, PD0_FRAME}}
        tables == {x \in dirs \X Tables : m.entry[PT(a, x[1], x[2])] # 0}
    IN  {m.entry[PML4(a)], m.entry[PDPT(a)]}
          \cup {m.entry[PD(a, d)] : d \in dirs}
          \cup {m.entry[PT(a, x[1], x[2])] : x \in tables}

\* The frames destroyPageDir's walk of the tree of a comes across.
WalkPageDir(m, a) ==
    LET dirs   == {d \in Dirs : m.entry[PD(a, d)] \notin {0, PD0_FRAME}}
        tables == {x \in dirs \X Tables : m.entry[PT(a, x[1], x[2])] # 0}
        leaves == {y \in tables \X Pages :
                     m.entry[PTE(a, y[1][1], y[1][2], y[2])] # 0}
    IN  {m.entry[PML4(a)], m.entry[PDPT(a)]}
          \cup {m.entry[PD(a, d)] : d \in dirs}
          \cup {m.entry[PT(a, x[1], x[2])] : x \in tables}
          \cup {m.entry[PTE(a, y[1][1], y[1][2], y[2])] : y \in leaves}

\* destroyPageDir: the frames are marked free; with them the tables are gone.
DestroyPageDir(m, a) ==
    [m EXCEPT !.used = @ \ WalkPageDir(m, a),
              !.entry = [s \in Slots |-> IF s[2] = a THEN 0 ELSE @[s]]]

-----------------------------------------------------------------------------
(***************************************************************************)
(* What a memory in order looks like.                                      *)
(***************************************************************************)

\* The bitmap marks what boot reserved and what the tables hold, nothing else.
FramesAccounted(m) == m.used = Reserved \cup {m.entry[s] : s \in Slots}

Held(m) == {s \in Slots : m.entry[s] \notin Reserved}

\* A frame that boot did not reserve is in one slot at most.
Injective(m) == \A s, u \in Held(m) : m.entry[s] = m.entry[u] => s = u

\* A present entry hangs from a present entry.
Closed(m) ==
    \A a \in AS :
        /\ m.entry[PML4(a)] = 0 <=> m.entry[PDPT(a)] = 0
        /\ \A d \in Dirs : m.entry[PD(a, d)] # 0 => m.entry[PDPT(a)] # 0
        /\ \A d \in {e \in Dirs : Through(a, e) = a}, t \in Tables :
              /\ m.entry[PT(a, d, t)] # 0 => m.entry[PD(a, d)] # 0
              /\ \A p \in Pages :
                    m.entry[PTE(a, d, t, p)] # 0 => m.entry[PT(a, d, t)] # 0

\* A user address space holds one reserved frame, the shared directory 0.
SharesKernel(m) ==
    /\ \A a \in Spaces : Live(m, a) => m.entry[PD(a, 0)] = PD0_FRAME
    /\ \A s \in Slots :
          m.entry[s] \in Reserved \ {0} => s[2] = Kernel \/ s = PD(s[2], 0)

\* From m to n: what enters a table was free, and a present entry keeps its frame.
Fresh(m, n) ==
    \A s \in Slots :
        n.entry[s] \notin {m.entry[s], 0, PD0_FRAME} =>
            n.entry[s] \notin m.used /\ m.entry[s] = 0

=============================================================================
