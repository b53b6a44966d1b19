------------------------------- MODULE Paging -------------------------------
(***************************************************************************)
(* The class Paging as a state machine: each action is one call, made with *)
(* the arguments its callers pass.                                         *)
(*                                                                         *)
(*   HeapMap, HeapUnmap   malloc's growth (Malloc::malloc) and shrinking   *)
(*                        (Malloc::free), and the kernel stack that        *)
(*                        exitTask gives back                              *)
(*   Probe                malloc's call of getUnmappedVAddr                *)
(*   UserMap              the page fault handler, loadElf and the first    *)
(*                        user stack page of loadTask                      *)
(*   StackMap             loadTask's kernel stack: any page, through the   *)
(*                        new task's page tables                           *)
(*   Create, Destroy      loadTask and exitTask                            *)
(***************************************************************************)
EXTENDS PageTables

CONSTANTS
    UserPages,      \* the user pages that tasks touch
    HeapPages       \* the kernel pages malloc names when it grows its heap

\* User pages lie above USER_OFFSET, which is where directory 0 ends.
ASSUME UserPagesAssumption == UserPages \subseteq {v \in VAddrs : v[1] # 0}

ASSUME HeapPagesAssumption ==
    HeapPages \subseteq {v \in VAddrs : v[1] = 0 /\ (v[2] = 0 => v[3] >= FirstPage)}

VARIABLE mem

vars == mem

Running == mem.cpu = "run"

Init == mem = InitMem

HeapMap(v) ==
    /\ Running
    /\ mem' = MapPage(mem, Kernel, v).mem

Probe ==
    /\ Running
    /\ mem' = GetUnmappedVAddr(mem).mem

\* Callers unmap only pages that mapPage gave them, never the boot mappings; a
\* page that is not mapped is reported and nothing else.
HeapUnmap(v) ==
    /\ Running
    /\ mem.entry[PTE(Kernel, v[1], v[2], v[3])] \notin Reserved \ {0}
    /\ mem' = UnmapPage(mem, v)

UserMap(a, v) ==
    /\ Running
    /\ Live(mem, a)
    /\ mem' = MapPage(mem, a, v).mem

StackMap(a) ==
    /\ Running
    /\ Live(mem, a)
    /\ mem' = MapPage(mem, a, NullPtr).mem

Create(a) ==
    /\ Running
    /\ ~Live(mem, a)
    /\ mem' = CreatePageDir(mem, a).mem

Destroy(a) ==
    /\ Running
    /\ Live(mem, a)
    /\ mem' = DestroyPageDir(mem, a)

\* fatalError never returns.
Halt ==
    /\ ~Running
    /\ UNCHANGED mem

Next ==
    \/ \E v \in HeapPages \cup {NullPtr} : HeapMap(v)
    \/ \E v \in HeapPages : HeapUnmap(v)
    \/ Probe
    \/ \E a \in Spaces : \/ \E v \in UserPages : UserMap(a, v)
                         \/ StackMap(a)
                         \/ Create(a)
                         \/ Destroy(a)
    \/ Halt

Spec == Init /\ [][Next]_vars

-----------------------------------------------------------------------------
(***************************************************************************)
(* Properties.                                                             *)
(***************************************************************************)

\* The memory is a bitmap over the frames and a frame for every slot.
TypeOK == mem \in MemType

\* No frame is leaked and none is lost: the bitmap marks exactly the frames
\* that boot reserved and those that some present entry refers to, across
\* mapPage's partial builds, createPageDir's rollback and destroyPageDir's walk.
BitmapMatchesTables == FramesAccounted(mem)

\* No frame is in two places: two entries of any page tables that hold the same
\* frame hold one that boot set aside (the shared page directory 0, the identity
\* map), so a task's page is never also a table or another task's page.
NoAliasing == Injective(mem)

\* Every present entry hangs from a present entry one level up, so that
\* destroyPageDir's walk from the PML4 comes across everything the address space
\* owns, and an address space has both its tables or neither.
TreesClosed == Closed(mem)

\* The kernel is mapped in every address space, and only its boot frames are:
\* entry 0 of a live PDPT is the kernel's directory, every other entry that a
\* user address space holds is a frame of its own, not one reserved at boot.
KernelShared == SharesKernel(mem)

\* A frame that enters a page table was free in the bitmap before the call, and
\* an entry that was present is never made to refer to another frame.
AllocationsAreFresh == [][Fresh(mem, mem')]_vars

-----------------------------------------------------------------------------
(***************************************************************************)
(* Refinement: an address space owns what its page tables hold, less what  *)
(* boot reserved.                                                          *)
(***************************************************************************)
SlotsOf == [a \in AS |-> {s \in Slots : s[2] = a}]

OwnedBy(a) == {mem.entry[s] : s \in SlotsOf[a]} \ Reserved

Ownership == INSTANCE FrameOwnership
                 WITH free     <- Frames \ mem.used,
                      owned    <- [a \in AS |-> OwnedBy(a)],
                      MaxGrant <- 3

\* Every call of the class Paging, with the tables it builds on the way and the
\* failures that leave it half done, is a grant, a return or a release of frames.
ImplementsOwnership == Ownership!Spec

=============================================================================
