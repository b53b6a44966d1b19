# SepplesOS in TLA+

SepplesOS is a small 64-bit kernel in C++: a page allocator, a heap, preemptive
tasks loaded from ELF files on an ext2 disk, a keyboard driver, a text screen.
This directory models the parts of it that carry state and interact: memory,
tasks and their scheduling, the context switch, line input, the screen and its
log, the disk driver and the file system. TLC checks the models on small
instances. TLAPS proves every safety property that the passing runs check, of
memory, tasks, the context switch, the heap, line input, the screen, the disk
driver and the file system, for every instance; section 4 says under which
hypotheses.

Paths below are relative to `src/kernel/`.

## 1. The system

| Part | State | Operations | Used by |
|---|---|---|---|
| Page allocator and page tables (`mm/paging.cpp`) | bitmap of physical pages; four-level page tables of the kernel and of every task; a page of kernel addresses for temporary mappings | `init`, `mapPage`, `unmapPage`, `getUnmappedVAddr`, `createPageDir`, `destroyPageDir`, `phyread`/`phywrite` | heap, tasks, ELF loader, page faults |
| Heap (`mm/malloc.cpp`) | list of chunks, `endOfChunks`, totals, `mallocReady`, records of `new` | `malloc`, `free`, `realloc`, `squeeze` | everything |
| Tasks (`proc/process.cpp`) | `pList`, `nProc`, `current` | `loadTask`, `exitTask`, `schedule`, `switchToTask` | main loop, system calls, clock |
| Context switch (`proc/doSwitch.asm`, `interruptWrapper.asm`, `arch/tss.cpp`) | kernel stacks, the TSS, saved registers | entry and return of interrupts and system calls, `doTaskSwitch` | `schedule`, `exitTask` |
| ELF loader (`proc/elf.cpp`) | the new task's image | `loadElf` | `loadTask` |
| Main loop (`sepples.cpp`) | where it is | boot, starting a shell when no task is left | |
| Interrupts and system calls (`interrupt.cpp`, `syscalls.cpp`) | none of their own | page fault, clock, keyboard, debug; `exit`, `print`, `nget`, `run` | tasks |
| Keyboard (`keyboard.cpp`) | `ilock`, `ubuf`, `pos`, `stop` | `scan`, `nget`, `input`, `unlock` | `nget` system call, keyboard interrupt |
| Screen (`vga/vgatext.cpp`) | framebuffer, cursor, log, rubout limit | `put`, `rubout`, `newLines`, `scroll`, `enableLog` | everything that prints |
| ATA driver (`disk/disk.cpp`) | `regConfigInfo`; the drive's registers | `init`, `diskRead` with its polling loops and its retry | partitions, ext2 |
| Partitions, VFS, ext2 (`disk/partTable.cpp`, `vfs.cpp`, `ext2.cpp`) | the tree of `Node`s with superblocks, descriptors and inodes | `mountAll`, `mount`, `lookup`, `resolvePath`, `read` | `loadTask` |
| Boot, descriptor tables, libraries | tables written once; containers | | |

The parts share an address space and interrupt each other:

* The clock (25 Hz) preempts user code *and system calls*, which enter through a
  trap gate with interrupts enabled. `loadTask` (after the path is resolved),
  `exitTask`, the screen and the exception handlers mask interrupts.
* Physical pages go from the allocator to three users: the heap and kernel
  stacks in the page directory that all address spaces share, and tasks' pages
  in their own. `exitTask` returns a whole tree, `free` single pages.
* The heap wants consecutive addresses; the kernel stack of a new task is put at
  the first unmapped address, which is usually the one the heap wants next.
* A key is stored by an interrupt through an address that a task has left with
  the driver, in whatever address space is loaded.
* Interrupts print while a system call is in `malloc`, which the log needs.
* `run` resolves its path, and so reads the disk and changes the tree of nodes,
  while it can be preempted.

What is hard to get right, and to test: memory that runs out in the middle of an
operation; an operation that fails half way and has to undo what it did; counts
(`nProc`, the bitmap) that have to agree with the structures they summarise;
check-then-act on `ilock` and `mallocReady`; values read before and used after a
preemption; frames that several tasks keep on stacks which the switch rebuilds;
a drive that answers late, wrongly or not at all, to callers that do not look at
the result; a wait that nothing ends. `PROJECT.json` lists these hazards at
their lines.

## 2. The modules

| Module | Models | Runs |
|---|---|---|
| `PageTables` | `mm/paging.cpp` as operators on a memory record | |
| `Paging` | the page allocator as a state machine of single calls | `paging` |
| `FrameOwnership` | abstract: frames are free, or owned by one address space | |
| `PageTablesProofs` | lemmas about the member functions of `Paging`, for the next two | |
| `PagingProofs` | the theorems about `Paging` | |
| `Tasks` | `process.cpp`, `boot()`, page fault, clock, `run` and `exit`, over `PageTables` | `tasks` |
| `TasksProofs` | the theorems about `Tasks` | |
| `Switch` | `schedule`, `switchToTask`, `doTaskSwitch` and the entry code: registers, frames, TSS | `switch`, `switch_syscall` |
| `SwitchProofs` | the theorems about `Switch` | |
| `Heap` | `malloc`, `free` and `realloc`, and the kernel stacks in their way | `heap`, `heap_panic` |
| `HeapProofs` | the theorems about `Heap` | |
| `Keyboard` | `keyboard.cpp` with its callers and its interrupt | `keyboard_line`, `keyboard_race`, `keyboard_space` |
| `Screen` | `vgatext.cpp` and `error()` | `screen` |
| `ConsoleProofs` | the theorems about `Keyboard` and about `Screen` | |
| `DiskReads` | abstract: what `diskRead` promises | |
| `Ata` | `disk.cpp` and the drive | `ata` |
| `AtaProofs` | the theorems about `Ata` | |
| `Files` | `partTable.cpp`, `vfs.cpp`, `ext2.cpp` and `loadTask`'s use of them, over `DiskReads` | `files` |
| `FilesProofs` | the theorems about `Files` | |
| `MC...` | instances for TLC | |

**PageTables and Paging.** A frame is a number, `used` the set of frames whose
bit is set, and `entry` gives every slot (an entry of a PML4, PDPT, PD or PT,
named by its address space and indices) the frame it refers to, 0 if it is not
present. Entry 0 of every PDPT is the kernel's page directory, as
`createPageDir` copies it, so addresses in directory 0 are looked up in the
kernel's tables from any address space. `MapPage`, `UnmapPage`,
`GetUnmappedVAddr`, `CreatePageDir` and `DestroyPageDir` are the member
functions, each the whole call: the tables that it builds on its way stay when
it then fails, and a missing table with no free frame is the `fatalError` of the
code (`cpu = "halt"`). `getFreePhysPage` looks at `maxPhysPages / 8` bytes, as
the code does. Flags, the contents of pages and the physical addresses are left
out: no property depends on them. A call is one step; see section 6 for what
that leaves out.

**Tasks.** Task `p` is slot `p` of `pList`, and names its address space. The
actions are `loadTask` with its three outcomes (refused, failed after pages were
mapped, succeeded), called from the main loop and from the `run` system call;
page faults; `exitTask`; a clock tick that returns or switches; the main loop's
turns; and the pages that the heap maps and unmaps. `nProc` is counted as the
code counts it, including the failed load that never takes its count back. Task
0 has no kernel stack of its own; a task that got none because memory ran out
stops the kernel at its first interrupt (`Crash`). The header of the file is
trusted, so that the kernel itself may fault in the middle of a load
(`LoadFaults`). The handler takes this for a fault of the half-loaded task,
which `current` already names: `exitTask` destroys its address space, takes the
count back, unmaps the stack that the last task of the slot had, and returns to
the kernel's thread. What that stack's address is used for now may be another
task's stack or a page of the heap; the history variable `robbed` remembers it,
a task without its stack stops the kernel when it is interrupted, and so does
the kernel's own fault on the heap's page (`HeapFault`). The stack of a slot
that was never used is what the heap held there, and taken as not mapped.

**Switch.** The same tasks without their memory, with what the processor has:
`cpu` is the frame that `iretq` would pop and the general registers, `regs` and
`rsp0` are the saved ones of each slot, `tss` is the stack that the next entry
from user mode uses. Of each kernel stack the two places that outlive an
instruction are kept: its top (`top`), where an entry from user mode pushes its
frame and where `doTaskSwitch` rebuilds one, and the registers that the entry of
a system call pushed (`entry`). An interrupt of kernel code pushes below. The
history variables `user` and `kern` say where each task's code really is; a
property compares the processor with them. `rax`, in which a call returns its
result, is not told from the other registers. `r12` to `r15`, which
`doTaskSwitch` does not load, are not among them: `high` says whose kernel code
put there what they hold. A load that faults (`LoadFaults` of `Tasks`) is left
out of `Switch`.

**Heap.** `chunks` maps the address of a header to the header; `mapped` are the
kernel pages in use from the heap's first one on, `stacks` those of them that
are kernel stacks, `held` what callers believe they own. `malloc` is one step
per round of its search loop (`WalkMerge`, `WalkReclaim`, `WalkNext`) and of its
growth loop (`GrowPage`, `GrowWrap`), so that `exitTask` of another task can
unmap a stack in between. `realloc` has its ways: shrink, grow into the next
chunk or into the previous one, and malloc, copy and free, between which other
tasks run. A `free` that finds `mallocReady` false loses the chunk, as in the
code.

There are five places where the code writes a header that has no room, or leaves
one out: an exact fit of `realloc` into the previous chunk writes an empty
header over that of the next (`reallocSmashes`); `realloc` and `free` leave a
rest that is smaller than a header (`RoomFor`); behind a wrapper there is room
for a header less than `malloc` has counted with, so that the size of what is
left wraps around and a header may be written across the end of the page
(`Take`); pages that were mapped before a foreign page was met get no header
(`GrowWrap`); and when the first unmapped page lies before `endOfChunks`, the
wrapper's size wraps around (`GrowWrap` again). The history variable `broken`
remembers that one of them was reached. The code goes on with the list as it is
then, and so do the actions: they walk through it, join, trim and grow it, and
meet the tests of the code (`WalkNull`, `WalkPast`, `freePanic`,
`reallocPanic`), the search of `realloc` that never ends (`reallocLost`), or
what was in the page where no header was written (`Junk`). `MaxFollowed` bounds
for how many calls. A write to a page that is not mapped is a page fault
(`Faults`): in a system call it ends the task and leaves `mallocReady` false for
ever, in the kernel's own code it stops the kernel.

**Keyboard.** Every statement of `nget` is an action of its task, the keyboard
interrupt is one action. `ram[a][t]` is what address space `a` has at the
address of task `t`'s buffer. `stop` goes through the conversion to `int`. The
history variable `typed` collects the keys that were taken for each request.

**Screen.** The static members of `VGAText` and the framebuffer are one record,
the member functions are operators from a record to the next, and each call from
outside is one step, since it masks interrupts. Screen and log are sequences of
cells in the order of memory, so a column past the edge is a cell of the next
row, as it is in the code. A tab adds to the column, which is an `i8`, without a
look at the width: `Narrow` makes it negative, characters are then stored in
cells before the row, or before the log, and `rubout` takes its other branch
(`RuboutLine`), which removes a line of the log or erases a cell on the screen
only. `mallocReady` changes under the screen's feet, as it does when an
interrupt prints during a system call. Two history variables: `fence`, how much
of the screen the rubout limit protects, and `unlogged`, that a cell was erased
on the screen only.

**DiskReads, Ata.** `DiskReads` says what a caller of `diskRead` gets: the bytes,
or a failure, or, if the drive reported an error meanwhile, anything. In `Ata`
each polling loop of the driver is a step that goes on when the status allows it
or times out when it does not; the drive (external) takes its steps when it
likes, or never; a command that the driver has given up may still end or fail
later. It may have no drive, an ATA or an ATAPI one. Sectors have two words and
each word is its own address, so that wrong data show. The number of a block
becomes an `int` on its way to the drive (`AsInt`).

**Files.** Built over the actions of `DiskReads`: a reader puts its next request
in `want`, and goes on when its buffer is filled. Nobody looks at the result: a
failed read leaves what the heap had there (`Leftovers`), which may be an entry
of length 0, at which `lookup` stays for ever, sizes for which there is no
memory (`OutOfMemory`), or addresses with which the program goes on reading
elsewhere (`Spoilt`), faults as a task (`Killed`) or stops the kernel (`Crash`).
`nodes` are the `Node`s
in memory with their children; `lookup` deletes and rebuilds those of the node
it is called on. A path is the sequence of its components, a directory entry is
one item of a block, and a file is read along `todo`, the stack of blocks that
the nested loops of `ext2ReadFile` still have to read. Block addresses wrap as
32-bit products do, and the number of groups as 16 bits do. What the disk says is stated separately, without the
program's loops and stacks (`Items` for a file, `Entries` for a directory,
`Places` and `Where` for a path), and the properties compare the two. `SoundDisk`
says what the program takes for granted of the volumes that it mounts.

**How they compose.** `Tasks` uses the operators of `PageTables`. `Ata` shows
that the driver keeps the promise of `DiskReads` (`KeepsPromise`, `ReadReturns`),
and `Files` is built on that promise and on nothing else of the disk. `Switch`
has the same scheduler as `Tasks`, at the level of registers.

## 3. What TLC checks

Passing runs:

* **paging** (18 frames, 7 of which the allocator can give out, two address
  spaces, two user pages in different tables, a heap page behind a missing
  table): the bitmap marks exactly what the tables hold (`BitmapMatchesTables`),
  no frame is in two places (`NoAliasing`), the tables are trees
  (`TreesClosed`) that share the kernel's directory and nothing else
  (`KernelShared`), a frame that enters a table was free (`AllocationsAreFresh`),
  and every call is a step of `FrameOwnership` (`ImplementsOwnership`). Seven
  frames are what two address spaces and one user page with its tables need, so
  memory runs out at every point of every operation. The two address spaces are
  symmetric.
* **tasks** (2 task slots, 24 frames of which 11 are free, three kinds of image,
  one heap page): the same memory invariants over whole operations
  (`MemoryInOrder`), an address space exists exactly for each ready task
  (`AddressSpacesMatchTasks`), every kernel page has one owner, the heap or one
  task's stack, until a load that faults unmaps one in use
  (`KernelPagesOwned`), the early returns of `schedule` strand
  nobody (`EarlyReturnsAreSafe`), the main loop reacts when `nProc` is 0
  (`IdleKernelLoads`), and ready tasks get the processor unless tasks keep
  exiting or loads faulting (`RoundRobin`). `MaxStale` bounds how often a load
  may fail. This run takes about three minutes.
* **switch** (3 task slots, 2 instructions of user code, 2 of a system call, one
  failed load): whatever is preempted goes on where it was and with its registers
  (`ResumesInPlace`; kernel code keeps `r12` to `r15` only until it is first
  switched back to),
  the TSS is that of the current task (`TssIsCurrents`), and a waiting system
  call keeps what it returns with (`CallerIsKept`). Three tasks make every
  combination of one that waits in a call, one that exits and one that is loaded
  into its slot; an instruction more only shifts the point of interruption. That
  a call which was *resumed* may go astray is excluded here and is what
  `switch_syscall` shows.
* **heap** (pages of 8 units, headers of 1, smallest chunk 4, requests of 2 and
  15, that is, with the header, of a smallest chunk's and of two pages' size; 5
  pages, 2 stacks, 3 chunks in use, 1 lost): as long as none of the five places
  was reached, the list stays whole (`ListTilesHeap`), the heap has mapped
  exactly the pages it uses and no stack (`HeapOwnsItsPages`), and what callers
  hold is theirs (`HeldIsAllocated`). Whatever the list is like, `malloc` comes
  to an end (`MallocReturns`): it returns, stops the kernel, or takes its task
  with it. With 5 pages two stacks can lie between pages of the heap, be
  unmapped in either order, a request of two pages can map one and then meet a
  stack, and memory can run out; three chunks are what a `realloc` with
  neighbours on both sides needs. The two sizes reach the exact fit, the
  restart of the growth and the lack of room behind a wrapper. Rests smaller
  than a header need headers of more than one unit, which the theorems cover;
  one call is followed in a list that is not whole.
* **keyboard_line** (one task, sizes 0 to 3, at most 3 keys before enter): the
  line is what was typed (`LineIsWhatWasTyped`), at most n + 1 bytes are
  written (`WritesAtMostNAndNul`), the call returns (`EveryCallReturns`). The
  model's largest `int` is 3.
* **keyboard_race** (two tasks): types, and the lock is never held for a request
  that `input()` ignores (`RequestIsArmed`). Deadlock is not checked in the
  keyboard's runs: when all tasks have exited there is nothing left to do.
* **screen** (2 x 2 cells, tabs of 2, an `i8` of -3 to 2, a log of 4 lines): the
  screen shows the log (`ScreenShowsLog`; not a cell that `rubout` erased on the
  screen only, until the screen is rendered again), lines that have left the
  screen stay in it (`LogKeepsHistory`, for steps that start in a column of 0 or
  more), and backspace stops at the limit (`RuboutStopsAtLimit`, for limits in a
  column of 0 or more). Two lines scroll off, so that the user can be scrolled
  up by one or by two; the first tab reaches the right edge, the second passes
  it and wraps the column around.
* **ata** (4 sectors of 2 words, addressed through two registers; requests that
  cross a boundary, fill a sector, end on one, and lie beyond the range that the
  driver checks, the first and the last block whose `int` is negative among
  them; one reader): buffers are no longer than needed (`TypeOK`), registers are
  written only when the drive does not own them (`RegistersAreOurs`), answers
  are as promised for blocks whose number an `int` holds (`KeepsPromise`), and
  every read returns (`ReadReturns`), with
  every kind of drive.
* **files** (4 partitions, of which two can be mounted; a file with blocks at
  every depth of pointers, directories, an empty one; 7 paths with `.`, `..`,
  missing and empty components; up to 2 failed reads anywhere, one load at a
  time): the nodes are a tree (`NodesFormTree`), none is used after it was
  deleted (`UsesLiveNodes`), a load whose reads succeed gets the node and the
  bytes that the disk has (`ResolvesRight`, `LoadsTheFile`), and every load ends,
  is killed, stops the kernel, or stays at an entry of length 0 that a failed
  read left (`LoadReturns`). Two faults are one in mounting and one in a load, or
  two in one load. `MCJunk` has for each kind of buffer contents with which the
  program goes wrong in its own way: no groups and more than 16 bits count, an
  inode table elsewhere, an inode of another kind, entries that lead out of the
  groups, back to the directory, or to themselves. 7 `Node`s are what the two
  volumes need, so that failed reads run out of memory. TLC also evaluates that
  this disk is a `SoundDisk`, the hypothesis of two theorems.

Runs that find a violation. Each checks what a comment or an assertion of the
repository says, and the program does something else:

* **keyboard_space**: a key that arrives while another task runs is stored in
  that task's memory.
* **heap_panic**: `realloc` into the free chunk before, with an exact fit, writes
  the header of an empty chunk over that of the next chunk; malloc's own tests
  will stop the kernel. (The check for an empty rest is there for the next
  chunk, and missing for the previous one.)
* **switch_syscall**: `schedule` tests `cs == 0x08`, which is the data segment,
  so a task preempted in a system call is switched to as if it had been in user
  mode. The kernel frame is rebuilt over the one at the top of its stack, and the
  call returns into itself.

Seen while modelling, and in the models, without a run of their own:

* memory: frames of the bitmap's last, partial byte are never handed out
  (`paging.cpp:89`); a task whose kernel stack could not be mapped becomes ready
  (`process.cpp:208`); a failed load never takes its `nProc++` back, so that no
  shell is started when the last task exits, although `sepples.cpp:78` announces
  it; tasks with low pids that keep exiting starve the others; a page fault of
  the kernel in `loadTask` ends the task that is being loaded and unmaps the
  stack of the last task of its slot, which another task or the heap may use by
  then, and the task that called `run` goes on only when it is switched to
  (`elf.cpp:35`, `process.cpp:137`, `process.cpp:351`);
* context switch: kernel code that was preempted does not get its `r12` to `r15`
  back, which `schedule` saves (`process.cpp:402`) and `doTaskSwitch` does not
  load, and which a compiler that optimises (`-Os` in the `Makefile`) expects to
  be kept;
* heap: the five places (section 2), each of which ends the reign of
  `ListTilesHeap`: besides the one that `heap_panic` shows, a rest smaller than a
  header (`malloc.cpp:477`), the size of what is left behind a wrapper, which
  wraps around (`malloc.cpp:235`), a request of two pages that maps one and then
  meets a stack (`malloc.cpp:184`), and a hole below `endOfChunks`
  (`malloc.cpp:174`); a page fault in `malloc` ends the task and leaves
  `mallocReady` false, so that nothing is allocated any more
  (`interrupt.cpp:210`); `free` may leave a last chunk below `MALLOC_MINSIZE`,
  on which the next small `malloc` stops the kernel (`malloc.cpp:206`); a chunk
  around two stacks stops it when the first one is unmapped (`malloc.cpp:144`);
  `realloc` copies to a nullptr when another task is in `malloc`
  (`malloc.cpp:524`); `totalMemUsed`, which is left out, is not raised when a
  page is reclaimed;
* keyboard: two tasks that pass `while (ilock)` together receive keys while one
  of them is still setting up; a task whose line is complete waits on when
  another takes the lock before it looks (`EveryCallReturns` with two tasks);
  `nget(buf, n)` writes n + 1 bytes although the shell passes the size of its
  buffer; backspaces use up n;
* screen: a tab may leave the column past the right edge, and a character in the
  last row then goes outside of screen and log; after 32 tabs the column is
  negative (`vgatext.cpp:179`), characters land in earlier cells, in lines that
  have scrolled off, or before the log; with a rubout limit set there a
  backspace removes whole lines of the log, or erases a cell on the screen and
  not in the log (`vgatext.cpp:365`);
* disk: with two readers, of which one is preempted between the registers and
  the command, registers are written while the drive is busy and sectors are
  mixed up (`Readers = {boot, sh, hello}` violates `RegistersAreOurs` and
  `KeepsPromise`); `waitReady` does not look at ERR, nobody looks at the result
  of `diskRead`; from block 2^31 on the number becomes a negative `int`
  (`disk.cpp:357`), which passes the check of the range (`disk.cpp:341`), and
  another sector is read; the wait for drive 1 in `softReset` selects drive 0;
* files: two loads at a time use nodes that the other's `lookup` has deleted
  (`UsesLiveNodes` with the same three readers); after a failed read `lookup`
  may stay at an entry of length 0 for ever (`ext2.cpp:376`), and a load may end
  in a page fault or stop the kernel; from 65536 groups on their number is
  truncated (`ext2.h:130`); `~Node` deletes the children
  although `vfs.h:11` and `ext2.h:213` say that it does not; a directory without
  entries leads nowhere, not even with `..`; reading a directory stops at its
  first unused entry, and a hole in a file is skipped; block addresses wrap at
  4 GiB, except that of `iBlock[12]`; `isDirectory` tests a bit, so that sockets
  and block devices count; `NodeEXT2::read` returns 0 when it was asked for more
  than the file has.

Every property of a passing run has a mutant: a definition next to the one it
changes, named after it, with a plausible slip of the code, for which TLC finds
the property violated.

### Fairness

* `Tasks`: `WF(Schedule)`, since the clock keeps ticking, `WF(Crash)`, since it
  ticks for a task without a stack too, and `WF(KernelLoop)`, since the processor
  executes the main loop whenever task 0 is current. Tasks are under no
  obligation to fault, call or exit.
* `Heap`: `WF(MallocStep)`. A `malloc` that is preempted goes on when its task
  runs again; no other action disables its steps.
* `Keyboard`: `WF(Schedule)` as above; `SF(Step(t))` for each task, since a task
  that gets the processor again and again for a time slice executes its next
  statement, although each switch disables the step; `WF(KeyTaken(NL))` and
  `WF(KeyEndsCall)`: somebody at the keyboard presses enter.
* `Ata`: `WF(ReaderStep(t))`: who is in `diskRead` runs on, and its polling loops
  count. Nothing is assumed of the drive.
* `Files`: `WF(ReaderStep(t))`, which includes that a read is answered: this is
  `ReadReturns` of `Ata`.

`Switch` and `Screen` have safety properties only.

## 4. What is proved

Every theorem is about `Spec` and holds for every value of the constants that
satisfies the named `ASSUME`s of the modules, which TLC evaluates on its
instances. A theorem that needs more says so in its statement; there are four
such hypotheses, `Alone`, `ReadsAlone`, `OneReader` and `SoundDisk` below, and the instances of the runs that check the property satisfy
them.

| Module | Theorem | States | Hypothesis |
|---|---|---|---|
| `PagingProofs` | `TypeCorrect` | always `TypeOK` | |
| | `NoLeak` | always `BitmapMatchesTables` | |
| | `Exclusive` | always `NoAliasing` | |
| | `TreeShape` | always `TreesClosed` | |
| | `KernelInEverySpace` | always `KernelShared` | |
| | `FreshAllocation` | `AllocationsAreFresh` (every step) | |
| | `PagingImplementsOwnership` | `ImplementsOwnership` (refinement) | |
| `TasksProofs` | `TasksTypeCorrect` | always `TypeOK` | |
| | `MemoryStaysInOrder` | always `MemoryInOrder` | |
| | `SpacesMatchTasks` | always `AddressSpacesMatchTasks` | |
| | `KernelPagesHaveOneOwner` | always `KernelPagesOwned` | |
| | `EarlyReturnsStarveNobody` | always `EarlyReturnsAreSafe` | |
| `SwitchProofs` | `TssFollowsTheTask` | always `TssIsCurrents` | |
| | `CallersAreKept` | always `CallerIsKept` | |
| | `TasksResumeInPlace` | always `ResumesInPlace` | |
| `HeapProofs` | `HeapTypeCorrect` | always `TypeOK` |  |
| | `ListStaysWhole` | always `ListTilesHeap` |  |
| | `AllocationsAreKept` | always `HeldIsAllocated` |  |
| | `PagesStayApart` | always `HeapOwnsItsPages` |  |
| `ConsoleProofs` | `KeyboardTypes` | always `TypeOK` | |
| | `ArmedRequests` | always `RequestIsArmed` | |
| | `ReadsWithinBuffer` | always `WritesAtMostNAndNul` | `ReadsAlone` |
| | `LineArrives` | always `LineIsWhatWasTyped` | `Alone` |
| | `ScreenTypeCorrect` | always `ScreenTypeOK` | |
| | `ScreenIsTheLog` | always `ScreenShowsLog` | |
| | `HistoryIsKept` | `LogKeepsHistory` (every step) | |
| | `RuboutIsFenced` | `RuboutStopsAtLimit` (every step) | |
| `AtaProofs` | `AtaTypeCorrect` | always `TypeOK` | |
| | `RegistersOurs` | always `RegistersAreOurs` | `OneReader` |
| | `DriverKeepsPromise` | `KeepsPromise` (every step) | `OneReader` |
| `FilesProofs` | `TreeOfNodes` | always `NodesFormTree` | `OneReader` |
| | `LiveNodes` | always `UsesLiveNodes` | `OneReader` |
| | `PathsResolve` | always `ResolvesRight` | `OneReader`, `SoundDisk` |
| | `FilesLoad` | always `LoadsTheFile` | `OneReader`, `SoundDisk` |

**Induction.** What a text, a path or a tree of pointers amounts to is defined by
recursion. The library's induction theorems have an operator as a parameter and
cannot be used, so the proofs argue from the least counterexample: numbers below
which a property fails form a set, a nonempty set of numbers has a least element
(`WFMin`, with `NatLessThanWellFounded`), and the one before it is no
counterexample. `Iterates` gets the defining equations of a recursive function
over an interval that way once, and the function definitions of the models are
instances of it.

**Memory** (`PageTablesProofs`, `PagingProofs`). None of the invariants is
inductive alone: that `destroyPageDir` frees exactly what it should needs that
entries hang together (`Closed`), that frames are in one place (`Injective`) and
that the reserved frames are where boot put them (`SharesKernel`,
`KernelTables`). `MemInv` is their conjunction. The lemmas go from slots
(`SlotMembership`, `SlotsDiffer`) over the allocator (`FreePageIsFree`,
`FillKeepsInv`) to one lemma per member function; `WalkIsComplete` and
`WalkIsOwned` say that the walk of `destroyPageDir` meets all frames of the
address space and no others. `FreshAllocation` rests on the relation `Grows`,
which the building operations satisfy and which is transitive.
`PagingImplementsOwnership` maps the owner of a frame to the address space in
whose tables it is. A call that builds tables adds at most three frames, all of
them free before and of one owner, and so is a grant (`GrowthIsGrant`); an unmap
of a kernel page gives one back; the walk of `destroyPageDir` releases all;
a call that fails before it built anything is a stutter.

**Tasks** (`TasksProofs`). The invariant adds to `MemInv` that address spaces
and ready slots correspond, that each kernel page boot did not map is the heap's
or one stack's, until a load that faults unmaps one in use (`PagesOwned`), and
that `nProc` is no less than the number of
ready tasks (`Counted`: it may be more, a failed load never takes its count
back). What an operation leaves alone is as important as what it does, and the
`...Changes` lemmas of `PageTablesProofs` say it; `Loads` is the relation that
`loadElf` keeps while it maps pages, whether it then fails or not.

**Context switch** (`SwitchProofs`). For every ready task other than the current
one, the saved context is where its code really is, its stack pointer names its
own stack, and a system call's frame is intact unless the task has been switched
to in that call (`LiveTask`). Until it is switched to, kernel code also has its
own `r12` to `r15`. `TssIsCurrents` is needed to know on which stack
an entry pushes, and with it that no other task's frame is overwritten.

**Heap** (`HeapProofs`). The theorems have no hypothesis but `HeapAssumption`:
pages, headers and requests of any size. What they claim of the list, they claim
as long as `broken` is 0. `Inv` says so in one formula: `Controls`, what holds
of a list of any shape, and `intact => IInv`. Each step of an intact list either
leads to an intact list again, for which the lemmas (`...OK`) show `IInv`, or
sets `broken`, after which there is nothing to show (`BrokenStays`).

In the middle of a `malloc` the list does not reach `endOfChunks`: pages behind
a chunk in use become a chunk only when there are enough. So the invariant is
`Tiles(chunks, ListEnd)`, with `ListEnd` the end of the list that the call in
progress knows; `Tiles` says that chunks are not empty, cover every address
below the end and do not overlap, which unlike a walk along the sizes needs no
induction. Every change of the list is one of five (`Replace`, `ResizeLast`,
`DropLast`, `AppendChunk`, `SameTiles`): a merge, a split and the ways of
`realloc` are `Replace`, a trim is `Replace` and then `ResizeLast` or
`DropLast`. Pages are followed by address: `Mine(x)` says that an address is
malloc's, and `PagesOK` that the pages of such addresses are the mapped pages
that are no stacks, also while a `malloc` is preempted, when `HeapOwnsItsPages`
claims nothing. `CallOK` ties the locals of `malloc` to the list. An intact list
need not be `Whole` in two cases: a `malloc` that has ended in a page fault
(`Dead`) leaves it as it was at that moment, and one that found no frame for the
page behind a wrapper is `Doomed`: it maps more pages, and then faults on the
header that it writes to that one. What callers hold (`HeldOK`) is in `Base`,
which holds in those cases too, and so does `HeldIsAllocated`.

**Line input** (`ConsoleProofs`). `ArmedRequests` is strengthened to say that
somebody is still going to set `stop` and `ubuf` whenever the lock is held and
they are not set (`SomebodyArms`). `ReadsAlone` says that there is one task and
that sizes fit an `int`: with two tasks `pos` and `ubuf` are shared, and with a
larger size `stop` is negative. `WithinSize` says for each statement of `nget`
how `pos` and `stop` bound what was written. `LineArrives` is about a task that
is alone, with sizes of any kind. Its invariant (`LineOK`) says that while keys
are taken the text typed so far is in the buffer and `pos` is where it ends, and
that after a newline the terminator stands behind it; what one more key does to
the edited text is a lemma about the recursion (`Edited` of a sequence and one more
key), and that the buffer read as a C string is that text needs the text to have
no NUL in it.

**Screen** (`ConsoleProofs`). `Good` says that the log consists of whole lines
and the cursor is on the screen, that the rubout limit, if its column is not
negative, never falls behind the text it protects (`InOrder`), and that, with
the log on, the part shown lies in the log and the screen is that part, but for
a cell erased on the screen only (`Shows`). It has the number of rows as a
parameter, since `put` moves the cursor below the screen before it adds a line.
The action properties follow from a relation between the states before and after
(`Keeps`): the limit stays or is dropped (`Same`), lines above the screen stay,
if no character is stored with a negative column (`History`), and cells before
the limit stay (`Fenced`). It is transitive, which is what an operation that
prints a whole message needs.

**Disk** (`AtaProofs`). `LocalInv`, for any number of readers, bounds what each
has collected. `OneReader` says that boot is the only reader: as soon as two
read, one can write registers between those of the other. Then `AloneInv` ties
the drive's registers and its sector to the reader's place in the code, and the
words collected to those of the disk (`DriveIsOurs`, `BufferIsDisk`).
`DriverKeepsPromise` shows that every step which sets an answer sets one that
`DiskReads` allows: at the end of a read the buffer holds the sectors around the
request in order, and what is copied out of it are the bytes asked for
(`CopyIsBytes`). `DriveIsOurs` follows the registers for every block, with the
number that its `int` is; `BufferIsDisk` speaks of the requests below `MaxInt`,
where the two are the same.

**Files, the tree** (`FilesProofs`). `OneReader` says again that boot is the only
reader: it loads the first programs itself, and a second load at the same time
deletes the nodes that the first one stands on. `IsTree` is the inductive form of
`NodesFormTree`: children and parents agree, no node is a child twice, and every
set of nodes that contains the root and with each node its children contains
all. `Subtree` is stated by such closed sets, which is why what a destructor
deletes (`Gone`) can be reasoned about without a depth. `Live` adds what the
reader holds: the node it stands on while it walks, and the one it loads.
`lookup` deletes the subtrees below the node that the reader stands on and
nothing else, so that this node, its ancestors and with them every `..` stay.
These two theorems hold for any disk, any reads that fail and anything that they
leave. A load that is killed drops its locals, and a kernel that stops takes no
step (`Ends`).

**Files, paths and contents** (`FilesProofs`). `SoundDisk` says of the volumes
that can be mounted that inodes lie where `ext2ReadInode` looks for them, that
entries of directories name inodes of the volume and no name twice, and that a
file's blocks hold as much as its size. It also excludes what the code does not
read as the format would: holes in a file, used entries behind an unused one,
inodes other than directories with the bit `EXT2_S_IFDIR` in their mode, blocks
beyond 32 bits of bytes (except that of `iBlock[12]`), and more groups than 16
bits count. On such disks the
program differs from the reference, see section 3; for every other, of any
size, the two agree when no read has failed. The invariant has four parts.
`Asks`: unless a read has failed, what is in the buffer is what the disk holds
for the request that belongs to where the reader is. `Mounts`: the children of
the root are the mount points of the partitions before this one, or of all.
`Partial`: what has been collected of a file, followed by the contents below the
blocks on the stack (`Rest`), is the whole file; a round of the loops moves one
block from the stack to what is collected, or replaces it by those it points to.
`WalksRight`: there is a chain of nodes from the root to the current one, each
standing for one component of the place that the path so far leads to (`Chain`,
`Leads`), and after a complete `lookup` the children of the current node stand
for the entries of the directory (`Represents`), of which those before entry k
are there in between (`Listing`). `Places` is the induction over the path: a
component is one `Step`, and `..` is the last link of the chain.

Only model-checked: the liveness properties `IdleKernelLoads`, `RoundRobin`,
`MallocReturns`, `EveryCallReturns`, `ReadReturns` and `LoadReturns`, since the
prover has no rule for fairness. Several readers of the disk, and several tasks
that read a line, are outside of the hypotheses because the properties fail for
them (section 3).

## 5. Plan

Done: the page allocator, the task manager and main loop, the context switch,
the heap, the keyboard, the screen, the disk driver and the file system, each
with its proofs. Left, in this order:

1. Two walks of the chunk list at once, from the test of `mallocReady` on.
2. The checks of the ELF header.
3. The stack that a load which faults unmaps, in `Switch`.
4. Disks with holes and with entries behind an unused one: what the program does
   read there, as a second reference.

## 6. What is not modelled

* Interleavings inside a call of the class `Paging`, and two walks of the chunk
  list at once. `mapPage` and `malloc` have no lock that would make them atomic;
  every invariant of `Paging` and `Heap` is about callers that are not preempted
  there.
* `squeeze`, which nothing calls; the records of `operator new`, which are for
  debugging.
* The contents of ELF files: `loadElf` accepts or refuses, and maps pages.
* Colours, the formatting of `printf`, message texts, logging and statistics.
* The computation of the size of memory, whose product is taken in 32 bits
  (`multiboot.cpp:85`): the size is a parameter.
* What a character stored before or behind the log does to the heap, and what
  a stack that was unmapped under a waiting task loses.
* Boot code and descriptor tables, which write constants once; the page tables,
  reserved frames, selectors and the TSS that they leave are initial states.
* The debug exception and its stepping.
* User programs: their system calls are the inputs of `Tasks`, `Keyboard` and
  `Switch`.
