-------------------------------- MODULE Tasks -------------------------------
(***************************************************************************)
(* The task manager (kernel/proc/process.cpp), the kernel's main loop      *)
(* (kernel/sepples.cpp), the page fault handler and the clock interrupt    *)
(* (kernel/interrupt.cpp) and the system calls that reach them             *)
(* (kernel/syscalls.cpp), over the page tables of module PageTables.       *)
(*                                                                         *)
(* A task is known by its index in pList, which also names the address     *)
(* space that createPageDir makes for it; task 0 is the kernel.  loadTask, *)
(* exitTask and the fault handler run with interrupts masked, so each is   *)
(* one step.  What the rest of the kernel allocates on the heap appears as *)
(* HeapGrow and HeapShrink.  A load that faults in the kernel unmaps what  *)
(* may be another task's stack or a page of the heap; such a task or page  *)
(* is lost from then on, and the kernel goes on.                           *)
(***************************************************************************)
EXTENDS PageTables

CONSTANTS
    MaxPid,         \* MAXPID; the usable slots of pList are 1 .. MaxPid-1
    Images,         \* what loadElf may meet: records [page, good]
    StackPage,      \* the page below USER_STACK
    FaultPages,     \* the user pages tasks touch beyond those of their image
    MaxHeap,        \* bound on the pages malloc holds at one time
    MaxStale        \* bound on how far failed loads may raise nProc

Pids     == 0 .. MaxPid
TaskPids == 1 .. MaxPid - 1

ASSUME TasksAssumption ==
    /\ MaxPid \in Nat /\ MaxPid > 1
    /\ Spaces = TaskPids /\ Kernel = 0

ASSUME ImagesAssumption ==
    LET user == {v \in VAddrs : v[1] # 0}
    IN  /\ StackPage \in user /\ FaultPages \subseteq user
        /\ Images \subseteq [page : user \cup {NullPtr}, good : BOOLEAN]

VARIABLES
    mem,            \* the physical page bitmap and all page tables
    state,          \* pList[i].state: 0 free, 1 ready or running
    kstack,         \* pList[i].kstack: the page of the kernel stack
    nProc,          \* nProc
    current,        \* current->pid
    heap,           \* the kernel pages malloc holds
    loop,           \* where boot() is: "hello", "sh", "test", "load", "asleep"
    saved,          \* pList[0].regs: the kernel's registers have been saved
    robbed          \* history: a load that faulted unmapped a page in use

vars == <<mem, state, kstack, nProc, current, heap, loop, saved, robbed>>
procVars == <<state, kstack, nProc, current>>
history == <<saved, robbed>>

Running == mem.cpu = "run"

\* boot() masks interrupts until both first tasks are loaded.
Interruptible == loop \notin {"hello", "sh"}

KernelPage(v) == mem.entry[PTE(Kernel, v[1], v[2], v[3])]

HasStack(p) == kstack[p] # NullPtr /\ KernelPage(kstack[p]) # 0

\* The processor is executing code of task p, which can take interrupts: they
\* push on its kernel stack.
RunningTask(p) == Running /\ p \in TaskPids /\ current = p /\ HasStack(p)

Ready(S) == {p \in S : state[p] = 1}

LiveTasks == Ready(TaskPids)

Init ==
    /\ mem = InitMem
    /\ state = [p \in Pids |-> IF p = 0 THEN 1 ELSE 0]
    /\ kstack = [p \in Pids |-> NullPtr]
    /\ nProc = 0
    /\ current = 0
    /\ heap = {}
    /\ loop = "hello"
    /\ saved = FALSE /\ robbed = FALSE

-----------------------------------------------------------------------------
(***************************************************************************)
(* loadTask.                                                               *)
(***************************************************************************)

\* The pid search of loadTask; MaxPid when there is no slot.
FreePid == Smallest({p \in TaskPids : state[p] = 0} \cup {MaxPid})

\* A page of user space that is written: mapped by the caller or else by the
\* page fault, in which no frame is fatal.
TouchPage(m, p, v) ==
    LET r == MapPage(m, p, v)
    IN  IF m.cpu = "halt" THEN m
        ELSE IF r.mem.entry[PTE(p, v[1], v[2], v[3])] = 0 THEN FatalError(r.mem)
        ELSE r.mem

\* The new address space with the segments of the image in it.  createPageDir's
\* nullptr is loaded in cr3 unchecked: nothing executes after that.
LoadElf(m, p, img) ==
    LET c == CreatePageDir(m, p)
    IN  IF c.pml4 = NullPtr THEN FatalError(m)
        ELSE IF img.page = NullPtr THEN c.mem
        ELSE TouchPage(c.mem, p, img.page)

\* Mutant of LoadFails: the address space is left behind.
LoadFailsLeaves(img) ==
    LET p == FreePid
        m == LoadElf(mem, p, img)
    IN  /\ p < MaxPid /\ ~img.good
        /\ nProc - Cardinality(LiveTasks) < MaxStale
        /\ nProc' = nProc + 1
        /\ mem' = m
        /\ UNCHANGED <<state, kstack>>

\* The failure path of loadTask gives the address space back.
LoadFails(img) ==
    LET p == FreePid
        m == LoadElf(mem, p, img)
    IN  /\ p < MaxPid /\ ~img.good
        /\ nProc - Cardinality(LiveTasks) < MaxStale
        /\ nProc' = nProc + 1
        /\ mem' = IF m.cpu = "halt" THEN m ELSE DestroyPageDir(m, p)
        /\ UNCHANGED <<state, kstack>>

\* Mutant of LoadSucceeds: the task is not counted.
LoadSucceedsUncounted(img) ==
    LET p == FreePid
        m == TouchPage(LoadElf(mem, p, img), p, StackPage)
        k == MapPage(m, p, NullPtr)
    IN  /\ p < MaxPid /\ img.good
        /\ mem' = k.mem
        /\ UNCHANGED nProc
        /\ IF k.mem.cpu = "halt" THEN UNCHANGED <<state, kstack>>
           ELSE /\ state' = [state EXCEPT ![p] = 1]
                /\ kstack' = [kstack EXCEPT ![p] = k.vaddr]

\* The success path: the user stack, then the kernel stack, whose address is
\* stored whether or not mapPage found a page.
LoadSucceeds(img) ==
    LET p == FreePid
        m == TouchPage(LoadElf(mem, p, img), p, StackPage)
        k == MapPage(m, p, NullPtr)
    IN  /\ p < MaxPid /\ img.good
        /\ mem' = k.mem
        /\ nProc' = nProc + 1
        /\ IF k.mem.cpu = "halt" THEN UNCHANGED <<state, kstack>>
           ELSE /\ state' = [state EXCEPT ![p] = 1]
                /\ kstack' = [kstack EXCEPT ![p] = k.vaddr]

\* No such file, or no free slot: nothing is changed.
LoadRefused ==
    UNCHANGED <<mem, nProc, state, kstack>>

\* loadTask(path): returns a pid (ok) or 0.
LoadTask(ok) ==
    /\ UNCHANGED <<current, heap, history>>
    /\ \/ ~ok /\ LoadRefused
       \/ ~ok /\ \E img \in Images : LoadFails(img)
       \/ ok /\ \E img \in Images : LoadSucceeds(img)

-----------------------------------------------------------------------------
(***************************************************************************)
(* The kernel's main loop, boot().                                         *)
(***************************************************************************)
AtLoop(l) == Running /\ current = 0 /\ loop = l

BootHello ==
    /\ AtLoop("hello")
    /\ loop' = "sh"
    /\ \E ok \in BOOLEAN : LoadTask(ok)

BootShell ==
    /\ AtLoop("sh")
    /\ loop' = "test"
    /\ \E ok \in BOOLEAN : LoadTask(ok)

\* Mutant of LoopTest: the shell is started when one task is left.
LoopTestOne ==
    /\ AtLoop("test")
    /\ loop' = IF nProc = 1 THEN "load" ELSE "test"
    /\ UNCHANGED <<mem, procVars, heap, history>>

\* One turn of the loop.  lastNProc decides nothing: the branch that loads a
\* shell is taken when getNProc() is 0, whatever it was before.
LoopTest ==
    /\ AtLoop("test")
    /\ loop' = IF nProc = 0 THEN "load" ELSE "test"
    /\ UNCHANGED <<mem, procVars, heap, history>>

\* "All tasks are dead, starting a shell"
LoopLoad ==
    /\ AtLoop("load")
    /\ \E ok \in BOOLEAN :
          /\ loop' = IF ok THEN "test" ELSE "asleep"
          /\ LoadTask(ok)

-----------------------------------------------------------------------------
(***************************************************************************)
(* What a task does: system calls and page faults.                         *)
(***************************************************************************)
SysRun(p) ==
    /\ RunningTask(p)
    /\ UNCHANGED loop
    /\ \E ok \in BOOLEAN : LoadTask(ok)

PageFault(p) ==
    /\ RunningTask(p)
    /\ \E v \in FaultPages :
          /\ mem.entry[PTE(p, v[1], v[2], v[3])] = 0
          /\ mem' = TouchPage(mem, p, v)
    /\ UNCHANGED <<procVars, heap, loop, history>>

\* Mutant of ExitTask: the task goes on running.
ExitTaskReturns(p) ==
    /\ RunningTask(p)
    /\ nProc' = nProc - 1
    /\ state' = [state EXCEPT ![p] = 0]
    /\ mem' = DestroyPageDir(UnmapPage(mem, kstack[p]), p)
    /\ UNCHANGED <<current, kstack, heap, loop, history>>

\* Mutant of ExitTask: the kernel stack stays mapped.
ExitTaskKeepsStack(p) ==
    /\ RunningTask(p)
    /\ nProc' = nProc - 1
    /\ state' = [state EXCEPT ![p] = 0]
    /\ mem' = DestroyPageDir(mem, p)
    /\ current' = 0
    /\ UNCHANGED <<kstack, heap, loop, history>>

\* exitTask, from the exit system call or a fault outside of user space.
ExitTask(p) ==
    /\ RunningTask(p)
    /\ nProc' = nProc - 1
    /\ state' = [state EXCEPT ![p] = 0]
    /\ mem' = DestroyPageDir(UnmapPage(mem, kstack[p]), p)
    /\ current' = 0
    /\ UNCHANGED <<kstack, heap, loop, history>>

\* The first interrupt of a task that has no kernel stack faults again and again.
Crash ==
    /\ Running /\ current # 0 /\ ~HasStack(current)
    /\ mem' = FatalError(mem)
    /\ UNCHANGED <<procVars, heap, loop, history>>

\* A page fault of the kernel in loadTask (the file's header is trusted, and new's
\* nullptr) is taken for one of the task that is being loaded: exitTask ends it,
\* with the stack that the last task of its slot had, and the kernel's thread goes
\* on from where its registers were last saved.  The task that called loadTask
\* waits where it was last interrupted.
LoadFaults(img) ==
    LET p == FreePid
        m == LoadElf(mem, p, img)
        n == IF kstack[p] = NullPtr THEN m ELSE UnmapPage(m, kstack[p])
    IN  /\ RunningTask(current) \/ AtLoop("hello") \/ AtLoop("sh") \/ AtLoop("load")
        /\ p < MaxPid /\ m.cpu = "run"
        /\ IF saved
           THEN /\ mem' = DestroyPageDir(n, p)
                /\ current' = 0
                /\ loop' = IF loop = "load" THEN "test" ELSE loop
                /\ robbed' = (robbed \/ HasStack(p))
           ELSE mem' = FatalError(m) /\ UNCHANGED <<current, loop, robbed>>
        /\ UNCHANGED <<state, kstack, nProc, heap, saved>>

-----------------------------------------------------------------------------
(***************************************************************************)
(* The clock interrupt: schedule and switchToTask.                         *)
(***************************************************************************)
\* Mutant of NextPid: the search always starts at task 1.
NextPidFirst == IF LiveTasks = {} THEN 0 ELSE Smallest(LiveTasks)

\* The next ready task after the current one, round robin; 0 when there is none.
NextPid ==
    LET above == Ready(current + 1 .. MaxPid - 1)
        below == Ready(1 .. current - 1)
    IN  IF above # {} THEN Smallest(above)
        ELSE IF below # {} THEN Smallest(below)
        ELSE 0

\* The tick interrupts whatever runs, which needs a stack to be interrupted on.
Tick ==
    /\ Running /\ Interruptible
    /\ current # 0 => HasStack(current)

\* No task, or one that may go on: schedule returns to it.
TickReturns ==
    /\ Tick
    /\ nProc = 0 \/ (nProc = 1 /\ current # 0)
    /\ UNCHANGED vars

Schedule ==
    /\ Tick
    /\ nProc # 0
    /\ ~(nProc = 1 /\ current # 0)
    /\ current' = NextPid
    /\ saved' = (saved \/ current = 0)
    /\ UNCHANGED <<mem, state, kstack, nProc, heap, loop, robbed>>

-----------------------------------------------------------------------------
(***************************************************************************)
(* The kernel heap, seen from here: pages malloc maps and free unmaps.     *)
(***************************************************************************)
HeapGrow ==
    LET r == MapPage(mem, Kernel, NullPtr)
    IN  /\ Running /\ (current # 0 => HasStack(current))
        /\ Cardinality(heap) < MaxHeap
        /\ mem' = r.mem
        /\ heap' = heap \cup ({r.vaddr} \ {NullPtr})
        /\ UNCHANGED <<procVars, loop, history>>

HeapShrink ==
    /\ Running /\ (current # 0 => HasStack(current))
    /\ \E v \in heap :
          /\ mem' = UnmapPage(mem, v)
          /\ heap' = heap \ {v}
    /\ UNCHANGED <<procVars, loop, history>>

\* The kernel's own page fault on a heap page that it lost is fatal.  A task's ends
\* the task, which ExitTask stands for.
HeapFault ==
    /\ Running /\ current = 0
    /\ \E v \in heap : KernelPage(v) = 0
    /\ mem' = FatalError(mem)
    /\ UNCHANGED <<procVars, heap, loop, history>>

\* fatalError never returns.
Halt ==
    /\ ~Running
    /\ UNCHANGED vars

KernelLoop == BootHello \/ BootShell \/ LoopTest \/ LoopLoad

Next ==
    \/ KernelLoop
    \/ \E p \in TaskPids : SysRun(p) \/ PageFault(p) \/ ExitTask(p)
    \/ \E img \in Images : LoadFaults(img)
    \/ Crash
    \/ HeapFault
    \/ TickReturns
    \/ Schedule
    \/ HeapGrow
    \/ HeapShrink
    \/ Halt

\* The clock keeps ticking (25 Hz), whatever it interrupts, and the processor
\* executes the kernel's loop whenever it is current.  Nothing makes a task fault,
\* call or exit.
Fairness == WF_vars(Schedule) /\ WF_vars(Crash) /\ WF_vars(KernelLoop)

Spec == Init /\ [][Next]_vars /\ Fairness

-----------------------------------------------------------------------------
(***************************************************************************)
(* Properties.                                                             *)
(***************************************************************************)
\* The state variables have their types, and the task that runs is the kernel or
\* a task that pList calls ready.
TypeOK ==
    /\ mem \in MemType
    /\ state \in [Pids -> {0, 1}]
    /\ kstack \in [Pids -> VAddrs \cup {NullPtr}]
    /\ nProc \in Nat
    /\ current \in LiveTasks \cup {0}
    /\ heap \subseteq VAddrs
    /\ loop \in {"hello", "sh", "test", "load", "asleep"}
    /\ saved \in BOOLEAN /\ robbed \in BOOLEAN

\* The page tables stay in order across every path of loadTask and exitTask: a
\* failed load and an exit leave no frame marked that nothing refers to, and
\* never free a frame that something still refers to.
MemoryInOrder ==
    FramesAccounted(mem) /\ Injective(mem) /\ Closed(mem) /\ SharesKernel(mem)

\* A slot of pList is ready exactly while its address space exists: loadTask's
\* failure path destroys what it created, exitTask destroys it once.
AddressSpacesMatchTasks ==
    Running => \A p \in TaskPids : state[p] = 1 <=> Live(mem, p)

\* Until a load that faults unmaps a page in use, every kernel page that was not
\* mapped at boot belongs either to malloc or to one ready task as its kernel
\* stack: exitTask unmaps its own stack and no page of the heap, free() unmaps no
\* stack, and no exit leaves a stack behind.
KernelPagesOwned ==
    LET stacks == [p \in LiveTasks |-> kstack[p]]
        mapped == {v \in {0} \X Tables \X Pages : KernelPage(v) \notin Reserved}
    IN  Running /\ ~robbed =>
          /\ mapped = heap \cup ({stacks[p] : p \in LiveTasks} \ {NullPtr})
          /\ \A p, q \in LiveTasks : stacks[p] = stacks[q] /\ stacks[p] # NullPtr => p = q
          /\ \A p \in LiveTasks : stacks[p] \notin heap

\* The early returns of schedule hurt nobody ("Si il y a un seul processus, on le
\* laisse tourner"): when nProc makes a tick return, no task other than the
\* interrupted one is ready.
EarlyReturnsAreSafe ==
    Running /\ (nProc = 0 \/ (nProc = 1 /\ current # 0)) => LiveTasks \subseteq {current}

LoadsFaulting == []<><<\E img \in Images : LoadFaults(img)>>_vars

\* When no task is counted the main loop starts a shell, or finds that it cannot
\* and goes to sleep; only loads that fault bring it back to its test again and
\* again.
IdleKernelLoads ==
    \/ LoadsFaulting
    \/ (nProc = 0 /\ Interruptible) ~> (nProc # 0 \/ loop = "asleep" \/ ~Running)

Scheduled(p) == state[p] = 1 ~> (current = p \/ state[p] = 0 \/ ~Running)

\* "Choix du nouveau processus (un simple roundrobin)" (process.cpp): as long as
\* tasks do not go on exiting and loads faulting, which makes the search start from
\* pid 1 again, every ready task gets the processor again and again.
RoundRobin ==
    \/ []<><<\E q \in TaskPids : ExitTask(q)>>_vars \/ LoadsFaulting
    \/ \A p \in TaskPids : Scheduled(p)

=============================================================================
