------------------------------- MODULE Switch -------------------------------
(***************************************************************************)
(* The context switch: what schedule saves of the interrupted task, what   *)
(* switchToTask and doTaskSwitch load of the next one (kernel/proc), and   *)
(* the frames that the processor and the entry code of interrupts and      *)
(* system calls (kernel/interruptWrapper.asm) keep on kernel stacks.       *)
(*                                                                         *)
(* A frame is what iretq pops: [cs, rip, rsp], with the flags and ss left  *)
(* out because they follow cs.  gpr stands for the general registers that  *)
(* doTaskSwitch loads.  r12 to r15 are apart: schedule saves them and      *)
(* nothing loads them, so that what runs next finds there what the switch  *)
(* left.  User programs are 32 bit code, which cannot name them; the       *)
(* kernel's code can, and keeps values of its own in them.  Code that was  *)
(* resumed with others is followed as far as it does not use them.         *)
(* Each kernel stack has the two places that outlive one instruction: its  *)
(* top, where the frame of an entry from user mode goes, and below it the  *)
(* registers that the entry of a system call saved.                        *)
(***************************************************************************)
EXTENDS Integers, FiniteSets

CONSTANTS
    MaxPid,         \* MAXPID; the usable slots of pList are 1 .. MaxPid-1
    MaxStep,        \* bound on the user instructions of a task
    CallSteps,      \* the instructions of a system call
    MaxStale        \* bound on how far failed loads raise nProc

ASSUME SwitchAssumption ==
    /\ MaxPid \in Nat /\ MaxPid > 1
    /\ MaxStep \in Nat /\ MaxStale \in Nat
    /\ CallSteps \in Nat \ {0}

\* Segment selectors (GDT): kernel code is 16, the user's 32 bit code 75.
SS_CODE64    == 16
SS_USRCODE32 == 75

\* The selector that schedule takes for the kernel's code; it is SS_DATA.
KernelCS == 8

Pids     == 0 .. MaxPid - 1
TaskPids == Pids \ {0}
Nil      == <<>>

\* r12-r15 hold the values of no task's kernel code.
Nobody == -1

VARIABLES
    cpu,        \* the registers: [frame, gpr]
    high,       \* r12-r15: the task whose kernel code's values they hold, or Nobody
    tss,        \* defaultTss.rsp0: the kernel stack that entries from user mode use
    current,    \* current->pid
    nProc,      \* nProc
    state,      \* pList[i].state
    regs,       \* pList[i].regs
    rsp0,       \* pList[i].kstack.rsp0
    top,        \* the frame at the top of each kernel stack; stack 0 is RING0_STACK
    entry,      \* the registers that _asm_syscalls pushed on each kernel stack
    user,       \* history: the context of each task's user code as it left it
    kern,       \* history: the context of each task's kernel code, or Nil
    resumed     \* history: the tasks whose kernel code was switched back to

vars == <<cpu, high, tss, current, nProc, state, regs, rsp0, top, entry, user, kern, resumed>>
pListVars == <<state, regs, rsp0>>

UserContext(p, n) ==
    [frame |-> [cs |-> SS_USRCODE32, rip |-> n, rsp |-> <<"user", p>>], gpr |-> <<p, n>>]

CallContext(p, n) ==
    [frame |-> [cs |-> SS_CODE64, rip |-> n, rsp |-> <<"kernel", p>>], gpr |-> <<p, "call", n>>]

InUser(f) == f.cs = SS_USRCODE32

\* pList[0].regs and kstack are not initialised: schedule writes them when it
\* first leaves the kernel's own thread.
Init ==
    /\ cpu = CallContext(0, 0)
    /\ high = 0
    /\ tss = 0
    /\ current = 0
    /\ nProc = 0
    /\ state = [p \in Pids |-> IF p = 0 THEN 1 ELSE 0]
    /\ regs = [p \in Pids |-> Nil]
    /\ rsp0 = [p \in Pids |-> -1]
    /\ top = [p \in Pids |-> Nil]
    /\ entry = [p \in Pids |-> Nil]
    /\ user = [p \in Pids |-> Nil]
    /\ kern = [p \in Pids |-> IF p = 0 THEN cpu ELSE Nil]
    /\ resumed = {}

\* Where the code of task p is.
Place(p) == IF kern[p] = Nil THEN user[p] ELSE kern[p]

\* The processor executes what the current task was executing, with its values in
\* the registers that doTaskSwitch loads.
OnTrack == cpu = Place(current)

-----------------------------------------------------------------------------
(***************************************************************************)
(* What runs between interrupts.                                           *)
(***************************************************************************)
\* One instruction of the kernel's main loop.
KernelStep ==
    /\ OnTrack /\ current = 0
    /\ cpu' = CallContext(0, (cpu.frame.rip + 1) % 2)
    /\ kern' = [kern EXCEPT ![0] = cpu']
    /\ UNCHANGED <<high, tss, current, nProc, pListVars, top, entry, user, resumed>>

\* One instruction of a user program.
UserStep ==
    /\ OnTrack /\ InUser(cpu.frame)
    /\ cpu.frame.rip < MaxStep
    /\ cpu' = UserContext(current, cpu.frame.rip + 1)
    /\ user' = [user EXCEPT ![current] = cpu']
    /\ UNCHANGED <<high, tss, current, nProc, pListVars, top, entry, kern, resumed>>

\* int 0x30: the processor takes the stack from the TSS and pushes the frame,
\* _asm_syscalls pushes the registers and calls doSyscalls, whose code puts its own
\* values into r12-r15.
SyscallEnter ==
    /\ OnTrack /\ InUser(cpu.frame)
    /\ top' = [top EXCEPT ![tss] = cpu.frame]
    /\ entry' = [entry EXCEPT ![tss] = cpu.gpr]
    /\ cpu' = [CallContext(current, 1) EXCEPT !.frame.rsp = <<"kernel", tss>>]
    /\ high' = current
    /\ kern' = [kern EXCEPT ![current] = CallContext(current, 1)]
    /\ resumed' = resumed \ {current}
    /\ UNCHANGED <<tss, current, nProc, pListVars, user>>

\* One instruction of a system call.
SyscallStep ==
    /\ OnTrack /\ current # 0 /\ ~InUser(cpu.frame)
    /\ cpu.frame.rip < CallSteps
    /\ cpu' = CallContext(current, cpu.frame.rip + 1)
    /\ kern' = [kern EXCEPT ![current] = cpu']
    /\ UNCHANGED <<high, tss, current, nProc, pListVars, top, entry, user, resumed>>

\* RESTORE_REGS, which pops what r12-r15 held in user mode, and the iretq of
\* _asm_syscalls.
SyscallReturn ==
    LET s == cpu.frame.rsp[2]
    IN  /\ OnTrack /\ current # 0 /\ ~InUser(cpu.frame)
        /\ cpu.frame.rip = CallSteps
        /\ cpu' = [frame |-> top[s], gpr |-> entry[s]]
        /\ high' = Nobody
        /\ kern' = [kern EXCEPT ![current] = Nil]
        /\ UNCHANGED <<tss, current, nProc, pListVars, top, entry, user, resumed>>

\* A call that came back elsewhere than to its caller: not followed further.
Astray ==
    /\ ~OnTrack
    /\ UNCHANGED vars

-----------------------------------------------------------------------------
(***************************************************************************)
(* Tasks come and go.                                                      *)
(***************************************************************************)
\* loadTask, called by the main loop or by the run system call.  A load that
\* fails after nProc++ changes nothing else that is modelled here.
LoadTask ==
    /\ OnTrack /\ ~InUser(cpu.frame)
    /\ nProc' = nProc + 1
    /\ \/ /\ nProc - Cardinality({q \in TaskPids : state[q] = 1}) < MaxStale
          /\ UNCHANGED <<pListVars, user, kern>>
       \/ \E p \in TaskPids :
             /\ state[p] = 0 /\ \A q \in TaskPids : q < p => state[q] # 0
             /\ state' = [state EXCEPT ![p] = 1]
             /\ regs' = [regs EXCEPT ![p] = UserContext(p, 0)]
             /\ rsp0' = [rsp0 EXCEPT ![p] = p]
             /\ user' = [user EXCEPT ![p] = UserContext(p, 0)]
             /\ kern' = [kern EXCEPT ![p] = Nil]
    /\ UNCHANGED <<cpu, high, tss, current, top, entry, resumed>>

\* The tail of exitTask: back on the kernel thread's stack, the task's own is
\* unmapped, then switchToTask(0, KERNELMODE) builds the frame below the saved
\* rsp of the kernel thread, which goes on with what r12-r15 hold: the values of the
\* system call, or of exitTask.
ExitTask ==
    /\ OnTrack /\ current # 0
    /\ nProc' = nProc - 1
    /\ state' = [state EXCEPT ![current] = 0]
    /\ top' = [top EXCEPT ![rsp0[current]] = Nil]
    /\ entry' = [entry EXCEPT ![rsp0[current]] = Nil]
    /\ current' = 0
    /\ tss' = rsp0[0]
    /\ cpu' = regs[0]
    /\ high' \in {high, Nobody}
    /\ resumed' = (resumed \ {current}) \cup {0}
    /\ UNCHANGED <<regs, rsp0, user, kern>>

-----------------------------------------------------------------------------
(***************************************************************************)
(* The clock interrupt.                                                    *)
(***************************************************************************)
\* Mutant of InterruptTop: the kernel's own interrupts change stacks too.
InterruptTopAlways == [top EXCEPT ![tss] = cpu.frame]

\* What the processor pushes at the top of a stack: only an entry from user mode
\* changes stacks, one from the kernel pushes where it is.
InterruptTop == IF InUser(cpu.frame) THEN [top EXCEPT ![tss] = cpu.frame] ELSE top

\* The early returns of schedule.
TickReturns ==
    /\ OnTrack
    /\ nProc = 0 \/ (nProc = 1 /\ current # 0)
    /\ top' = InterruptTop
    /\ UNCHANGED <<cpu, high, tss, current, nProc, pListVars, entry, user, kern, resumed>>

\* The next ready task, round robin; 0 when there is none.
NextPid ==
    LET first(S) == CHOOSE p \in S : \A q \in S : p <= q
        ready == {p \in TaskPids : state[p] = 1}
        above == {p \in ready : p > current}
        below == {p \in ready : p < current}
    IN  IF above # {} THEN first(above) ELSE IF below # {} THEN first(below) ELSE 0

\* Mutant of SaveRegs: the frame is saved, the registers are not.
SaveRegsFrame ==
    [regs EXCEPT ![current] = IF regs[current] = Nil THEN cpu
                              ELSE [@ EXCEPT !.frame = cpu.frame]]

\* schedule copies the interrupted frame and the pushed registers to current->regs.
SaveRegs == [regs EXCEPT ![current] = cpu]

\* Mutant of SwitchToTask: the TSS keeps the stack of the task before.
SwitchToTaskOldTss(n, r, k, t) ==
    /\ current' = n
    /\ tss' = tss
    /\ top' = IF r[n].frame.cs = KernelCS THEN t ELSE [t EXCEPT ![k[n]] = r[n].frame]
    /\ cpu' = r[n]
    /\ high' \in {high, Nobody}

\* switchToTask and doTaskSwitch: the frame is rebuilt at the top of the task's
\* kernel stack unless its code segment is the one schedule takes for the kernel's.
\* The registers are loaded from the task's, r12-r15 excepted: they keep what they
\* held, or the values of schedule.
\* r, k and t are the saved registers, the kernel stacks and their tops.
SwitchToTask(n, r, k, t) ==
    /\ current' = n
    /\ tss' = k[n]
    /\ top' = IF r[n].frame.cs = KernelCS THEN t ELSE [t EXCEPT ![k[n]] = r[n].frame]
    /\ cpu' = r[n]
    /\ high' \in {high, Nobody}

Schedule ==
    /\ OnTrack
    /\ nProc # 0 /\ ~(nProc = 1 /\ current # 0)
    /\ regs' = SaveRegs
    /\ rsp0' = [rsp0 EXCEPT ![current] = tss]
    /\ SwitchToTask(NextPid, regs', rsp0', InterruptTop)
    /\ resumed' = IF kern[NextPid] = Nil THEN resumed ELSE resumed \cup {NextPid}
    /\ UNCHANGED <<nProc, state, entry, user, kern>>

Next ==
    \/ KernelStep \/ UserStep
    \/ SyscallEnter \/ SyscallStep \/ SyscallReturn \/ Astray
    \/ LoadTask \/ ExitTask
    \/ TickReturns \/ Schedule

Spec == Init /\ [][Next]_vars

-----------------------------------------------------------------------------
(***************************************************************************)
(* Properties.                                                             *)
(***************************************************************************)
\* A task interrupted anywhere, in user code, in a system call or in the main
\* loop, is resumed at the instruction it was interrupted at and with the registers
\* that doTaskSwitch loads, which are all that 32 bit user code can name, whatever
\* ran in between: schedule saves everything doTaskSwitch loads, and the frame it
\* iretq's from is not overwritten on the way.  Only a call that was switched back
\* to may then return elsewhere than to its caller.  Kernel code has its own values
\* in r12-r15 as well, but only until it is first switched back to: from then on they
\* may be those of any code.
ResumesInPlace ==
    /\ OnTrack \/ (kern[current] = Nil /\ current \in resumed)
    /\ kern[current] # Nil /\ current \notin resumed => high = current

\* The TSS names the kernel stack of the task that runs, never one that exitTask
\* unmapped or one on which another task's system call is waiting.
TssIsCurrents == tss = current

\* While a task waits inside a system call it was not switched back to, no other
\* task, interrupt, exit or load disturbs the frame and the registers that the
\* call will return with.
CallerIsKept ==
    \A p \in TaskPids :
        state[p] = 1 /\ kern[p] # Nil =>
            /\ entry[p] = user[p].gpr
            /\ p \notin resumed => top[p] = user[p].frame

\* "Le mode indique si ce processus etait en mode utilisateur ou en mode kernel
\* quand il a ete precedement interrompu par le scheduler.  L'empilement des
\* registres sur la pile change selon le cas" (process.cpp): a system call that
\* was preempted returns to its caller all the same.
CallsReturnToCaller == OnTrack

=============================================================================
