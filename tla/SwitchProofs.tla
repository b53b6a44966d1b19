---------------------------- MODULE SwitchProofs ----------------------------
(***************************************************************************)
(* Proofs about the context switch, for any number of task slots and any   *)
(* lengths of programs and of system calls.                                *)
(***************************************************************************)
EXTENDS Switch, WellFoundedInduction, TLAPS

-----------------------------------------------------------------------------
(***************************************************************************)
(* The inductive invariant.                                                *)
(***************************************************************************)
\* Every table has one entry per slot of pList; task 0 never ends.
Tables ==
    /\ current \in Pids
    /\ state \in [Pids -> {0, 1}]
    /\ state[0] = 1 /\ state[current] = 1
    /\ DOMAIN regs = Pids /\ DOMAIN rsp0 = Pids
    /\ DOMAIN top = Pids /\ DOMAIN entry = Pids
    /\ DOMAIN user = Pids /\ DOMAIN kern = Pids

\* The kernel's own thread: always in kernel code, and what schedule saved of it
\* when it left it is what exitTask and schedule go back to.
KernelThread ==
    /\ \E n \in Nat : kern[0] = CallContext(0, n)
    /\ current # 0 => regs[0] = kern[0] /\ rsp0[0] = 0

\* The contexts a task may have.
HasContexts(p) ==
    /\ \E n \in Nat : user[p] = UserContext(p, n)
    /\ kern[p] = Nil \/ \E n \in Nat : kern[p] = CallContext(p, n)

\* A task that waits was saved where it is.
SavedInPlace(p) == rsp0[p] = p /\ (p # current => regs[p] = Place(p))

\* The stack of a task in a system call holds what the call returns with.
KeepsCaller(p) ==
    kern[p] # Nil =>
        /\ entry[p] = user[p].gpr
        /\ p \notin resumed => top[p] = user[p].frame

LiveTask(p) == HasContexts(p) /\ SavedInPlace(p) /\ KeepsCaller(p)

IInv ==
    /\ Tables
    /\ TssIsCurrents
    /\ KernelThread
    /\ \A p \in TaskPids : state[p] = 1 => LiveTask(p)
    /\ ResumesInPlace

-----------------------------------------------------------------------------
\* A saved context is never the empty one, and its code segment tells user code
\* from kernel code: user code is never on a kernel stack.
LEMMA Contexts ==
    ASSUME NEW p, NEW n
    PROVE  /\ UserContext(p, n) # Nil /\ CallContext(p, n) # Nil
           /\ InUser(UserContext(p, n).frame) /\ ~InUser(CallContext(p, n).frame)
           /\ UserContext(p, n).frame.cs # KernelCS /\ CallContext(p, n).frame.cs # KernelCS
           /\ UserContext(p, n).frame.rip = n /\ CallContext(p, n).frame.rip = n
           /\ CallContext(p, n).frame.rsp[2] = p
           /\ UserContext(p, n) = [frame |-> UserContext(p, n).frame, gpr |-> UserContext(p, n).gpr]
<1>1. DOMAIN UserContext(p, n) = {"frame", "gpr"} /\ DOMAIN CallContext(p, n) = {"frame", "gpr"}
    BY DEF UserContext, CallContext
<1>2. DOMAIN Nil = {}
    BY DEF Nil
<1>3. UserContext(p, n) # Nil /\ CallContext(p, n) # Nil
    BY <1>1, <1>2
<1> QED BY <1>3 DEF UserContext, CallContext, InUser, SS_USRCODE32, SS_CODE64, KernelCS

\* Slot 0 is the kernel's.
LEMMA Slots == 0 \in Pids /\ TaskPids \subseteq Pids /\ 0 \notin TaskPids /\ Pids \subseteq Nat
BY SwitchAssumption DEF Pids, TaskPids

\* The state the machine is in when the main loop starts.
LEMMA InitSwitch == Init => IInv
<1> SUFFICES ASSUME Init PROVE IInv
    OBVIOUS
<1>1. Tables /\ TssIsCurrents
    BY Slots DEF Init, Tables, TssIsCurrents
<1>2. kern[0] = CallContext(0, 0) /\ kern[0] # Nil
    BY Slots, Contexts DEF Init
<1>3. KernelThread /\ ResumesInPlace
    BY <1>2 DEF Init, KernelThread, ResumesInPlace, OnTrack, Place
<1>4. \A p \in TaskPids : state[p] # 1
    BY Slots DEF Init
<1> QED BY <1>1, <1>3, <1>4 DEF IInv

\* What the processor executes while it is on track: the kernel's thread, the user
\* code of the current task, or its system call.
LEMMA Running ==
    ASSUME IInv, OnTrack
    PROVE  /\ cpu # Nil
           /\ current = 0 => cpu = kern[0] /\ \E n \in Nat : cpu = CallContext(0, n)
           /\ current # 0 => current \in TaskPids /\ LiveTask(current)
           /\ InUser(cpu.frame) => /\ current # 0 /\ kern[current] = Nil
                                   /\ cpu = user[current]
                                   /\ \E n \in Nat : cpu = UserContext(current, n)
           /\ ~InUser(cpu.frame) => /\ kern[current] # Nil /\ cpu = kern[current]
                                    /\ \E n \in Nat : cpu = CallContext(current, n)
<1>1. current = 0 => cpu = kern[0] /\ kern[0] # Nil /\ \E n \in Nat : cpu = CallContext(0, n)
    BY Contexts DEF IInv, KernelThread, OnTrack, Place
<1>2. current # 0 => current \in TaskPids /\ LiveTask(current)
    BY DEF IInv, Tables, TaskPids
<1>3. ASSUME current # 0, kern[current] = Nil
      PROVE  cpu = user[current] /\ InUser(cpu.frame) /\ cpu # Nil
             /\ \E n \in Nat : cpu = UserContext(current, n)
    BY <1>2, <1>3, Contexts DEF LiveTask, HasContexts, OnTrack, Place
<1>4. ASSUME current # 0, kern[current] # Nil
      PROVE  cpu = kern[current] /\ ~InUser(cpu.frame)
             /\ \E n \in Nat : cpu = CallContext(current, n)
    BY <1>2, <1>4, Contexts DEF LiveTask, HasContexts, OnTrack, Place
<1> QED BY <1>1, <1>2, <1>3, <1>4, Contexts

\* A step that leaves a task's contexts, its saved registers and its stack alone
\* leaves it as it was.
LEMMA Untouched ==
    ASSUME NEW p \in TaskPids, LiveTask(p),
           user'[p] = user[p], kern'[p] = kern[p], regs'[p] = regs[p], rsp0'[p] = rsp0[p],
           entry'[p] = entry[p], p \notin resumed' => p \notin resumed,
           kern[p] = Nil \/ top'[p] = top[p],
           p = current => p = current'
    PROVE  LiveTask(p)'
BY DEF LiveTask, HasContexts, SavedInPlace, KeepsCaller, Place

-----------------------------------------------------------------------------
(***************************************************************************)
(* What runs between interrupts.                                           *)
(***************************************************************************)
\* The main loop is not at the mercy of tasks, nor they of it.
LEMMA KernelStepKeeps == IInv /\ KernelStep => IInv'
<1> SUFFICES ASSUME IInv, KernelStep PROVE IInv'
    OBVIOUS
<1>1. PICK n \in Nat : cpu = CallContext(0, n)
    BY Running DEF KernelStep
<1>2. cpu' = CallContext(0, (n + 1) % 2) /\ (n + 1) % 2 \in Nat
    BY <1>1, Contexts DEF KernelStep
<1>3. kern'[0] = cpu' /\ \A p \in TaskPids : kern'[p] = kern[p]
    BY Slots DEF KernelStep, IInv, Tables
<1>4. Tables' /\ TssIsCurrents'
    BY DEF KernelStep, pListVars, IInv, Tables, TssIsCurrents
<1>5. KernelThread' /\ ResumesInPlace'
    <2>1. current = 0 /\ current' = 0
        BY DEF KernelStep
    <2>2. kern'[0] # Nil
        BY <1>2, <1>3, Contexts
    <2>3. KernelThread'
        BY <1>2, <1>3, <2>1 DEF KernelThread
    <2>4. OnTrack'
        BY <1>3, <2>1, <2>2 DEF OnTrack, Place
    <2>5. kern'[0] # Nil /\ 0 \notin resumed' => high' = 0
        BY <1>1, <2>1, Running DEF KernelStep, IInv, ResumesInPlace
    <2> QED BY <2>1, <2>3, <2>4, <2>5 DEF ResumesInPlace
<1>6. \A p \in TaskPids : state'[p] = 1 => LiveTask(p)'
    BY <1>3, Untouched DEF KernelStep, pListVars, IInv
<1> QED BY <1>4, <1>5, <1>6 DEF IInv

\* A user program disturbs itself only.
LEMMA UserStepKeeps == IInv /\ UserStep => IInv'
<1> SUFFICES ASSUME IInv, UserStep PROVE IInv'
    OBVIOUS
<1>1. /\ current \in TaskPids /\ LiveTask(current) /\ kern[current] = Nil
      /\ \E n \in Nat : cpu = UserContext(current, n)
    BY Running DEF UserStep
<1>2. PICK n \in Nat : cpu' = UserContext(current, n + 1)
    BY <1>1, Contexts DEF UserStep
<1>3. user'[current] = cpu' /\ \A p \in Pids \ {current} : user'[p] = user[p]
    BY <1>1, Slots DEF UserStep, IInv, Tables
<1>4. Tables' /\ TssIsCurrents'
    BY DEF UserStep, pListVars, IInv, Tables, TssIsCurrents
<1>5. KernelThread' /\ ResumesInPlace'
    BY <1>1, <1>3 DEF UserStep, pListVars, IInv, KernelThread, ResumesInPlace, OnTrack, Place
<1>6. LiveTask(current)'
  <2>1. n + 1 \in Nat
      OBVIOUS
  <2> QED BY <1>1, <1>2, <1>3, <2>1
          DEF UserStep, pListVars, LiveTask, HasContexts, SavedInPlace, KeepsCaller, Place
<1>7. \A p \in TaskPids \ {current} : state'[p] = 1 => LiveTask(p)'
    BY <1>3, Slots, Untouched DEF UserStep, pListVars, IInv
<1> QED BY <1>4, <1>5, <1>6, <1>7 DEF IInv, UserStep

\* A system call puts the frame and the registers of its caller on the caller's own
\* kernel stack, because the TSS names it.
LEMMA SyscallEnterKeeps == IInv /\ SyscallEnter => IInv'
<1> SUFFICES ASSUME IInv, SyscallEnter PROVE IInv'
    OBVIOUS
<1>1. /\ current \in TaskPids /\ LiveTask(current) /\ tss = current
      /\ kern[current] = Nil /\ cpu = user[current]
    BY Running DEF SyscallEnter, IInv, TssIsCurrents
<1>2. /\ top'[current] = user[current].frame /\ entry'[current] = user[current].gpr
      /\ kern'[current] = CallContext(current, 1)
      /\ \A p \in Pids \ {current} :
            top'[p] = top[p] /\ entry'[p] = entry[p] /\ kern'[p] = kern[p]
    BY <1>1, Slots DEF SyscallEnter, IInv, Tables
<1>3. cpu' = CallContext(current, 1)
    BY <1>1 DEF SyscallEnter, CallContext
<1>4. Tables' /\ TssIsCurrents'
    BY DEF SyscallEnter, pListVars, IInv, Tables, TssIsCurrents
<1>5. KernelThread' /\ ResumesInPlace'
    BY <1>1, <1>2, <1>3, Slots, Contexts
    DEF SyscallEnter, pListVars, IInv, KernelThread, ResumesInPlace, OnTrack, Place
<1>6. LiveTask(current)'
    BY <1>1, <1>2
    DEF SyscallEnter, pListVars, LiveTask, HasContexts, SavedInPlace, KeepsCaller, Place
<1>7. \A p \in TaskPids \ {current} : state'[p] = 1 => LiveTask(p)'
    BY <1>2, Slots, Untouched DEF SyscallEnter, pListVars, IInv
<1> QED BY <1>4, <1>5, <1>6, <1>7 DEF IInv, SyscallEnter

\* A system call runs in its own context.
LEMMA SyscallStepKeeps == IInv /\ SyscallStep => IInv'
<1> SUFFICES ASSUME IInv, SyscallStep PROVE IInv'
    OBVIOUS
<1>1. /\ current \in TaskPids /\ LiveTask(current) /\ kern[current] # Nil
      /\ \E n \in Nat : cpu = CallContext(current, n)
    BY Running DEF SyscallStep
<1>2. PICK n \in Nat : cpu' = CallContext(current, n + 1)
    BY <1>1, Contexts DEF SyscallStep
<1>3. kern'[current] = cpu' /\ \A p \in Pids \ {current} : kern'[p] = kern[p]
    BY <1>1, Slots DEF SyscallStep, IInv, Tables
<1>4. Tables' /\ TssIsCurrents'
    BY DEF SyscallStep, pListVars, IInv, Tables, TssIsCurrents
<1>5. KernelThread' /\ ResumesInPlace'
    BY <1>1, <1>2, <1>3, Slots, Contexts
    DEF SyscallStep, pListVars, IInv, KernelThread, ResumesInPlace, OnTrack, Place
<1>6. LiveTask(current)'
  <2>1. n + 1 \in Nat
      OBVIOUS
  <2> QED BY <1>1, <1>2, <1>3, <2>1
          DEF SyscallStep, pListVars, LiveTask, HasContexts, SavedInPlace, KeepsCaller, Place
<1>7. \A p \in TaskPids \ {current} : state'[p] = 1 => LiveTask(p)'
    BY <1>3, Slots, Untouched DEF SyscallStep, pListVars, IInv
<1> QED BY <1>4, <1>5, <1>6, <1>7 DEF IInv, SyscallStep

\* A call that was not switched back to returns to its caller.
LEMMA SyscallReturnKeeps == IInv /\ SyscallReturn => IInv'
<1> SUFFICES ASSUME IInv, SyscallReturn PROVE IInv'
    OBVIOUS
<1>1. /\ current \in TaskPids /\ LiveTask(current) /\ kern[current] # Nil
      /\ cpu.frame.rsp[2] = current
    BY Running, Contexts DEF SyscallReturn
<1>2. /\ cpu' = [frame |-> top[current], gpr |-> entry[current]]
      /\ kern'[current] = Nil
      /\ \A p \in Pids \ {current} : kern'[p] = kern[p]
    BY <1>1, Slots DEF SyscallReturn, IInv, Tables
<1>3. current \notin resumed => cpu' = user[current]
    BY <1>1, <1>2, Contexts DEF LiveTask, HasContexts, KeepsCaller
<1>4. Tables' /\ TssIsCurrents'
    BY DEF SyscallReturn, pListVars, IInv, Tables, TssIsCurrents
<1>5. KernelThread' /\ ResumesInPlace'
    BY <1>1, <1>2, <1>3, Slots
    DEF SyscallReturn, pListVars, IInv, KernelThread, ResumesInPlace, OnTrack, Place
<1>6. LiveTask(current)'
    BY <1>1, <1>2
    DEF SyscallReturn, pListVars, LiveTask, HasContexts, SavedInPlace, KeepsCaller, Place
<1>7. \A p \in TaskPids \ {current} : state'[p] = 1 => LiveTask(p)'
    BY <1>2, Slots, Untouched DEF SyscallReturn, pListVars, IInv
<1> QED BY <1>4, <1>5, <1>6, <1>7 DEF IInv, SyscallReturn

-----------------------------------------------------------------------------
(***************************************************************************)
(* Tasks come and go.                                                      *)
(***************************************************************************)
\* A load takes a slot that no task lives in; one that fails takes none.
LEMMA LoadTaskKeeps == IInv /\ LoadTask => IInv'
<1> SUFFICES ASSUME IInv, LoadTask PROVE IInv'
    OBVIOUS
<1>1. CASE UNCHANGED <<pListVars, user, kern>>
    BY <1>1 DEF LoadTask, pListVars, IInv, Tables, TssIsCurrents, KernelThread, LiveTask,
                HasContexts, SavedInPlace, KeepsCaller, ResumesInPlace, OnTrack, Place
<1>2. ASSUME NEW p \in TaskPids, state[p] = 0,
             state' = [state EXCEPT ![p] = 1],
             regs' = [regs EXCEPT ![p] = UserContext(p, 0)],
             rsp0' = [rsp0 EXCEPT ![p] = p],
             user' = [user EXCEPT ![p] = UserContext(p, 0)],
             kern' = [kern EXCEPT ![p] = Nil]
      PROVE  IInv'
  <2>1. p # current /\ p # 0 /\ p \in Pids
      BY <1>2, Slots DEF IInv, Tables
  <2>2. UNCHANGED <<cpu, tss, current, top, entry, resumed>>
      BY DEF LoadTask
  <2>3. Tables' /\ TssIsCurrents'
    <3>1. state' \in [Pids -> {0, 1}] /\ state'[0] = 1 /\ state'[current] = 1
        BY <1>2, <2>1, Slots DEF IInv, Tables
    <3> QED BY <1>2, <2>2, <3>1 DEF IInv, Tables, TssIsCurrents
  <2>4. /\ user'[p] = UserContext(p, 0) /\ regs'[p] = UserContext(p, 0)
        /\ rsp0'[p] = p /\ kern'[p] = Nil
      BY <1>2, <2>1 DEF IInv, Tables
  <2>5. \A q \in Pids \ {p} : /\ user'[q] = user[q] /\ regs'[q] = regs[q] /\ rsp0'[q] = rsp0[q]
                              /\ kern'[q] = kern[q] /\ state'[q] = state[q]
      BY <1>2 DEF IInv, Tables
  <2>6. current \in Pids \ {p} /\ 0 \in Pids \ {p}
      BY <2>1, Slots DEF IInv, Tables
  <2>7. KernelThread' /\ ResumesInPlace'
      <3>1. UNCHANGED <<high, resumed>>
          BY DEF LoadTask
      <3> QED BY <2>2, <2>5, <2>6, <3>1 DEF IInv, KernelThread, ResumesInPlace, OnTrack, Place
  <2>8. LiveTask(p)'
      BY <2>4 DEF LiveTask, HasContexts, SavedInPlace, KeepsCaller, Place
  <2>9. \A q \in TaskPids \ {p} : state'[q] = 1 => LiveTask(q)'
      BY <2>2, <2>5, Slots, Untouched DEF IInv
  <2> QED BY <2>3, <2>7, <2>8, <2>9 DEF IInv
<1> QED BY <1>1, <1>2 DEF LoadTask

\* The kernel's thread continues where schedule left it, on its own stack; what the
\* exit frees is the stack of the task that ends.
LEMMA ExitTaskKeeps == IInv /\ ExitTask => IInv'
<1> SUFFICES ASSUME IInv, ExitTask PROVE IInv'
    OBVIOUS
<1>1. current \in TaskPids /\ LiveTask(current) /\ rsp0[current] = current
    BY Running DEF ExitTask, LiveTask, SavedInPlace
<1>2. regs[0] = kern[0] /\ rsp0[0] = 0 /\ kern[0] # Nil
    BY Contexts DEF ExitTask, IInv, KernelThread
<1>3. /\ state'[current] = 0
      /\ \A p \in Pids \ {current} :
            state'[p] = state[p] /\ top'[p] = top[p] /\ entry'[p] = entry[p]
    BY <1>1, Slots DEF ExitTask, IInv, Tables
<1>4. Tables' /\ TssIsCurrents'
  <2>1. state' \in [Pids -> {0, 1}] /\ state'[0] = 1
      BY <1>1, <1>3, Slots DEF ExitTask, IInv, Tables
  <2> QED BY <1>2, <2>1, Slots DEF ExitTask, IInv, Tables, TssIsCurrents
<1>5. KernelThread' /\ ResumesInPlace'
    BY <1>2 DEF ExitTask, IInv, KernelThread, ResumesInPlace, OnTrack, Place
<1>6. ASSUME NEW p \in TaskPids, state'[p] = 1 PROVE LiveTask(p)'
  <2>1. p # current /\ p \in Pids /\ state[p] = 1 /\ p # 0
      BY <1>3, <1>6, Slots
  <2>2. LiveTask(p)
      BY <2>1 DEF IInv
  <2>3. p \notin resumed' => p \notin resumed
      BY <2>1 DEF ExitTask
  <2> QED BY <1>3, <2>1, <2>2, <2>3, Untouched DEF ExitTask
<1> QED BY <1>4, <1>5, <1>6 DEF IInv

-----------------------------------------------------------------------------
(***************************************************************************)
(* The clock interrupt.                                                    *)
(***************************************************************************)
\* An interrupt pushes at the top of a stack only when no system call is on it.
LEMMA InterruptFindsRoom ==
    ASSUME IInv, OnTrack
    PROVE  /\ DOMAIN InterruptTop = Pids
           /\ \A p \in Pids : kern[p] = Nil \/ InterruptTop[p] = top[p]
BY Running DEF InterruptTop, IInv, Tables, TssIsCurrents

\* A tick that finds nobody to switch to changes nothing that matters.
LEMMA TickReturnsKeeps == IInv /\ TickReturns => IInv'
<1> SUFFICES ASSUME IInv, TickReturns PROVE IInv'
    OBVIOUS
<1>1. DOMAIN top' = Pids /\ \A p \in Pids : kern[p] = Nil \/ top'[p] = top[p]
    BY InterruptFindsRoom DEF TickReturns
<1>2. Tables' /\ TssIsCurrents' /\ KernelThread' /\ ResumesInPlace'
    BY <1>1 DEF TickReturns, pListVars, IInv, Tables, TssIsCurrents, KernelThread,
                ResumesInPlace, OnTrack, Place
<1>3. \A p \in TaskPids : state'[p] = 1 => LiveTask(p)'
    BY <1>1, Slots, Untouched DEF TickReturns, pListVars, IInv
<1> QED BY <1>2, <1>3 DEF IInv

\* A set of naturals with a member has a least one.
LEMMA LeastPid ==
    ASSUME NEW S \in SUBSET Nat, S # {}
    PROVE  \E p \in S : \A q \in S : p <= q
<1>1. PICK m \in S : \A n \in S : ~(<<n, m>> \in OpToRel(<, Nat))
    BY NatLessThanWellFounded, WFMin
<1>2. ASSUME NEW n \in S PROVE m <= n
  <2>1. m \in Nat /\ n \in Nat
      OBVIOUS
  <2>2. ~(n < m)
      BY <1>1, <2>1 DEF OpToRel
  <2> QED BY <2>1, <2>2
<1> QED BY <1>2

\* schedule picks a ready task other than the current one, or the kernel's thread.
LEMMA NextPidIsReady ==
    ASSUME IInv
    PROVE  NextPid = 0 \/ (NextPid \in TaskPids /\ NextPid # current /\ state[NextPid] = 1)
<1> DEFINE ready == {p \in TaskPids : state[p] = 1}
           above == {p \in ready : p > current}
           below == {p \in ready : p < current}
           first(S) == CHOOSE p \in S : \A q \in S : p <= q
<1>1. above \in SUBSET Nat /\ below \in SUBSET Nat /\ current \in Nat
    BY Slots DEF IInv, Tables
<1>2. above # {} => first(above) \in above
    BY <1>1, LeastPid
<1>3. below # {} => first(below) \in below
    BY <1>1, LeastPid
<1>4. NextPid = IF above # {} THEN first(above) ELSE IF below # {} THEN first(below) ELSE 0
    BY DEF NextPid
<1> HIDE DEF first
<1> QED BY <1>1, <1>2, <1>3, <1>4

\* The task that is left is saved where it is, the one that is resumed continues where
\* it was saved, and every other stack keeps its frame.
LEMMA ScheduleKeeps == IInv /\ Schedule => IInv'
<1> SUFFICES ASSUME IInv, Schedule PROVE IInv'
    OBVIOUS
<1> DEFINE n == NextPid
           c == current
<1>1. cpu = Place(c) /\ c \in Pids /\ tss = c
    BY DEF Schedule, OnTrack, IInv, Tables, TssIsCurrents
<1>2. n = 0 \/ (n \in TaskPids /\ n # c /\ state[n] = 1)
    BY NextPidIsReady
<1>3. n \in Pids /\ state[n] = 1
    BY <1>2, Slots DEF IInv, Tables
<1>4. /\ regs'[c] = Place(c) /\ rsp0'[c] = c
      /\ \A p \in Pids \ {c} : regs'[p] = regs[p] /\ rsp0'[p] = rsp0[p]
    BY <1>1 DEF Schedule, SaveRegs, IInv, Tables
<1>5. regs'[n] = Place(n) /\ rsp0'[n] = n
  <2>1. CASE n = c
      BY <1>4, <2>1
  <2>2. CASE n # c /\ n = 0
      BY <1>3, <1>4, <2>2, Contexts DEF IInv, KernelThread, Place
  <2>3. CASE n # c /\ n \in TaskPids
      BY <1>2, <1>3, <1>4, <2>3 DEF IInv, LiveTask, SavedInPlace
  <2> QED BY <1>2, <2>1, <2>2, <2>3
<1>6. current' = n /\ tss' = n /\ cpu' = Place(n)
    BY <1>5 DEF Schedule, SwitchToTask
<1>7. /\ DOMAIN top' = Pids
      /\ \A p \in Pids \ {n} : kern[p] = Nil \/ top'[p] = top[p]
    BY <1>5, InterruptFindsRoom DEF Schedule, SwitchToTask
<1>8. Tables' /\ TssIsCurrents' /\ ResumesInPlace'
  <2>1. DOMAIN regs' = Pids /\ DOMAIN rsp0' = Pids
      BY DEF Schedule, SaveRegs, IInv, Tables
  <2> QED BY <1>3, <1>6, <1>7, <2>1
          DEF Schedule, IInv, Tables, TssIsCurrents, ResumesInPlace, OnTrack, Place
<1>9. KernelThread'
  <2>1. n # 0 => regs'[0] = kern[0] /\ rsp0'[0] = 0
      BY <1>4, Slots, Contexts DEF IInv, KernelThread, Place
  <2> QED BY <1>6, <2>1 DEF Schedule, IInv, KernelThread
<1>10. ASSUME NEW p \in TaskPids, state'[p] = 1 PROVE LiveTask(p)'
  <2>1. LiveTask(p) /\ p \in Pids
      BY <1>10, Slots DEF Schedule, IInv
  <2>2. HasContexts(p)'
      BY <2>1 DEF Schedule, LiveTask, HasContexts
  <2>3. SavedInPlace(p)'
      BY <1>4, <2>1 DEF Schedule, LiveTask, SavedInPlace, Place
  <2>4. kern[p] # Nil /\ p = n => p \in resumed'
      BY DEF Schedule
  <2>5. KeepsCaller(p)'
      BY <1>7, <2>1, <2>4 DEF Schedule, LiveTask, KeepsCaller
  <2> QED BY <2>2, <2>3, <2>5 DEF LiveTask
<1> QED BY <1>8, <1>9, <1>10 DEF IInv

-----------------------------------------------------------------------------
(***************************************************************************)
(* The theorems.                                                           *)
(***************************************************************************)
\* The invariant holds in every step.
LEMMA StepSwitch == IInv /\ [Next]_vars => IInv'
<1> SUFFICES ASSUME IInv, [Next]_vars PROVE IInv'
    OBVIOUS
<1>1. CASE UNCHANGED vars
    BY <1>1 DEF vars, pListVars, IInv, Tables, TssIsCurrents, KernelThread, LiveTask,
                HasContexts, SavedInPlace, KeepsCaller, ResumesInPlace, OnTrack, Place
<1> QED BY <1>1, KernelStepKeeps, UserStepKeeps, SyscallEnterKeeps, SyscallStepKeeps,
           SyscallReturnKeeps, LoadTaskKeeps, ExitTaskKeeps, TickReturnsKeeps, ScheduleKeeps
        DEF Next, Astray

\* The invariant always holds.
LEMMA SwitchInvariant == Spec => []IInv
BY InitSwitch, StepSwitch, PTL DEF Spec

\* The TSS always names the kernel stack of the task that runs (switchToTask and
\* exitTask store it with the task they switch to): no entry from user mode pushes its
\* frame on the stack of a task that ended or that waits.
THEOREM TssFollowsTheTask == Spec => []TssIsCurrents
<1>1. IInv => TssIsCurrents
    BY DEF IInv
<1> QED BY <1>1, SwitchInvariant, PTL

\* Whatever schedule, loadTask, exitTask and the other tasks do, a task in a system
\* call finds its caller's registers on its stack, and its caller's frame unless
\* switchToTask rebuilt its own over it.
THEOREM CallersAreKept == Spec => []CallerIsKept
<1>1. IInv => CallerIsKept
    BY DEF IInv, LiveTask, KeepsCaller, CallerIsKept
<1> QED BY <1>1, SwitchInvariant, PTL

\* A preempted task, user program, system call or main loop, continues at the
\* instruction schedule interrupted it at and with the registers that doTaskSwitch
\* loads; kernel code that was never switched back to has r12-r15 as well.
THEOREM TasksResumeInPlace == Spec => []ResumesInPlace
<1>1. IInv => ResumesInPlace
    BY DEF IInv
<1> QED BY <1>1, SwitchInvariant, PTL

=============================================================================
