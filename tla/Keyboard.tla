------------------------------ MODULE Keyboard ------------------------------
(***************************************************************************)
(* Line input: Keyboard::nget and Keyboard::scan, which tasks run inside   *)
(* the nget system call, and Keyboard::input, which the keyboard interrupt *)
(* runs (kernel/keyboard.cpp, kernel/interrupt.cpp).                       *)
(*                                                                         *)
(* System calls enter through a trap gate, so interrupts stay enabled in   *)
(* them: the clock may take the processor away between any two statements  *)
(* of nget, and a key may arrive there.  Each statement of nget is an      *)
(* action; the handler of a key, which runs with interrupts masked, is one *)
(* action.  input() stores the character at the address the request named, *)
(* in whatever address space is current.                                   *)
(*                                                                         *)
(* A key that arrives while no request is active changes nothing here: it  *)
(* is only echoed.                                                         *)
(***************************************************************************)
EXTENDS Integers, FiniteSets, Sequences, SequencesExt

CONSTANTS
    Tasks,          \* the user tasks
    Kernel,         \* task 0, the kernel
    Chars,          \* ordinary characters
    BS, NL,         \* the characters 8 and 10 (or 13)
    NUL,            \* the character 0
    Junk,           \* what a buffer holds before anything is stored in it
    NullPtr,
    Sizes,          \* the sizes that callers of nget ask for
    IntMax,         \* the greatest value of an int (2^31 - 1)
    MaxKeys         \* bound on the keys of one request

\* The request of scan(), which knows no size.
Scan == -1

Requests == Sizes \cup {Scan}

\* The conversion from unsigned to int in "stop = n".
AsInt(n) == IF n <= IntMax THEN n ELSE n - 2 * (IntMax + 1)

\* isUserPtrValid(arg1 + arg2) keeps sizes away from the top of the address
\* space, so none of them is converted to -2.
ASSUME SizesAssumption ==
    /\ IntMax \in Nat /\ IntMax > 1
    /\ Sizes \subseteq 0 .. 2 * IntMax - 1

ASSUME KeysAssumption ==
    /\ MaxKeys \in Nat
    /\ Kernel \notin Tasks /\ NullPtr \notin Tasks
    /\ BS # NL /\ {BS, NL} \cap Chars = {}
    /\ NUL # Junk /\ {NUL, Junk} \cap (Chars \cup {BS, NL}) = {}

VARIABLES
    ilock,          \* Keyboard::ilock
    ubuf,           \* Keyboard::ubuf: the task whose buffer it points to
    pos,            \* Keyboard::pos
    stop,           \* Keyboard::stop
    pc,             \* the statement each task is about to execute
    size,           \* the size each task asked for
    ram,            \* ram[a][t]: what address space a holds where t's buffer is
    current,        \* the task whose address space is in cr3
    halted,         \* fatalError has been reached
    typed           \* history: the keys input() took for each task's request

vars == <<ilock, ubuf, pos, stop, pc, size, ram, current, halted, typed>>
driver == <<ilock, ubuf, pos, stop>>

Keys == Chars \cup {BS, NL}
Cells == 0 .. MaxKeys + 1
Untouched == [i \in Cells |-> Junk]

Init ==
    /\ ilock = FALSE
    /\ ubuf = NullPtr
    /\ pos = 0
    /\ stop = -2
    /\ pc = [t \in Tasks |-> "user"]
    /\ size = [t \in Tasks |-> 0]
    /\ ram = [a \in Tasks |-> [t \in Tasks |-> Untouched]]
    /\ current = Kernel
    /\ halted = FALSE
    /\ typed = [t \in Tasks |-> <<>>]

-----------------------------------------------------------------------------
(***************************************************************************)
(* The task's side: nget(buf, n) and scan(buf).                            *)
(***************************************************************************)
At(t, s) == ~halted /\ current = t /\ pc[t] = s

Goto(t, s) ==
    /\ pc' = [pc EXCEPT ![t] = s]
    /\ UNCHANGED <<current, halted>>

\* The caller's buffer is a local variable, with anything in it.
Call(t, n) ==
    /\ At(t, "user")
    /\ Goto(t, "test")
    /\ size' = [size EXCEPT ![t] = n]
    /\ ram' = [a \in Tasks |-> [ram[a] EXCEPT ![t] = Untouched]]
    /\ typed' = [typed EXCEPT ![t] = <<>>]
    /\ UNCHANGED driver

\* while (ilock);
TestLock(t) ==
    /\ At(t, "test") /\ ~ilock
    /\ Goto(t, "take")
    /\ UNCHANGED <<driver, size, ram, typed>>

TakeLock(t) ==
    /\ At(t, "take")
    /\ Goto(t, "ubuf")
    /\ ilock' = TRUE
    /\ UNCHANGED <<ubuf, pos, stop, size, ram, typed>>

SetUbuf(t) ==
    /\ At(t, "ubuf")
    /\ Goto(t, "pos")
    /\ ubuf' = t
    /\ UNCHANGED <<ilock, pos, stop, size, ram, typed>>

SetPos(t) ==
    /\ At(t, "pos")
    /\ Goto(t, "stop")
    /\ pos' = 0
    /\ UNCHANGED <<ilock, ubuf, stop, size, ram, typed>>

SetStop(t) ==
    /\ At(t, "stop")
    /\ Goto(t, "wait")
    /\ stop' = AsInt(size[t])
    /\ UNCHANGED <<ilock, ubuf, pos, size, ram, typed>>

\* while (ilock); and the return to the caller.
AwaitUnlock(t) ==
    /\ At(t, "wait") /\ ~ilock
    /\ Goto(t, "user")
    /\ UNCHANGED <<driver, size, ram, typed>>

Step(t) ==
    \/ TestLock(t) \/ TakeLock(t)
    \/ SetUbuf(t) \/ SetPos(t) \/ SetStop(t)
    \/ AwaitUnlock(t)

-----------------------------------------------------------------------------
(***************************************************************************)
(* The interrupt's side: input(c).                                         *)
(***************************************************************************)
Active == ilock /\ ubuf # NullPtr /\ stop # -2

\* Mutant of unlock: the lock is not released.
unlockHolds ==
    /\ ubuf' = NullPtr /\ stop' = -2 /\ pos' = 0
    /\ UNCHANGED ilock

unlock ==
    /\ ilock' = FALSE
    /\ ubuf' = NullPtr
    /\ stop' = -2
    /\ pos' = 0

\* A key after nget(buf, 0): it ends the call and is not stored.
KeyEndsCall ==
    /\ ~halted /\ Active /\ stop = 0
    /\ unlock
    /\ UNCHANGED <<pc, size, ram, current, halted, typed>>

\* Backspace only moves back, except at the start of the buffer.
Stores(c) == c # BS \/ pos = 0

\* In the kernel's address space there is no buffer: the store faults, the fault
\* handler ends the task that runs, and that is the kernel.
KeyFaults(c) ==
    /\ ~halted /\ Active /\ stop # 0
    /\ Stores(c) /\ current = Kernel
    /\ halted' = TRUE
    /\ UNCHANGED <<driver, pc, size, ram, current, typed>>

\* The buffer after the key: ubuf[pos] = c and a terminator.
Stored(b, c) ==
    IF ~Stores(c) THEN b
    ELSE IF c = BS THEN [b EXCEPT ![0] = NUL]
    ELSE [b EXCEPT ![pos] = c, ![pos + 1] = NUL]

\* Mutant of Advance: a newline leaves the lock held.
AdvanceHolds(c) ==
    /\ stop' = IF c = NL \/ stop = 1 THEN -2 ELSE IF stop < 0 THEN stop ELSE stop - 1
    /\ pos' = IF c # BS THEN pos ELSE IF pos = 0 THEN 0 ELSE pos - 1
    /\ UNCHANGED <<ilock, ubuf>>

\* Mutant of Advance: a backspace at the start of the buffer moves back too.
AdvanceUnderflows(c) ==
    IF c = NL \/ stop = 1 THEN unlock
    ELSE /\ pos' = IF c # BS THEN pos + 1 ELSE pos - 1
         /\ stop' = IF stop < 0 THEN stop ELSE stop - 1
         /\ UNCHANGED <<ilock, ubuf>>

\* Mutant of Advance: backspace does not move back.
AdvanceNoRubout(c) ==
    IF c = NL \/ stop = 1 THEN unlock
    ELSE /\ pos' = IF c # BS THEN pos + 1 ELSE pos
         /\ stop' = IF stop < 0 THEN stop ELSE stop - 1
         /\ UNCHANGED <<ilock, ubuf>>

\* Mutant of Advance: the characters left are not counted.
AdvanceUncounted(c) ==
    IF c = NL THEN unlock
    ELSE /\ pos' = IF c # BS THEN pos + 1 ELSE IF pos = 0 THEN 0 ELSE pos - 1
         /\ UNCHANGED <<stop, ilock, ubuf>>

\* What becomes of the request: a newline ends it, and nget's last key.
Advance(c) ==
    IF c = NL \/ stop = 1 THEN unlock
    ELSE /\ pos' = IF c # BS THEN pos + 1 ELSE IF pos = 0 THEN 0 ELSE pos - 1
         /\ stop' = IF stop < 0 THEN stop ELSE stop - 1
         /\ UNCHANGED <<ilock, ubuf>>

KeyTaken(c) ==
    /\ ~halted /\ Active /\ stop # 0
    /\ c # NL => pos < MaxKeys /\ Len(typed[ubuf]) < MaxKeys
    /\ Stores(c) => current # Kernel
    /\ ram' = [a \in Tasks |-> IF a = current THEN [ram[a] EXCEPT ![ubuf] = Stored(@, c)]
                               ELSE ram[a]]
    /\ typed' = [typed EXCEPT ![ubuf] = Append(@, c)]
    /\ Advance(c)
    /\ UNCHANGED <<pc, size, current, halted>>

-----------------------------------------------------------------------------
(***************************************************************************)
(* The rest of the system: the clock, and tasks that exit.                 *)
(***************************************************************************)
Alive == {t \in Tasks : pc[t] # "dead"}

\* The scheduler leaves a single task alone.
Schedule ==
    /\ ~halted
    /\ \E t \in Alive \ {current} : current' = t
    /\ UNCHANGED <<driver, pc, size, ram, halted, typed>>

\* exitTask switches to the kernel.
ExitTask(t) ==
    /\ At(t, "user")
    /\ pc' = [pc EXCEPT ![t] = "dead"]
    /\ current' = Kernel
    /\ UNCHANGED <<driver, size, ram, halted, typed>>

Next ==
    \/ \E t \in Tasks : Step(t) \/ ExitTask(t) \/ \E n \in Requests : Call(t, n)
    \/ KeyEndsCall
    \/ \E c \in Keys : KeyFaults(c) \/ KeyTaken(c)
    \/ Schedule

\* The clock ticks, a task that gets the processor again and again executes its
\* statements, and the user presses enter when a line is expected.
Fairness ==
    /\ WF_vars(Schedule)
    /\ \A t \in Tasks : SF_vars(Step(t))
    /\ WF_vars(KeyTaken(NL)) /\ WF_vars(KeyEndsCall)

Spec == Init /\ [][Next]_vars /\ Fairness

-----------------------------------------------------------------------------
(***************************************************************************)
(* Properties.                                                             *)
(***************************************************************************)
\* The types of the driver's variables and of what the tasks are doing; pos never
\* leaves the buffer's cells.
TypeOK ==
    /\ ilock \in BOOLEAN
    /\ ubuf \in Tasks \cup {NullPtr}
    /\ pos \in 0 .. MaxKeys
    /\ stop \in Int
    /\ pc \in [Tasks -> {"user", "test", "take", "ubuf", "pos", "stop", "wait", "dead"}]
    /\ size \in [Tasks -> Requests \cup {0}]
    /\ ram \in [Tasks -> [Tasks -> [Cells -> Keys \cup {NUL, Junk}]]]
    /\ current \in Tasks \cup {Kernel}
    /\ halted \in BOOLEAN
    /\ typed \in [Tasks -> Seq(Keys)]

\* A task between "ilock = true" and "stop = n".
Arming(t) == pc[t] \in {"ubuf", "pos", "stop"}

\* Nobody waits for a key that input() would ignore: when the lock is held and
\* no task is still preparing its request, the request is one that input() takes
\* keys for, however many tasks raced for the lock and whatever unlock() reset
\* in between.
RequestIsArmed == ilock /\ (\A t \in Tasks : ~Arming(t)) => Active

\* The text after one more key.
Edit(text, c) ==
    IF c # BS THEN Append(text, c) ELSE IF text = <<>> THEN text ELSE Front(text)

\* The text a sequence of keys stands for.
Edited(keys) ==
    LET text[i \in 0 .. Len(keys)] == IF i = 0 THEN <<>> ELSE Edit(text[i - 1], keys[i])
    IN  text[Len(keys)]

\* The string in a buffer, up to its terminator.
CString(b) ==
    LET len == CHOOSE i \in Cells : b[i] = NUL /\ \A j \in 0 .. i - 1 : b[j] # NUL
    IN  [i \in 1 .. len |-> b[i - 1]]

Answered(t) == pc[t] = "user" /\ typed[t] # <<>>

\* The buffer of a line that was ended with enter holds the line as edited: the
\* characters rubbed out are overwritten and the terminator follows the newline.
LineIsWhatWasTyped ==
    \A t \in Tasks : Answered(t) /\ Last(typed[t]) = NL =>
        CString(ram[t][t]) = Edited(typed[t])

\* "Read a line of max n characters, not counting the '\0'" (keyboard.h): at most
\* n + 1 bytes of the buffer are written.
WritesAtMostNAndNul ==
    \A t \in Tasks : size[t] # Scan =>
        \A i \in Cells : i > size[t] => ram[t][t][i] = Junk

\* "It still works since we're on the user's cr3" (syscalls.cpp): what is stored
\* for a task's request is stored in that task's memory.
KeysReachTheRequester ==
    \A a, t \in Tasks : a # t => ram[a][t] = Untouched

\* "Now we wait and when it'll unlock when the buffer is full" (keyboard.cpp):
\* every call returns.
EveryCallReturns ==
    \A t \in Tasks : pc[t] = "wait" ~> pc[t] \in {"user", "dead"} \/ halted

=============================================================================
