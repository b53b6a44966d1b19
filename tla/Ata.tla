--------------------------------- MODULE Ata --------------------------------
(***************************************************************************)
(* The ATA driver (kernel/disk/disk.cpp) and, as the driver sees it, the   *)
(* drive.  Every read is polled: each polling loop is one step, which goes *)
(* on when the status allows it and may time out when it does not.  The    *)
(* run system call reads with interrupts enabled, so there may be several  *)
(* readers between whose steps the scheduler switches.                     *)
(*                                                                         *)
(* A sector has SectorSize words (256 in the code), and the word at        *)
(* address a of the disk is a itself, so that every word tells where it    *)
(* was read.  A block address is written to the drive in two parts.        *)
(***************************************************************************)
EXTENDS Integers, Sequences, FiniteSets

CONSTANTS
    Readers,        \* who calls diskRead
    Boot,           \* the reader that is boot(), which calls init first
    Requests,       \* records [offset, count]
    SectorSize,     \* the words of a sector
    Low,            \* what the low LBA register counts to (256 in the code)
    High,           \* what the other three count to (2^20)
    MaxLba,         \* the sectors that 24 bits address
    MaxInt          \* the first number an int does not hold (2^31)

ASSUME AtaAssumption ==
    /\ Boot \in Readers
    /\ {SectorSize, Low, High, MaxLba, MaxInt} \subseteq Nat \ {0}
    /\ MaxLba <= Low * High
    /\ Requests \subseteq [offset : Nat, count : Nat \ {0}]

VARIABLES
    drive,          \* external: the kind of drive 0 and whether there is a drive 1
    dev,            \* external: the state of drive 0, its registers and its buffer
    config,         \* regConfigInfo
    task,           \* the locals of each reader
    asked, answer, driveErr,    \* the interface of DiskReads
    unsafe,         \* history: a register was written while the drive was busy
    cpu             \* "halt" after fatalError

iface == <<asked, answer, driveErr>>
vars  == <<drive, dev, config, task, iface, unsafe, cpu>>

\* regConfigInfo
TYPE_NONE  == 0
TYPE_UNKN  == 1
TYPE_ATA   == 2
TYPE_ATAPI == 3

Junk == -1

\* The words with addresses from a to b - 1.
Words(a, b) == [i \in 1 .. b - a |-> a + i - 1]

Bytes(r) == Words(r.offset, r.offset + r.count)

Promise == INSTANCE DiskReads

Nothing == Promise!Nothing

Locals == [pc |-> "idle", sector |-> 0, last |-> 0, tries |-> 0, got |-> <<>>]

Init ==
    /\ drive \in [0 .. 1 -> {TYPE_NONE, TYPE_ATA, TYPE_ATAPI}]
    /\ drive[1] # TYPE_ATAPI
    /\ dev = [st |-> IF drive[0] = TYPE_NONE THEN "busy" ELSE "ready",
              low |-> 0, high |-> 0, left |-> <<>>, err |-> FALSE]
    /\ config = [d \in 0 .. 1 |-> TYPE_NONE]
    /\ task = [t \in Readers |-> IF t = Boot THEN [Locals EXCEPT !.pc = "poke"] ELSE Locals]
    /\ Promise!DiskInit
    /\ unsafe = FALSE
    /\ cpu = "run"

-----------------------------------------------------------------------------
(***************************************************************************)
(* The drive (external).  It is slow or hangs in that nothing makes it     *)
(* take its steps.  With no drive the status reads as busy.                *)
(***************************************************************************)
Sector(lba) == Words(lba * SectorSize, (lba + 1) * SectorSize)

\* The readers that wait for the drive.
Waiting == {t \in Readers : task[t].pc = "wait"}

\* The command is done: there are data to read.
DriveData ==
    /\ dev.st = "busy" /\ drive[0] = TYPE_ATA /\ dev.left = <<>>
    /\ dev' = [dev EXCEPT !.st = "data", !.left = Sector(dev.high * Low + dev.low)]
    /\ UNCHANGED <<drive, config, task, iface, unsafe, cpu>>

\* The command failed, perhaps long after the driver stopped waiting for it: ERR is
\* set, which the driver never looks at, and there are no data.
DriveFails ==
    /\ dev.st = "busy" /\ drive[0] # TYPE_NONE
    /\ dev' = [dev EXCEPT !.st = "ready", !.err = TRUE]
    /\ driveErr' = driveErr \cup Waiting
    /\ UNCHANGED <<drive, config, task, asked, answer, unsafe, cpu>>

\* A soft reset is done.
DriveReset ==
    /\ dev.st = "reset" /\ drive[0] # TYPE_NONE
    /\ dev' = [dev EXCEPT !.st = "ready"]
    /\ UNCHANGED <<drive, config, task, iface, unsafe, cpu>>

BSY == dev.st \in {"busy", "reset"}
DRQ == dev.st = "data" \/ drive[0] = TYPE_NONE

-----------------------------------------------------------------------------
(***************************************************************************)
(* The driver.                                                             *)
(***************************************************************************)
At(t, pc) == cpu = "run" /\ task[t].pc = pc

Goto(t, pc) == task' = [task EXCEPT ![t].pc = pc]

\* A register of the command block is written: "If BSY is one, the device has
\* control of the register, we shouldn't write anything or this is UD".
WriteRegister == unsafe' = (unsafe \/ (BSY /\ drive[0] # TYPE_NONE))

\* init: which drives have registers that can be written.
Poke(t) ==
    /\ At(t, "poke")
    /\ config' = [d \in 0 .. 1 |-> IF drive[d] = TYPE_NONE THEN TYPE_NONE ELSE TYPE_UNKN]
    /\ Goto(t, "reset")
    /\ UNCHANGED <<drive, dev, iface, unsafe, cpu>>

\* softReset: the drive gives up its command and its data.
SoftReset(t) ==
    /\ At(t, "reset")
    /\ dev' = [dev EXCEPT !.st = IF drive[0] = TYPE_NONE THEN "busy" ELSE "reset",
                          !.left = <<>>, !.err = FALSE]
    /\ Goto(t, "reset0")
    /\ UNCHANGED <<drive, config, iface, unsafe, cpu>>

\* The wait for drive 0, which may time out, and the one for drive 1, which only
\* decides what is printed.  init goes on with its probe, selectDevice fails.
ResetWaits(t) ==
    /\ At(t, "reset0")
    /\ Goto(t, IF asked[t] = Nothing THEN "probe" ELSE "failed")
    /\ UNCHANGED <<drive, dev, config, iface, unsafe, cpu>>

\* init: a drive that has finished its reset shows its signature.
Probe(t) ==
    /\ At(t, "probe")
    /\ config' = [d \in 0 .. 1 |-> IF drive[d] # TYPE_NONE /\ (d = 0 => ~BSY) THEN drive[d]
                                   ELSE config[d]]
    /\ Goto(t, "idle")
    /\ UNCHANGED <<drive, dev, iface, unsafe, cpu>>

Up == task[Boot].pc \notin {"poke", "reset", "reset0", "probe"} \/ asked[Boot] # Nothing

\* The main loop reads when there are no tasks, and tasks read after init.
MayRead(t) == Up /\ \A u \in Readers \ {t} : Boot \in {t, u} => asked[u] = Nothing

\* Mutant of LastSector: the one of the word after the last.
LastSectorAfter(r) == (r.offset + r.count) \div SectorSize

\* diskRead: blEnd.
LastSector(r) == (r.offset + r.count - 1) \div SectorSize

\* diskRead: blBegin and the buffer.
DiskRead(t, r) ==
    /\ MayRead(t) /\ At(t, "idle")
    /\ Promise!Ask(t, r)
    /\ task' = [task EXCEPT ![t] =
                  [Locals EXCEPT !.pc = "select", !.sector = r.offset \div SectorSize,
                                 !.last = LastSector(r)]]
    /\ UNCHANGED <<drive, dev, config, unsafe, cpu>>

\* Mutant of Selectable: only the data are looked at.
SelectableDrq == ~DRQ

\* What selectDevice waits for, before and after it writes the device register.
Selectable == ~BSY /\ ~DRQ

\* selectDevice; an unknown drive is selected without a look at its status.
Select(t) ==
    /\ At(t, "select")
    /\ config[0] < TYPE_ATA \/ Selectable
    /\ WriteRegister
    /\ Goto(t, IF config[0] < TYPE_ATA THEN "low" ELSE "selected")
    /\ UNCHANGED <<drive, dev, config, iface, cpu>>

Selected(t) ==
    /\ At(t, "selected")
    /\ Selectable
    /\ Goto(t, "low")
    /\ UNCHANGED <<drive, dev, config, iface, unsafe, cpu>>

\* Either loop of selectDevice times out.
SelectTimeout(t) ==
    /\ At(t, "select") \/ At(t, "selected")
    /\ config[0] >= TYPE_ATA /\ ~Selectable
    /\ Goto(t, "reset")
    /\ UNCHANGED <<drive, dev, config, iface, unsafe, cpu>>

\* The conversion of a u64 to an int.
AsInt(n) ==
    LET m == n % (2 * MaxInt)
    IN  IF m < MaxInt THEN m ELSE m - 2 * MaxInt

\* The int numblock of readSector and prepareCommand; diskRead counts in u64.
Block(t) == AsInt(task[t].sector)

\* prepareCommand, which refuses block addresses of more than 24 bits, but not the
\* negative ones: those go into the registers like the others.
PrepareLow(t) ==
    /\ At(t, "low")
    /\ IF Block(t) >= MaxLba
       THEN cpu' = "halt" /\ UNCHANGED <<dev, task, unsafe>>
       ELSE /\ dev' = [dev EXCEPT !.low = Block(t) % Low]
            /\ WriteRegister
            /\ Goto(t, "high")
            /\ UNCHANGED cpu
    /\ UNCHANGED <<drive, config, iface>>

PrepareHigh(t) ==
    /\ At(t, "high")
    /\ dev' = [dev EXCEPT !.high = (Block(t) \div Low) % High]
    /\ WriteRegister
    /\ Goto(t, "command")
    /\ UNCHANGED <<drive, config, iface, cpu>>

\* readSector: the command is sent; a drive that is ready takes it.
Command(t) ==
    /\ At(t, "command")
    /\ dev' = IF BSY THEN dev ELSE [dev EXCEPT !.st = "busy", !.left = <<>>, !.err = FALSE]
    /\ WriteRegister
    /\ Goto(t, "wait")
    /\ UNCHANGED <<drive, config, iface, cpu>>

\* Mutant of WaitReady: the status is not looked at.
WaitReadyAtOnce(t) ==
    /\ At(t, "wait")
    /\ Goto(t, "transfer")
    /\ UNCHANGED <<drive, dev, config, iface, unsafe, cpu>>

\* waitReady looks at BSY only.
WaitReady(t) ==
    /\ At(t, "wait")
    /\ ~BSY
    /\ Goto(t, "transfer")
    /\ UNCHANGED <<drive, dev, config, iface, unsafe, cpu>>

WaitTimeout(t) ==
    /\ At(t, "wait")
    /\ BSY
    /\ Goto(t, "failed")
    /\ UNCHANGED <<drive, dev, config, iface, unsafe, cpu>>

\* readSector reads one word; a drive that has none gives anything.
Transfer(t) ==
    LET l == task[t]
        w == IF dev.st = "data" THEN Head(dev.left) ELSE Junk
        full == (Len(l.got) + 1) % SectorSize = 0
    IN  /\ At(t, "transfer")
        /\ dev' = IF dev.st # "data" THEN dev
                  ELSE [dev EXCEPT !.left = Tail(@),
                                   !.st = IF Len(dev.left) = 1 THEN "ready" ELSE "data"]
        /\ task' = [task EXCEPT ![t] =
                      [l EXCEPT !.got = Append(@, w),
                                !.tries = IF full THEN 0 ELSE @,
                                !.sector = IF full THEN @ + 1 ELSE @,
                                !.pc = IF ~full THEN "transfer"
                                       ELSE IF l.sector = l.last THEN "copy" ELSE "select"]]
        /\ UNCHANGED <<drive, config, iface, unsafe, cpu>>

\* Mutant of Retry: the attempts are not counted.
RetryAgain(t) ==
    /\ At(t, "failed") /\ task[t].tries = 0
    /\ Goto(t, "select")
    /\ UNCHANGED <<drive, dev, config, iface, unsafe, cpu>>

\* diskRead tries each sector twice; no word of a failed attempt is in the buffer.
Retry(t) ==
    /\ At(t, "failed") /\ task[t].tries = 0
    /\ task' = [task EXCEPT ![t].pc = "select", ![t].tries = 1]
    /\ UNCHANGED <<drive, dev, config, iface, unsafe, cpu>>

GiveUp(t) ==
    /\ At(t, "failed") /\ task[t].tries = 1
    /\ task' = [task EXCEPT ![t] = Locals]
    /\ asked' = [asked EXCEPT ![t] = Nothing]
    /\ answer' = [answer EXCEPT ![t] = Promise!Failure]
    /\ UNCHANGED <<drive, dev, config, driveErr, unsafe, cpu>>

\* diskRead copies what was asked for out of its buffer and returns.
Copy(t) ==
    LET r == asked[t]
        from == r.offset % SectorSize
    IN  /\ At(t, "copy")
        /\ task' = [task EXCEPT ![t] = Locals]
        /\ asked' = [asked EXCEPT ![t] = Nothing]
        /\ answer' = [answer EXCEPT ![t] =
                        Promise!Success(SubSeq(task[t].got, from + 1, from + r.count))]
        /\ UNCHANGED <<drive, dev, config, driveErr, unsafe, cpu>>

-----------------------------------------------------------------------------
\* fatalError never returns.
Halt == cpu = "halt" /\ UNCHANGED vars

ReaderStep(t) ==
    \/ Poke(t) \/ SoftReset(t) \/ ResetWaits(t) \/ Probe(t)
    \/ Select(t) \/ Selected(t) \/ SelectTimeout(t)
    \/ PrepareLow(t) \/ PrepareHigh(t) \/ Command(t)
    \/ WaitReady(t) \/ WaitTimeout(t) \/ Transfer(t)
    \/ Retry(t) \/ GiveUp(t) \/ Copy(t)

Next ==
    \/ DriveData \/ DriveFails \/ DriveReset
    \/ \E t \in Readers : ReaderStep(t)
    \/ \E t \in Readers, r \in Requests : DiskRead(t, r)
    \/ Halt

\* A reader that is in diskRead runs on: the scheduler comes back to it.  Nothing
\* is assumed of the drive.
Fairness == \A t \in Readers : WF_vars(ReaderStep(t))

Spec == Init /\ [][Next]_vars /\ Fairness

-----------------------------------------------------------------------------
(***************************************************************************)
(* Properties.                                                             *)
(***************************************************************************)
\* The variables have their types; a buffer holds less than a sector that was not
\* asked for on either side.
TypeOK ==
    /\ dev.st \in {"ready", "busy", "data", "reset"}
    /\ (dev.st = "data") = (dev.left # <<>>)
    /\ config \in [0 .. 1 -> TYPE_NONE .. TYPE_ATAPI]
    /\ \A t \in Readers :
          /\ task[t].tries \in 0 .. 1
          /\ asked[t] # Nothing =>
               Len(task[t].got) < (asked[t].offset % SectorSize) + asked[t].count + SectorSize

\* The driver keeps the promise of DiskReads to a drive it has identified, for
\* requests below the block address that an int does not hold any more (from there on
\* it reads other sectors): every answer has the bytes that were asked for, through
\* resets and retries, and what a command that timed out does late, its data or its
\* failure, is never taken for the answer of the next.
KeepsPromise ==
    [][config[0] >= TYPE_ATA =>
         \A t \in Readers :
            /\ asked[t] # Nothing /\ asked'[t] = Nothing
            /\ LastSector(asked[t]) < MaxInt
            => Promise!Answer(t, answer'[t])]_vars

\* "If BSY is one, the device has control of the register, we shouldn't write
\* anything or this is UD" (disk.cpp): outside of a reset, the driver writes the
\* registers of an identified drive only while the drive is not busy.
RegistersAreOurs == config[0] >= TYPE_ATA => ~unsafe

\* Every diskRead returns, with a drive that hangs, answers late, fails or is not
\* there, or stops the kernel.
ReadReturns ==
    \A t \in Readers : asked[t] # Nothing ~> (asked[t] = Nothing \/ cpu = "halt")

=============================================================================
