------------------------------ MODULE AtaProofs -----------------------------
(***************************************************************************)
(* Proofs about the ATA driver, for every sector size, every split of the  *)
(* block address over the registers and every set of requests.             *)
(***************************************************************************)
EXTENDS Ata, SequenceTheorems, TLAPS

-----------------------------------------------------------------------------
(***************************************************************************)
(* Arithmetic of sectors.                                                  *)
(***************************************************************************)
\* Quotient and remainder give the number back.
LEMMA DivMod ==
    ASSUME NEW n \in Nat, NEW d \in Nat \ {0}
    PROVE  /\ n \div d \in Nat /\ n % d \in Nat
           /\ (n \div d) * d + (n % d) = n
           /\ n % d < d
  BY SMT

\* A number between two multiples of d that follow each other.
LEMMA ModUnique ==
    ASSUME NEW k \in Nat, NEW q \in Nat, NEW d \in Nat \ {0}, k < d
    PROVE  (q * d + k) % d = k
  BY SMT

-----------------------------------------------------------------------------
(***************************************************************************)
(* The inductive invariant.  Its first part holds for any readers; its     *)
(* second one needs that a reader is alone with the drive.                 *)
(***************************************************************************)
InitPcs == {"poke", "reset", "reset0", "probe"}

ReadPcs == {"select", "selected", "low", "high", "command", "wait", "transfer",
            "failed", "copy", "reset", "reset0"}

DriveType ==
    [st : {"ready", "busy", "data", "reset"}, low : Nat, high : Nat, left : Seq(Int),
     err : BOOLEAN]

\* A drive has data exactly as long as there is something left of them.
DriveInOrder ==
    /\ dev \in DriveType
    /\ (dev.st = "data") = (dev.left # <<>>)
    /\ drive \in [0 .. 1 -> {TYPE_NONE, TYPE_ATA, TYPE_ATAPI}]
    /\ config \in [0 .. 1 -> TYPE_NONE .. TYPE_ATAPI]

\* The first word of the buffer is the first one of the first sector.
Base(r) == (r.offset \div SectorSize) * SectorSize

\* The address of the word that a reader with locals l puts into its buffer next.
NextWord(r, l) == Base(r) + Len(l.got)

\* The buffer of a reader ends where its sector begins, or inside of that sector
\* while it is transferred.
BufferFits(r, l) ==
    /\ l.pc \in ReadPcs
    /\ l.last = LastSector(r)
    /\ IF l.pc = "copy" THEN l.sector = l.last + 1 ELSE l.sector <= l.last
    /\ r.offset \div SectorSize <= l.sector
    /\ l.sector * SectorSize <= NextWord(r, l)
    /\ NextWord(r, l) < (l.sector + 1) * SectorSize
    /\ l.pc # "transfer" => NextWord(r, l) = l.sector * SectorSize

Pcs == InitPcs \cup ReadPcs \cup {"idle"}

LocalsType ==
    [pc : Pcs, sector : Nat, last : Nat, tries : 0 .. 1,
     got : Seq(Int)]

ReadersInOrder ==
    /\ task \in [Readers -> LocalsType]
    /\ asked \in [Readers -> Requests \cup {Nothing}]
    /\ \A t \in Readers :
          IF asked[t] = Nothing THEN task[t].pc \in InitPcs \cup {"idle"}
          ELSE BufferFits(asked[t], task[t])

LocalInv == DriveInOrder /\ ReadersInOrder

\* The words are the ones of the disk from address a on.
FromDisk(s, a) == \A i \in 1 .. Len(s) : s[i] = a + i - 1

\* What the address registers hold for a sector, and the sector the drive then reads.
LowOf(s)  == AsInt(s) % Low
HighOf(s) == (AsInt(s) \div Low) % High
Lba(s)    == HighOf(s) * Low + LowOf(s)

\* What the only reader, with locals l, knows of a drive that was identified:
\* the drive waits for it until it sends its command, the registers hold the
\* address of its sector, and what the drive answers is that sector or an error.
DriveIsOurs(l) ==
    /\ ~unsafe /\ drive[0] # TYPE_NONE
    /\ l.pc \in {"low", "high", "command"} => dev.st = "ready"
    /\ l.pc \in {"high", "command", "wait"} =>
          AsInt(l.sector) < MaxLba /\ dev.low = LowOf(l.sector)
    /\ l.pc \in {"command", "wait"} => dev.high = HighOf(l.sector)
    /\ l.pc = "wait" =>
          \/ dev.st = "busy"
          \/ dev.st = "data" /\ dev.left = Sector(Lba(l.sector))
          \/ dev.st = "ready" /\ Boot \in driveErr

\* Unless the drive has reported an error, the buffer holds what is on the disk,
\* and the drive's buffer the rest of the sector, when an int holds the request's
\* sectors.
BufferIsDisk(r, l) ==
    Boot \notin driveErr /\ LastSector(r) < MaxInt =>
        /\ FromDisk(l.got, Base(r))
        /\ l.pc = "transfer" =>
              /\ dev.left = Words(NextWord(r, l), (l.sector + 1) * SectorSize)
              /\ dev.st = "data"

AloneInv ==
    /\ task[Boot].pc \in InitPcs /\ asked[Boot] = Nothing => ~unsafe
    /\ task[Boot].pc = "poke" => config[0] = TYPE_NONE
    /\ config[0] >= TYPE_ATA =>
          /\ DriveIsOurs(task[Boot])
          /\ asked[Boot] # Nothing => BufferIsDisk(asked[Boot], task[Boot])

IInv == LocalInv /\ AloneInv /\ DOMAIN answer = Readers

-----------------------------------------------------------------------------
(***************************************************************************)
(* Words, requests and sectors.                                            *)
(***************************************************************************)
LEMMA WordsAre ==
    ASSUME NEW a \in Nat, NEW b \in Nat, a <= b
    PROVE  /\ Words(a, b) \in Seq(Int)
           /\ Len(Words(a, b)) = b - a
           /\ \A i \in 1 .. b - a : Words(a, b)[i] = a + i - 1
<1>1. Words(a, b) \in [1 .. b - a -> Int] /\ b - a \in Nat
  BY DEF Words
<1>2. Words(a, b) \in Seq(Int) /\ Len(Words(a, b)) = b - a
  BY <1>1, IsASeq, LenProperties
<1>. QED
  BY <1>2 DEF Words

\* The registers hold an address of their own for every sector, and the sector's
\* where prepareCommand checked the number that diskRead has.
LEMMA LbaIs ==
    ASSUME NEW s \in Nat
    PROVE  /\ AsInt(s) \in Int /\ LowOf(s) \in Nat /\ HighOf(s) \in Nat
           /\ s < MaxInt /\ AsInt(s) < MaxLba => Lba(s) = s
<1> DEFINE m == s % (2 * MaxInt)
<1>1. /\ MaxInt \in Nat \ {0} /\ 2 * MaxInt \in Nat \ {0} /\ Low \in Nat \ {0}
      /\ High \in Nat \ {0} /\ MaxLba \in Nat /\ MaxLba <= Low * High
  BY AtaAssumption
<1>2. m \in Nat /\ (s < MaxInt => m = s)
  <2>1. m \in Nat
    BY <1>1, DivMod
  <2>2. ASSUME s < MaxInt PROVE m = s
    <3> DEFINE d == 2 * MaxInt
    <3>1. d \in Nat \ {0} /\ s < d /\ m = s % d
      BY <1>1, <2>2
    <3> HIDE DEF d, m
    <3>2. (0 * d + s) % d = s
      BY <3>1, ModUnique
    <3>3. 0 * d + s = s
      BY <3>1
    <3>. QED
      BY <3>1, <3>2, <3>3
  <2>. QED BY <2>1, <2>2
<1>3. AsInt(s) = IF m < MaxInt THEN m ELSE m - 2 * MaxInt
  BY DEF AsInt
<1> HIDE DEF m
<1>4. AsInt(s) \in Int /\ (s < MaxInt => AsInt(s) = s)
  BY <1>1, <1>2, <1>3
<1>5. ASSUME NEW i \in Int, NEW d \in Nat \ {0}
      PROVE  i % d \in Nat /\ i \div d \in Int
  BY <1>5
<1>6. LowOf(s) \in Nat /\ AsInt(s) \div Low \in Int
  BY <1>1, <1>4, <1>5 DEF LowOf
<1>7. HighOf(s) \in Nat
  BY <1>1, <1>5, <1>6 DEF HighOf
<1>8. ASSUME s < MaxInt, AsInt(s) < MaxLba
      PROVE  Lba(s) = s
  <2> DEFINE q == s \div Low
  <2>1. AsInt(s) = s /\ s < Low * High
    BY <1>1, <1>4, <1>8
  <2>2. /\ q \in Nat /\ s % Low \in Nat /\ s % Low < Low
        /\ q * Low + (s % Low) = s
    BY <1>1, DivMod
  <2>3. LowOf(s) = s % Low /\ HighOf(s) = q % High
    BY <2>1 DEF LowOf, HighOf
  <2> HIDE DEF q
  <2>4. q < High
    <3>1. SUFFICES ASSUME High <= q PROVE FALSE
      BY <1>1, <2>2
    <3>2. PICK k \in Nat : q = High + k
      BY <1>1, <2>2, <3>1
    <3>3. q * Low = High * Low + k * Low /\ k * Low \in Nat /\ High * Low \in Nat
      BY <1>1, <3>2
    <3>4. High * Low = Low * High
      BY <1>1
    <3>. QED
      BY <2>1, <2>2, <3>3, <3>4
  <2>5. (0 * High + q) % High = q
    BY <1>1, <2>2, <2>4, ModUnique
  <2>6. q % High = q
    BY <2>5, <2>2, <1>1
  <2>. QED
    BY <2>2, <2>3, <2>6 DEF Lba
<1>. QED
  BY <1>4, <1>6, <1>7, <1>8

LEMMA SectorIs ==
    ASSUME NEW s \in Nat
    PROVE  /\ s * SectorSize \in Nat /\ (s + 1) * SectorSize \in Nat
           /\ (s + 1) * SectorSize = s * SectorSize + SectorSize
           /\ Sector(s) \in Seq(Int) /\ Sector(s) # <<>>
<1>1. /\ s * SectorSize \in Nat /\ (s + 1) * SectorSize \in Nat
      /\ (s + 1) * SectorSize = s * SectorSize + SectorSize
      /\ SectorSize \in Nat /\ SectorSize > 0
  BY AtaAssumption
<1>2. Sector(s) \in Seq(Int) /\ Len(Sector(s)) = SectorSize
  BY <1>1, WordsAre DEF Sector
<1>. QED
  BY <1>1, <1>2

LEMMA SectorOrder ==
    ASSUME NEW s \in Nat, NEW q \in Nat, s <= q
    PROVE  s * SectorSize <= q * SectorSize
<1>1. SectorSize \in Nat
  BY AtaAssumption
<1>2. ASSUME NEW k \in Nat, NEW d \in Nat
      PROVE  s * d <= (s + k) * d
  <2>1. (s + k) * d = s * d + k * d /\ k * d \in Nat /\ s * d \in Nat
    BY <1>2
  <2>. QED
    BY <2>1
<1>3. PICK k \in Nat : q = s + k
  BY SMT
<1>. QED
  BY <1>1, <1>2, <1>3

\* A request is no Nothing, and its sectors are the ones its words are in.
LEMMA RequestIs ==
    ASSUME NEW r \in Requests
    PROVE  /\ r # Nothing
           /\ r.offset \in Nat /\ r.count \in Nat \ {0}
           /\ r.offset \div SectorSize \in Nat /\ LastSector(r) \in Nat
           /\ r.offset \div SectorSize <= LastSector(r)
           /\ Base(r) \in Nat /\ Base(r) + (r.offset % SectorSize) = r.offset
           /\ r.offset % SectorSize \in Nat
           /\ LastSector(r) * SectorSize <= r.offset + r.count - 1
           /\ r.offset + r.count <= (LastSector(r) + 1) * SectorSize
<1>1. r \in [offset : Nat, count : Nat \ {0}] /\ SectorSize \in Nat \ {0}
  BY AtaAssumption
<1>2. r.offset \in Nat /\ r.count \in Nat \ {0} /\ DOMAIN r = {"offset", "count"}
  BY <1>1
<1>3. DOMAIN Nothing = {"none"}
  BY DEF Nothing, Promise!Nothing
<1>4. r # Nothing
  BY <1>2, <1>3
<1> DEFINE d == SectorSize
           o == r.offset
           e == r.offset + r.count - 1
<1>5. d \in Nat \ {0} /\ o \in Nat /\ e \in Nat /\ o <= e
  BY <1>1, <1>2
<1>6. LastSector(r) = e \div d
  BY DEF LastSector
<1> HIDE DEF d, o, e
<1>7. /\ o \div d \in Nat /\ (o \div d) * d + (o % d) = o /\ o % d < d /\ o % d \in Nat
      /\ e \div d \in Nat /\ (e \div d) * d + (e % d) = e /\ e % d < d /\ e % d \in Nat
  BY <1>5, DivMod
<1>8. o \div d <= e \div d
  <2>1. SUFFICES ASSUME e \div d + 1 <= o \div d
                 PROVE  FALSE
    BY <1>7
  <2>2. (e \div d + 1) * d <= (o \div d) * d
    BY <1>5, <1>7, <2>1
  <2>3. (e \div d + 1) * d = (e \div d) * d + d
    BY <1>5, <1>7
  <2>. QED
    BY <1>5, <1>7, <2>2, <2>3
<1>9. (e \div d + 1) * d = (e \div d) * d + d
  BY <1>5, <1>7
<1>10. (e \div d) * d \in Nat /\ (o \div d) * d \in Nat
  BY <1>5, <1>7
<1>11. /\ (e \div d) * d <= e
       /\ e + 1 <= (e \div d + 1) * d
  BY <1>5, <1>7, <1>9, <1>10
<1> USE DEF d, o, e
<1>. QED
  BY <1>2, <1>4, <1>6, <1>7, <1>8, <1>10, <1>11 DEF Base

-----------------------------------------------------------------------------
(***************************************************************************)
(* Any readers.                                                            *)
(***************************************************************************)
LEMMA TypeFromLocal ==
    ASSUME LocalInv
    PROVE  TypeOK
<1>1. ASSUME NEW t \in Readers, asked[t] # Nothing
      PROVE  Len(task[t].got) < (asked[t].offset % SectorSize) + asked[t].count + SectorSize
  <2> DEFINE r == asked[t]
             l == task[t]
  <2>1. r \in Requests /\ BufferFits(r, l)
    BY <1>1 DEF LocalInv, ReadersInOrder
  <2>2. l.sector \in Nat /\ Len(l.got) \in Nat /\ l.last = LastSector(r)
    BY <1>1, <2>1 DEF LocalInv, ReadersInOrder, BufferFits, LocalsType
  <2>3. NextWord(r, l) = Base(r) + Len(l.got)
    BY DEF NextWord
  <2> HIDE DEF r, l
  <2>4. /\ LastSector(r) \in Nat /\ LastSector(r) * SectorSize \in Nat
        /\ LastSector(r) * SectorSize <= r.offset + r.count - 1
        /\ r.offset \in Nat /\ r.count \in Nat /\ r.offset % SectorSize \in Nat
        /\ Base(r) \in Nat /\ Base(r) + (r.offset % SectorSize) = r.offset
    BY <2>1, RequestIs, SectorIs
  <2>5. NextWord(r, l) <= (LastSector(r) + 1) * SectorSize
    <3>1. CASE l.pc = "copy"
      BY <3>1, <2>1, <2>2, <2>4 DEF BufferFits
    <3>2. CASE l.pc # "copy"
      <4>1. l.sector + 1 <= LastSector(r) + 1
        BY <3>2, <2>1, <2>2, <2>4 DEF BufferFits
      <4>2. (l.sector + 1) * SectorSize <= (LastSector(r) + 1) * SectorSize
        BY <4>1, <2>2, <2>4, SectorOrder
      <4>3. NextWord(r, l) < (l.sector + 1) * SectorSize
        BY <2>1 DEF BufferFits
      <4>4. (l.sector + 1) * SectorSize \in Nat /\ (LastSector(r) + 1) * SectorSize \in Nat
        BY <2>2, <2>4, SectorIs
      <4>5. NextWord(r, l) \in Nat
        BY <2>1, <2>2, <2>3, RequestIs
      <4>. QED
        BY <4>2, <4>3, <4>4, <4>5
    <3>. QED
      BY <3>1, <3>2
  <2>6. (LastSector(r) + 1) * SectorSize <= r.offset + r.count - 1 + SectorSize
    <3>1. (LastSector(r) + 1) * SectorSize = LastSector(r) * SectorSize + SectorSize
      BY <2>4, SectorIs
    <3>. QED
      BY <3>1, <2>4, AtaAssumption
  <2>7. Len(l.got) < (r.offset % SectorSize) + r.count + SectorSize
    <3>1. ASSUME NEW n \in Nat, NEW m \in Nat, NEW c \in Nat, NEW d \in Nat, NEW base \in Nat,
                 NEW end \in Nat, base + n <= end, end <= base + m + c - 1 + d
          PROVE  n < m + c + d
      BY <3>1
    <3>2. (LastSector(r) + 1) * SectorSize \in Nat
      BY <2>4, SectorIs
    <3>3. Base(r) + Len(l.got) <= (LastSector(r) + 1) * SectorSize
      BY <2>3, <2>5
    <3>4. (LastSector(r) + 1) * SectorSize
             <= Base(r) + (r.offset % SectorSize) + r.count - 1 + SectorSize
      BY <2>4, <2>6
    <3>5. SectorSize \in Nat
      BY AtaAssumption
    <3>. QED
      BY ONLY <3>1, <3>2, <3>3, <3>4, <3>5, <2>2, <2>4
  <2>. QED
    BY <2>7 DEF r, l
<1>. QED
  BY <1>1 DEF LocalInv, DriveInOrder, DriveType, ReadersInOrder, LocalsType, TypeOK

\* The test of readSector's loop finds the end of the sector.
LEMMA FullAtEnd ==
    ASSUME NEW r \in Requests, NEW n \in Nat, NEW s \in Nat,
           r.offset \div SectorSize <= s,
           s * SectorSize <= Base(r) + n, Base(r) + n < (s + 1) * SectorSize
    PROVE  ((n + 1) % SectorSize = 0) <=> (Base(r) + n + 1 = (s + 1) * SectorSize)
<1> DEFINE d == SectorSize
           f == r.offset \div SectorSize
<1>1. d \in Nat \ {0} /\ f \in Nat /\ f <= s /\ Base(r) = f * d
  BY RequestIs, AtaAssumption DEF Base
<1>2. s * d <= f * d + n /\ f * d + n < (s + 1) * d
  BY <1>1
<1>3. SUFFICES ((n + 1) % d = 0) <=> (f * d + n + 1 = (s + 1) * d)
  BY <1>1
<1> HIDE DEF d, f
<1>4. PICK q \in Nat : s = f + q
  BY <1>1
<1>5. /\ s * d = f * d + q * d /\ (s + 1) * d = f * d + q * d + d
      /\ f * d \in Nat /\ q * d \in Nat /\ (q + 1) * d = q * d + d
  BY <1>1, <1>4
<1>6. PICK k \in Nat : n = q * d + k /\ k < d
  BY ONLY <1>1, <1>2, <1>5, n \in Nat
<1>7. CASE k + 1 < d
  <2>1. (q * d + (k + 1)) % d = k + 1
    BY <1>1, <1>4, <1>6, <1>7, ModUnique
  <2>2. n + 1 = q * d + (k + 1)
    BY <1>5, <1>6
  <2>3. f * d + n + 1 # (s + 1) * d
    BY ONLY <1>1, <1>5, <1>6, <1>7
  <2>. QED
    BY ONLY <2>1, <2>2, <2>3, <1>6
<1>8. CASE k + 1 = d
  <2>1. ((q + 1) * d + 0) % d = 0
    BY <1>1, <1>4, ModUnique
  <2>2. n + 1 = (q + 1) * d + 0
    BY ONLY <1>1, <1>5, <1>6, <1>8
  <2>3. f * d + n + 1 = (s + 1) * d
    BY ONLY <1>1, <1>5, <1>6, <1>8
  <2>. QED
    BY ONLY <2>1, <2>2, <2>3
<1>. QED
  BY <1>1, <1>6, <1>7, <1>8

LEMMA LocalsAre ==
    /\ Locals \in LocalsType /\ Locals.pc = "idle" /\ Locals.got = <<>>
  BY DEF Locals, LocalsType, Pcs

LEMMA InitLocal == Init => LocalInv
<1>1. SUFFICES ASSUME Init
               PROVE  LocalInv
  OBVIOUS
<1>2. DriveInOrder
  <2>1. dev.left = <<>> /\ dev.st \in {"busy", "ready"}
    BY <1>1 DEF Init
  <2>2. dev \in DriveType
    BY <1>1 DEF Init, DriveType
  <2>. QED
    BY <1>1, <2>1, <2>2 DEF Init, DriveInOrder, TYPE_NONE, TYPE_ATA, TYPE_ATAPI
<1>3. ReadersInOrder
  <2>1. Locals \in LocalsType /\ Locals.pc = "idle"
    BY LocalsAre
  <2>2. [Locals EXCEPT !.pc = "poke"] \in LocalsType /\ [Locals EXCEPT !.pc = "poke"].pc = "poke"
    BY <2>1 DEF LocalsType, InitPcs, Pcs
  <2>3. /\ asked = [t \in Readers |-> Nothing]
        /\ task = [t \in Readers |-> IF t = Boot THEN [Locals EXCEPT !.pc = "poke"] ELSE Locals]
    BY <1>1 DEF Init, Promise!DiskInit, Nothing
  <2>. QED
    BY <2>1, <2>2, <2>3 DEF ReadersInOrder, InitPcs
<1>. QED
  BY <1>2, <1>3 DEF LocalInv

\* Where a reader is tells whether it was asked to read.
LEMMA WhereReaders ==
    ASSUME ReadersInOrder, NEW t \in Readers
    PROVE  /\ task[t] \in LocalsType /\ asked[t] \in Requests \cup {Nothing}
           /\ task[t].pc \in ReadPcs \ {"reset", "reset0"} =>
                 asked[t] # Nothing /\ asked[t] \in Requests
           /\ asked[t] # Nothing => BufferFits(asked[t], task[t]) /\ asked[t] \in Requests
           /\ task[t].pc \in {"poke", "probe", "idle"} => asked[t] = Nothing
           /\ asked[t] = Nothing => task[t].pc \in InitPcs \cup {"idle"}
  BY DEF ReadersInOrder, BufferFits, InitPcs, ReadPcs

\* One reader goes on, and is in order where it comes to.
LEMMA ReaderMoves ==
    ASSUME ReadersInOrder, NEW t \in Readers, NEW l \in LocalsType,
           task' = [task EXCEPT ![t] = l], UNCHANGED asked,
           IF asked[t] = Nothing THEN l.pc \in InitPcs \cup {"idle"}
           ELSE BufferFits(asked[t], l)
    PROVE  ReadersInOrder'
<1>1. task' \in [Readers -> LocalsType]
  BY DEF ReadersInOrder
<1>2. ASSUME NEW u \in Readers
      PROVE  IF asked'[u] = Nothing THEN task'[u].pc \in InitPcs \cup {"idle"}
             ELSE BufferFits(asked'[u], task'[u])
  <2>1. CASE u = t
    BY <2>1 DEF ReadersInOrder
  <2>2. CASE u # t
    BY <2>2 DEF ReadersInOrder
  <2>. QED
    BY <2>1, <2>2
<1>. QED
  BY <1>1, <1>2 DEF ReadersInOrder, Nothing, Promise!Nothing, BufferFits, LastSector, NextWord, Base

\* The same when only its pc changes, outside of a transfer.
LEMMA GotoKeeps ==
    ASSUME ReadersInOrder, NEW t \in Readers, NEW pc, Goto(t, pc), UNCHANGED asked,
           task[t].pc \notin {"transfer", "copy"}, pc # "copy",
           IF asked[t] = Nothing THEN pc \in InitPcs \cup {"idle"} ELSE pc \in ReadPcs
    PROVE  ReadersInOrder'
<1> DEFINE l == [task[t] EXCEPT !.pc = pc]
<1>1. task[t] \in LocalsType
  BY DEF ReadersInOrder
<1>2. l \in LocalsType
  BY <1>1 DEF LocalsType, Pcs
<1>3. /\ l.pc = pc /\ l.sector = task[t].sector /\ l.last = task[t].last /\ l.got = task[t].got
  BY <1>1 DEF LocalsType
<1>4. task' = [task EXCEPT ![t] = l]
  BY DEF Goto
<1> HIDE DEF l
<1>5. asked[t] # Nothing => BufferFits(asked[t], l)
  <2>1. asked[t] # Nothing => BufferFits(asked[t], task[t])
    BY DEF ReadersInOrder
  <2>2. NextWord(asked[t], l) = NextWord(asked[t], task[t])
    BY <1>3 DEF NextWord
  <2>. QED
    BY <1>3, <2>1, <2>2 DEF BufferFits
<1>. QED
  BY <1>2, <1>3, <1>4, <1>5, ReaderMoves

\* readSector reads a word: the buffer grows to the end of the sector at most.
LEMMA TransferKeeps ==
    ASSUME LocalInv, NEW t \in Readers, Transfer(t)
    PROVE  ReadersInOrder'
<1> DEFINE l == task[t]
           r == asked[t]
           w == IF dev.st = "data" THEN Head(dev.left) ELSE Junk
           full == (Len(l.got) + 1) % SectorSize = 0
           g == Append(l.got, w)
           n == IF full THEN 0 ELSE l.tries
           s == IF full THEN l.sector + 1 ELSE l.sector
           p == IF ~full THEN "transfer" ELSE IF l.sector = l.last THEN "copy" ELSE "select"
           m == [l EXCEPT !.got = g, !.tries = n, !.sector = s, !.pc = p]
<1>1. /\ l \in LocalsType /\ r \in Requests /\ r # Nothing /\ BufferFits(r, l)
      /\ l.pc = "transfer"
  BY WhereReaders DEF LocalInv, Transfer, At, ReadPcs
<1>2. w \in Int
  BY HeadTailProperties DEF LocalInv, DriveInOrder, DriveType, Junk
<1>3. task' = [task EXCEPT ![t] = m] /\ UNCHANGED asked
  BY DEF Transfer, iface
<1> HIDE DEF l, r, w
<1>4. /\ l.got \in Seq(Int) /\ l.sector \in Nat /\ l.last \in Nat /\ l.tries \in 0 .. 1
      /\ Len(l.got) \in Nat
  BY <1>1 DEF LocalsType
<1>5. Append(l.got, w) \in Seq(Int) /\ Len(Append(l.got, w)) = Len(l.got) + 1
  BY <1>2, <1>4
<1>6. /\ m.got = Append(l.got, w) /\ m.last = l.last
      /\ m.sector = IF full THEN l.sector + 1 ELSE l.sector
      /\ m.pc = IF ~full THEN "transfer" ELSE IF l.sector = l.last THEN "copy" ELSE "select"
      /\ m \in LocalsType
  <2>1. g \in Seq(Int) /\ n \in 0 .. 1 /\ s \in Nat /\ p \in Pcs
    BY <1>4, <1>5 DEF Pcs, ReadPcs
  <2> HIDE DEF g, n, s, p, full
  <2>2. m \in LocalsType /\ m.got = g /\ m.sector = s /\ m.pc = p /\ m.last = l.last
    BY <1>1, <2>1 DEF LocalsType
  <2>. QED
    BY <2>2 DEF g, s, p
<1>7. BufferFits(r, m)
  <2>1. NextWord(r, m) = NextWord(r, l) + 1 /\ NextWord(r, l) = Base(r) + Len(l.got)
    BY <1>1, <1>4, <1>5, <1>6, RequestIs DEF NextWord
  <2>2. full <=> NextWord(r, l) + 1 = (l.sector + 1) * SectorSize
    BY <1>1, <1>4, <2>1, FullAtEnd DEF BufferFits
  <2>3. /\ (l.sector + 1) * SectorSize \in Nat /\ l.sector * SectorSize \in Nat
        /\ (l.sector + 2) * SectorSize = (l.sector + 1) * SectorSize + SectorSize
        /\ SectorSize \in Nat /\ SectorSize > 0
    <3> DEFINE b == l.sector
    <3>1. b \in Nat /\ b + 1 \in Nat /\ (b + 1) + 1 = b + 2 /\ SectorSize \in Nat /\ SectorSize > 0
      BY <1>4, AtaAssumption
    <3> HIDE DEF b
    <3>2. /\ b * SectorSize \in Nat /\ (b + 1) * SectorSize \in Nat
          /\ ((b + 1) + 1) * SectorSize = (b + 1) * SectorSize + SectorSize
      BY <3>1, SectorIs
    <3>. QED
      BY <3>1, <3>2 DEF b
  <2>4. NextWord(r, l) \in Nat
    BY <1>1, <1>4, <2>1, RequestIs, SMTT(30)
  <2>5. l.sector <= l.last /\ r.offset \div SectorSize <= l.sector /\ l.last = LastSector(r)
    BY <1>1 DEF BufferFits
  <2>6. l.sector * SectorSize <= NextWord(r, l) /\ NextWord(r, l) < (l.sector + 1) * SectorSize
    BY <1>1 DEF BufferFits
  <2>7. r.offset \div SectorSize \in Nat
    BY <1>1, RequestIs
  <2> HIDE DEF m, full
  <2>8. CASE ~full
    <3>1. m.pc = "transfer" /\ m.sector = l.sector /\ m.last = l.last
      BY <2>8, <1>6
    <3>2. NextWord(r, m) < (l.sector + 1) * SectorSize
      BY <2>8, <2>1, <2>2, <2>3, <2>4, <2>6
    <3>3. l.sector * SectorSize <= NextWord(r, m)
      BY <2>1, <2>3, <2>4, <2>6
    <3>. QED
      BY <3>1, <3>2, <3>3, <2>5 DEF BufferFits, ReadPcs
  <2>9. CASE full
    <3>1. m.sector = l.sector + 1 /\ m.last = l.last /\ m.sector + 1 = l.sector + 2
      BY <2>9, <1>4, <1>6
    <3>2. m.pc = IF l.sector = l.last THEN "copy" ELSE "select"
      BY <2>9, <1>6
    <3>3. NextWord(r, m) = m.sector * SectorSize
      BY <2>9, <2>1, <2>2, <3>1
    <3>4. NextWord(r, m) < (m.sector + 1) * SectorSize
      BY <3>1, <3>3, <2>3
    <3>5. m.sector * SectorSize <= NextWord(r, m)
      BY <2>1, <2>4, <3>3
    <3>6. r.offset \div SectorSize <= m.sector
      BY <1>4, <2>5, <2>7, <3>1
    <3>7. IF m.pc = "copy" THEN m.sector = m.last + 1 ELSE m.sector <= m.last
      BY <1>4, <2>5, <3>1, <3>2
    <3>. QED
      BY <3>1, <3>2, <3>3, <3>4, <3>5, <3>6, <3>7, <2>5 DEF BufferFits, ReadPcs
  <2>. QED
    BY <2>8, <2>9
<1>. QED
  <2>1. asked[t] # Nothing /\ BufferFits(asked[t], m)
    BY <1>1, <1>7 DEF r
  <2> HIDE DEF m
  <2>. QED
    BY <1>3, <1>6, <2>1, ReaderMoves DEF LocalInv

\* diskRead begins with an empty buffer.
LEMMA DiskReadKeeps ==
    ASSUME LocalInv, NEW t \in Readers, NEW r \in Requests, DiskRead(t, r)
    PROVE  ReadersInOrder'
<1> DEFINE l == [Locals EXCEPT !.pc = "select", !.sector = r.offset \div SectorSize,
                               !.last = LastSector(r)]
<1>1. /\ asked' = [asked EXCEPT ![t] = r] /\ task' = [task EXCEPT ![t] = l]
  BY DEF DiskRead, Promise!Ask
<1>2. /\ r.offset \div SectorSize \in Nat /\ LastSector(r) \in Nat /\ r # Nothing
      /\ r.offset \div SectorSize <= LastSector(r) /\ Base(r) \in Nat
  BY RequestIs
<1>3. /\ l.pc = "select" /\ l.sector = r.offset \div SectorSize /\ l.last = LastSector(r)
      /\ l.got = <<>> /\ l \in LocalsType
  <2>1. "select" \in Pcs /\ 0 \in 0 .. 1 /\ <<>> \in Seq(Int)
    BY DEF Pcs, ReadPcs
  <2>. QED
    BY <1>2, <2>1, LocalsAre DEF LocalsType
<1> HIDE DEF l
<1>4. BufferFits(r, l)
  <2>1. NextWord(r, l) = l.sector * SectorSize
    BY <1>2, <1>3 DEF NextWord, Base
  <2>2. /\ l.sector * SectorSize \in Nat
        /\ l.sector * SectorSize < (l.sector + 1) * SectorSize
    <3>1. /\ (l.sector + 1) * SectorSize = l.sector * SectorSize + SectorSize
          /\ l.sector * SectorSize \in Nat
      BY <1>2, <1>3, SectorIs
    <3>. QED
      BY <3>1, AtaAssumption
  <2>. QED
    BY <1>2, <1>3, <2>1, <2>2 DEF BufferFits, ReadPcs
<1>5. task' \in [Readers -> LocalsType] /\ asked' \in [Readers -> Requests \cup {Nothing}]
  BY <1>1, <1>3 DEF LocalInv, ReadersInOrder
<1>6. ASSUME NEW u \in Readers
      PROVE  IF asked'[u] = Nothing THEN task'[u].pc \in InitPcs \cup {"idle"}
             ELSE BufferFits(asked'[u], task'[u])
  <2>1. CASE u = t
    BY <2>1, <1>1, <1>2, <1>4 DEF LocalInv, ReadersInOrder
  <2>2. CASE u # t
    BY <2>2, <1>1 DEF LocalInv, ReadersInOrder
  <2>. QED
    BY <2>1, <2>2
<1>. QED
  BY <1>5, <1>6 DEF ReadersInOrder

\* A read ends, and its buffer is given back.
LEMMA EndKeeps ==
    ASSUME LocalInv, NEW t \in Readers, task' = [task EXCEPT ![t] = Locals],
           asked' = [asked EXCEPT ![t] = Nothing]
    PROVE  ReadersInOrder'
<1>1. Locals \in LocalsType /\ Locals.pc = "idle"
  BY LocalsAre
<1>2. task' \in [Readers -> LocalsType] /\ asked' \in [Readers -> Requests \cup {Nothing}]
  BY <1>1 DEF LocalInv, ReadersInOrder
<1>3. ASSUME NEW u \in Readers
      PROVE  IF asked'[u] = Nothing THEN task'[u].pc \in InitPcs \cup {"idle"}
             ELSE BufferFits(asked'[u], task'[u])
  <2>1. CASE u = t
    BY <2>1, <1>1 DEF LocalInv, ReadersInOrder
  <2>2. CASE u # t
    BY <2>2 DEF LocalInv, ReadersInOrder
  <2>. QED
    BY <2>1, <2>2
<1>. QED
  BY <1>2, <1>3 DEF ReadersInOrder

LEMMA SameDrive ==
    ASSUME DriveInOrder, UNCHANGED <<dev, drive, config>>
    PROVE  DriveInOrder'
  BY DEF DriveInOrder, TYPE_NONE, TYPE_ATA, TYPE_ATAPI

\* The drive's record changes, and its data are as its status says.
LEMMA DriveMoves ==
    ASSUME DriveInOrder, UNCHANGED <<drive, config>>, dev' \in DriveType,
           (dev'.st = "data") <=> (dev'.left # <<>>)
    PROVE  DriveInOrder'
  BY DEF DriveInOrder, TYPE_NONE, TYPE_ATA, TYPE_ATAPI

\* The drive gives up its data.
LEMMA DriveCleared ==
    ASSUME NEW d \in DriveType, NEW n, NEW st \in {"busy", "reset"},
           n = [d EXCEPT !.st = st, !.left = <<>>, !.err = FALSE]
    PROVE  n \in DriveType /\ n.st = st /\ n.left = <<>> /\ n.low = d.low /\ n.high = d.high
<1>1. ASSUME NEW left \in Seq(Int), NEW e \in BOOLEAN, n = [d EXCEPT !.st = st, !.left = left, !.err = e]
      PROVE  n \in DriveType /\ n.st = st /\ n.left = left /\ n.low = d.low /\ n.high = d.high
  BY <1>1 DEF DriveType
<1>2. <<>> \in Seq(Int) /\ FALSE \in BOOLEAN
  OBVIOUS
<1>. QED
  BY <1>1, <1>2

\* Every step keeps drive and readers in order.
LEMMA LocalStep ==
    ASSUME LocalInv, [Next]_vars
    PROVE  LocalInv'
<1>1. CASE UNCHANGED vars
  BY <1>1, SameDrive DEF vars, iface, LocalInv, ReadersInOrder
<1>2. CASE DriveData
  <2> DEFINE lba == dev.high * Low + dev.low
  <2>1. lba \in Nat
    BY AtaAssumption DEF LocalInv, DriveInOrder, DriveType
  <2>2. dev' = [dev EXCEPT !.st = "data", !.left = Sector(lba)]
    BY <1>2 DEF DriveData
  <2> HIDE DEF lba
  <2>3. dev' \in DriveType /\ dev'.st = "data" /\ dev'.left = Sector(lba)
    BY <2>1, <2>2, SectorIs DEF LocalInv, DriveInOrder, DriveType
  <2>4. DriveInOrder'
    BY <1>2, <2>1, <2>3, SectorIs, DriveMoves DEF LocalInv, DriveData
  <2>. QED
    BY <1>2, <2>4 DEF LocalInv, ReadersInOrder, DriveData, iface
<1>3. CASE DriveFails
  <2>1. dev' = [dev EXCEPT !.st = "ready", !.err = TRUE] /\ dev.left = <<>>
    BY <1>3 DEF DriveFails, LocalInv, DriveInOrder
  <2>2. dev' \in DriveType /\ dev'.st = "ready" /\ dev'.left = <<>>
    BY <2>1 DEF LocalInv, DriveInOrder, DriveType
  <2>3. DriveInOrder'
    BY <1>3, <2>2, DriveMoves DEF LocalInv, DriveFails
  <2>. QED
    BY <1>3, <2>3 DEF LocalInv, ReadersInOrder, DriveFails
<1>4. CASE DriveReset
  <2>1. dev' = [dev EXCEPT !.st = "ready"] /\ dev.left = <<>>
    BY <1>4 DEF DriveReset, LocalInv, DriveInOrder
  <2>2. dev' \in DriveType /\ dev'.st = "ready" /\ dev'.left = <<>>
    BY <2>1 DEF LocalInv, DriveInOrder, DriveType
  <2>3. DriveInOrder'
    BY <1>4, <2>2, DriveMoves DEF LocalInv, DriveReset
  <2>. QED
    BY <1>4, <2>3 DEF LocalInv, ReadersInOrder, DriveReset, iface
<1>5. CASE Halt
  BY <1>5, <1>1 DEF Halt
<1>6. ASSUME NEW t \in Readers, Poke(t)
      PROVE  LocalInv'
  <2>1. config' \in [0 .. 1 -> TYPE_NONE .. TYPE_ATAPI]
    BY <1>6 DEF Poke, TYPE_NONE, TYPE_UNKN, TYPE_ATAPI
  <2>2. DriveInOrder'
    BY <1>6, <2>1 DEF LocalInv, DriveInOrder, Poke
  <2>3. ReadersInOrder'
    BY <1>6, WhereReaders, GotoKeeps DEF Poke, At, LocalInv, InitPcs, ReadPcs, iface
  <2>. QED
    BY <2>2, <2>3 DEF LocalInv
<1>7. ASSUME NEW t \in Readers, SoftReset(t)
      PROVE  LocalInv'
  <2>1. PICK st \in {"busy", "reset"} :
               dev' = [dev EXCEPT !.st = st, !.left = <<>>, !.err = FALSE]
    BY <1>7 DEF SoftReset
  <2>2. DriveInOrder'
    <3>1. dev' \in DriveType /\ dev'.st = st /\ dev'.left = <<>>
      BY <2>1, DriveCleared DEF LocalInv, DriveInOrder
    <3>. QED
      BY <1>7, <2>1, <3>1, DriveMoves DEF LocalInv, SoftReset
  <2>3. ReadersInOrder'
    BY <1>7, WhereReaders, GotoKeeps DEF SoftReset, At, LocalInv, InitPcs, ReadPcs, iface
  <2>. QED
    BY <2>2, <2>3 DEF LocalInv
<1>8. ASSUME NEW t \in Readers, ResetWaits(t)
      PROVE  LocalInv'
  <2>1. ReadersInOrder'
    BY <1>8, WhereReaders, GotoKeeps DEF ResetWaits, At, LocalInv, InitPcs, ReadPcs, iface
  <2>. QED
    BY <1>8, <2>1, SameDrive DEF LocalInv, ResetWaits
<1>9. ASSUME NEW t \in Readers, Probe(t)
      PROVE  LocalInv'
  <2>1. config' \in [0 .. 1 -> TYPE_NONE .. TYPE_ATAPI]
    BY <1>9 DEF Probe, LocalInv, DriveInOrder, TYPE_NONE, TYPE_ATA, TYPE_ATAPI
  <2>2. DriveInOrder'
    BY <1>9, <2>1 DEF LocalInv, DriveInOrder, Probe
  <2>3. ReadersInOrder'
    BY <1>9, WhereReaders, GotoKeeps DEF Probe, At, LocalInv, InitPcs, ReadPcs, iface
  <2>. QED
    BY <2>2, <2>3 DEF LocalInv
<1>10. ASSUME NEW t \in Readers, Select(t) \/ Selected(t) \/ SelectTimeout(t)
       PROVE  LocalInv'
  <2>1. ReadersInOrder'
    BY <1>10, WhereReaders, GotoKeeps
       DEF Select, Selected, SelectTimeout, At, LocalInv, InitPcs, ReadPcs, iface
  <2>. QED
    BY <1>10, <2>1, SameDrive DEF LocalInv, Select, Selected, SelectTimeout
<1>11. ASSUME NEW t \in Readers, PrepareLow(t)
       PROVE  LocalInv'
  <2>1. CASE Block(t) >= MaxLba
    BY <1>11, <2>1, SameDrive DEF LocalInv, ReadersInOrder, PrepareLow, iface
  <2>2. CASE ~(Block(t) >= MaxLba)
    <3>1. dev' = [dev EXCEPT !.low = LowOf(task[t].sector)] /\ UNCHANGED <<drive, config>>
      BY <1>11, <2>2 DEF PrepareLow, Block, LowOf
    <3>2. LowOf(task[t].sector) \in Nat
      BY WhereReaders, LbaIs DEF LocalInv, LocalsType
    <3>3. DriveInOrder'
      BY <3>1, <3>2 DEF LocalInv, DriveInOrder, DriveType, TYPE_NONE, TYPE_ATA, TYPE_ATAPI
    <3>4. ReadersInOrder'
      BY <1>11, <2>2, WhereReaders, GotoKeeps DEF PrepareLow, At, LocalInv, InitPcs, ReadPcs, iface
    <3>. QED
      BY <3>3, <3>4 DEF LocalInv
  <2>. QED
    BY <2>1, <2>2
<1>12. ASSUME NEW t \in Readers, PrepareHigh(t)
       PROVE  LocalInv'
  <2>1. dev' = [dev EXCEPT !.high = HighOf(task[t].sector)] /\ UNCHANGED <<drive, config>>
    BY <1>12 DEF PrepareHigh, Block, HighOf
  <2>2. HighOf(task[t].sector) \in Nat
    BY WhereReaders, LbaIs DEF LocalInv, LocalsType
  <2>3. DriveInOrder'
    BY <2>1, <2>2 DEF LocalInv, DriveInOrder, DriveType, TYPE_NONE, TYPE_ATA, TYPE_ATAPI
  <2>4. ReadersInOrder'
    BY <1>12, WhereReaders, GotoKeeps DEF PrepareHigh, At, LocalInv, InitPcs, ReadPcs, iface
  <2>. QED
    BY <2>3, <2>4 DEF LocalInv
<1>13. ASSUME NEW t \in Readers, Command(t)
       PROVE  LocalInv'
  <2>1. DriveInOrder'
    <3>1. CASE BSY
      BY <1>13, <3>1, SameDrive DEF LocalInv, Command
    <3>2. CASE ~BSY
      <4>1. dev' = [dev EXCEPT !.st = "busy", !.left = <<>>, !.err = FALSE]
        BY <1>13, <3>2 DEF Command
      <4>2. dev' \in DriveType /\ dev'.st = "busy" /\ dev'.left = <<>>
        BY <4>1, DriveCleared DEF LocalInv, DriveInOrder
      <4>. QED
        BY <1>13, <4>2, DriveMoves DEF LocalInv, Command
    <3>. QED
      BY <3>1, <3>2
  <2>2. ReadersInOrder'
    BY <1>13, WhereReaders, GotoKeeps DEF Command, At, LocalInv, InitPcs, ReadPcs, iface
  <2>. QED
    BY <2>1, <2>2 DEF LocalInv
<1>14. ASSUME NEW t \in Readers, WaitReady(t) \/ WaitTimeout(t)
       PROVE  LocalInv'
  <2>1. ReadersInOrder'
    BY <1>14, WhereReaders, GotoKeeps
       DEF WaitReady, WaitTimeout, At, LocalInv, InitPcs, ReadPcs, iface
  <2>. QED
    BY <1>14, <2>1, SameDrive DEF LocalInv, WaitReady, WaitTimeout
<1>15. ASSUME NEW t \in Readers, Transfer(t)
       PROVE  LocalInv'
  <2>1. DriveInOrder'
    <3>1. CASE dev.st # "data"
      BY <1>15, <3>1, SameDrive DEF LocalInv, Transfer
    <3>2. CASE dev.st = "data"
      <4> DEFINE st == IF Len(dev.left) = 1 THEN "ready" ELSE "data"
      <4>1. dev' = [dev EXCEPT !.left = Tail(dev.left), !.st = st] /\ UNCHANGED <<drive, config>>
        BY <1>15, <3>2 DEF Transfer
      <4>2. dev.left \in Seq(Int) /\ dev.left # <<>>
        BY <3>2 DEF LocalInv, DriveInOrder, DriveType
      <4>3. Tail(dev.left) \in Seq(Int) /\ Len(Tail(dev.left)) = Len(dev.left) - 1
        BY <4>2, HeadTailProperties
      <4>4. (st = "data") <=> (Tail(dev.left) # <<>>)
        <5>1. Len(Tail(dev.left)) = 0 <=> Tail(dev.left) = <<>>
          BY <4>3, EmptySeq
        <5>2. Len(dev.left) \in Nat
          BY <4>2, LenProperties
        <5>. QED
          BY <4>3, <5>1, <5>2
      <4>5. st \in {"ready", "data"}
        OBVIOUS
      <4> HIDE DEF st
      <4>6. dev' \in DriveType /\ dev'.st = st /\ dev'.left = Tail(dev.left)
        BY <4>1, <4>3, <4>5 DEF LocalInv, DriveInOrder, DriveType
      <4>. QED
        BY <4>1, <4>4, <4>6, DriveMoves DEF LocalInv
    <3>. QED
      BY <3>1, <3>2
  <2>. QED
    BY <1>15, <2>1, TransferKeeps DEF LocalInv
<1>16. ASSUME NEW t \in Readers, Retry(t)
       PROVE  LocalInv'
  <2> DEFINE l == [task[t] EXCEPT !.pc = "select", !.tries = 1]
  <2>1. task[t] \in LocalsType /\ asked[t] # Nothing /\ BufferFits(asked[t], task[t])
        /\ task[t].pc = "failed"
    BY <1>16, WhereReaders DEF LocalInv, Retry, At, ReadPcs
  <2>2. /\ l \in LocalsType /\ l.pc = "select" /\ l.sector = task[t].sector
        /\ l.last = task[t].last /\ l.got = task[t].got
    <3>1. "select" \in Pcs /\ 1 \in 0 .. 1
      BY DEF Pcs, ReadPcs
    <3>. QED
      BY <2>1, <3>1 DEF LocalsType
  <2>3. task' = [task EXCEPT ![t] = l] /\ UNCHANGED asked
    BY <1>16 DEF Retry, iface
  <2> HIDE DEF l
  <2>4. BufferFits(asked[t], l)
    BY <2>1, <2>2 DEF BufferFits, NextWord, ReadPcs
  <2>5. ReadersInOrder'
    BY <2>1, <2>2, <2>3, <2>4, ReaderMoves DEF LocalInv
  <2>. QED
    BY <1>16, <2>5, SameDrive DEF LocalInv, Retry
<1>17. ASSUME NEW t \in Readers, GiveUp(t) \/ Copy(t)
       PROVE  LocalInv'
  <2>1. ReadersInOrder'
    BY <1>17, EndKeeps DEF GiveUp, Copy
  <2>. QED
    BY <1>17, <2>1, SameDrive DEF LocalInv, GiveUp, Copy
<1>18. ASSUME NEW t \in Readers, NEW r \in Requests, DiskRead(t, r)
       PROVE  LocalInv'
  BY <1>18, DiskReadKeeps, SameDrive DEF LocalInv, DiskRead
<1>. QED
  BY <1>1, <1>2, <1>3, <1>4, <1>5, <1>6, <1>7, <1>8, <1>9, <1>10, <1>11, <1>12, <1>13,
     <1>14, <1>15, <1>16, <1>17, <1>18 DEF Next, ReaderStep

\* Invariance for any number of readers: the drive has data exactly while some are
\* left, no attempt is counted twice, and no buffer of diskRead holds a whole
\* sector that was not asked for on either side.
THEOREM AtaTypeCorrect == Spec => []TypeOK
<1>1. Init => LocalInv
  BY InitLocal
<1>2. LocalInv /\ [Next]_vars => LocalInv'
  BY LocalStep
<1>3. LocalInv => TypeOK
  BY TypeFromLocal
<1>. QED
  BY <1>1, <1>2, <1>3, PTL DEF Spec

-----------------------------------------------------------------------------
(***************************************************************************)
(* A reader that is alone with the drive: boot(), or the only task.        *)
(***************************************************************************)
OneReader == Readers = {Boot}

LEMMA InitAlone == Init => AloneInv
<1>1. SUFFICES ASSUME Init
               PROVE  AloneInv
  OBVIOUS
<1>2. ~unsafe /\ config[0] = TYPE_NONE
  BY <1>1 DEF Init
<1>. QED
  BY <1>2 DEF AloneInv, TYPE_NONE, TYPE_ATA

\* What Goto leaves alone.
LEMMA GotoIs ==
    ASSUME ReadersInOrder, NEW t \in Readers, NEW pc, Goto(t, pc)
    PROVE  /\ task'[t].pc = pc /\ task'[t].sector = task[t].sector
           /\ task'[t].got = task[t].got /\ task'[t].last = task[t].last
  BY DEF Goto, ReadersInOrder, LocalsType

\* The buffer stays what is on the disk while no word is read.
LEMMA BufferKept ==
    ASSUME BufferIsDisk(asked[Boot], task[Boot]), UNCHANGED asked, driveErr \subseteq driveErr',
           task'[Boot].got = task[Boot].got, task'[Boot].pc # "transfer"
    PROVE  BufferIsDisk(asked[Boot], task[Boot])'
  BY DEF BufferIsDisk, FromDisk, Base

\* The reader goes where it neither owns the drive nor waits for it.
LEMMA Elsewhere ==
    ASSUME OneReader, ReadersInOrder, AloneInv,
           NEW pc \in {"select", "selected", "failed", "reset", "reset0"},
           task[Boot].pc # "idle", task'[Boot].pc = pc, task'[Boot].got = task[Boot].got,
           UNCHANGED <<drive, config, asked, driveErr>>, unsafe' => unsafe
    PROVE  AloneInv'
<1>1. asked[Boot] = Nothing => task[Boot].pc \in InitPcs
  BY WhereReaders DEF OneReader
<1>2. asked'[Boot] = Nothing => ~unsafe'
  BY <1>1 DEF AloneInv
<1>3. ASSUME config'[0] >= TYPE_ATA
      PROVE  /\ DriveIsOurs(task[Boot])'
             /\ asked'[Boot] # Nothing => BufferIsDisk(asked[Boot], task[Boot])'
  <2>1. config[0] >= TYPE_ATA
    BY <1>3 DEF TYPE_ATA
  <2>2. DriveIsOurs(task[Boot]) /\ (asked[Boot] # Nothing => BufferIsDisk(asked[Boot], task[Boot]))
    BY <2>1 DEF AloneInv
  <2>3. DriveIsOurs(task[Boot])'
    BY <2>2 DEF DriveIsOurs, TYPE_NONE
  <2>. QED
    BY <2>2, <2>3, BufferKept
<1>4. Nothing' = Nothing
  BY DEF Nothing, Promise!Nothing
<1>. QED
  BY <1>2, <1>3, <1>4 DEF AloneInv, TYPE_NONE, TYPE_ATA

\* The drive is ready and the reader owns its registers.
LEMMA Preparing ==
    ASSUME OneReader, ReadersInOrder, AloneInv,
           NEW pc \in {"low", "high", "command"}, task'[Boot].pc = pc,
           task'[Boot].got = task[Boot].got, asked[Boot] # Nothing,
           UNCHANGED <<drive, config, asked, driveErr>>,
           config[0] >= TYPE_ATA =>
               /\ ~unsafe' /\ dev'.st = "ready"
               /\ pc # "low" => /\ AsInt(task'[Boot].sector) < MaxLba
                                /\ dev'.low = LowOf(task'[Boot].sector)
               /\ pc = "command" => dev'.high = HighOf(task'[Boot].sector)
    PROVE  AloneInv'
<1>3. ASSUME config'[0] >= TYPE_ATA
      PROVE  /\ DriveIsOurs(task[Boot])'
             /\ asked'[Boot] # Nothing => BufferIsDisk(asked[Boot], task[Boot])'
  <2>1. config[0] >= TYPE_ATA
    BY <1>3 DEF TYPE_ATA
  <2>2. DriveIsOurs(task[Boot]) /\ (asked[Boot] # Nothing => BufferIsDisk(asked[Boot], task[Boot]))
    BY <2>1 DEF AloneInv
  <2>3. DriveIsOurs(task[Boot])'
    BY <2>1, <2>2 DEF DriveIsOurs, TYPE_NONE
  <2>. QED
    BY <2>2, <2>3, BufferKept
<1>4. Nothing' = Nothing
  BY DEF Nothing, Promise!Nothing
<1>. QED
  BY <1>3, <1>4 DEF AloneInv, TYPE_NONE, TYPE_ATA

LEMMA TailOfWords ==
    ASSUME NEW a \in Nat, NEW b \in Nat, a < b
    PROVE  /\ Head(Words(a, b)) = a
           /\ Tail(Words(a, b)) = Words(a + 1, b)
<1> DEFINE w == Words(a, b)
           v == Words(a + 1, b)
<1>1. /\ w \in Seq(Int) /\ Len(w) = b - a /\ \A i \in 1 .. b - a : w[i] = a + i - 1
  BY WordsAre
<1>2. /\ v \in Seq(Int) /\ Len(v) = b - (a + 1)
      /\ \A i \in 1 .. b - (a + 1) : v[i] = (a + 1) + i - 1
  <2>1. a + 1 \in Nat /\ a + 1 <= b
    OBVIOUS
  <2>. QED
    BY ONLY <2>1, b \in Nat, WordsAre
<1> HIDE DEF w, v
<1>3. w # <<>>
  BY <1>1
<1>4. Head(w) = w[1] /\ w[1] = a
  BY <1>1, <1>3
<1>5. /\ Tail(w) \in Seq(Int) /\ Len(Tail(w)) = Len(w) - 1
      /\ \A i \in 1 .. Len(Tail(w)) : Tail(w)[i] = w[i + 1]
  BY <1>1, <1>3, HeadTailProperties
<1>6. Tail(w) = v
  <2>1. Len(Tail(w)) = Len(v)
    BY <1>1, <1>2, <1>5
  <2>2. \A i \in 1 .. Len(Tail(w)) : Tail(w)[i] = v[i]
    BY <1>1, <1>2, <1>5
  <2>. QED
    BY <1>2, <1>5, <2>1, <2>2, SeqEqual
<1>. QED
  BY <1>4, <1>6 DEF w, v

\* One more word of the sector.
LEMMA TransferAlone ==
    ASSUME OneReader, LocalInv, AloneInv, Transfer(Boot)
    PROVE  AloneInv'
<1> DEFINE l == task[Boot]
           r == asked[Boot]
           w == IF dev.st = "data" THEN Head(dev.left) ELSE Junk
           full == (Len(l.got) + 1) % SectorSize = 0
           g == Append(l.got, w)
           n == IF full THEN 0 ELSE l.tries
           s == IF full THEN l.sector + 1 ELSE l.sector
           p == IF ~full THEN "transfer" ELSE IF l.sector = l.last THEN "copy" ELSE "select"
           m == [l EXCEPT !.got = g, !.tries = n, !.sector = s, !.pc = p]
<1>0. Boot \in Readers
  BY AtaAssumption
<1>1. /\ l \in LocalsType /\ r \in Requests /\ r # Nothing /\ BufferFits(r, l)
      /\ l.pc = "transfer"
  BY <1>0, WhereReaders DEF LocalInv, Transfer, At, ReadPcs
<1>2. task' = [task EXCEPT ![Boot] = m] /\ UNCHANGED <<asked, driveErr, drive, config, unsafe>>
  BY DEF Transfer, iface
<1>3. task'[Boot] = m
  BY <1>0, <1>2 DEF LocalInv, ReadersInOrder
<1>4. m.got = g /\ m.sector = s /\ m.pc = p
  <2> HIDE DEF g, n, s, p
  <2>. QED
    BY <1>1 DEF LocalsType
<1>5. /\ task'[Boot].got = Append(l.got, w) /\ asked'[Boot] = r
      /\ task'[Boot].pc \in {"transfer", "copy", "select"}
      /\ ~full => task'[Boot].sector = l.sector
      /\ task'[Boot].pc = "transfer" => ~full
  <2> HIDE DEF m, l, w, full
  <2>1. task'[Boot].got = g /\ task'[Boot].sector = s /\ task'[Boot].pc = p
    BY <1>3, <1>4
  <2>. QED
    BY <1>2, <2>1 DEF r
<1>6. /\ l.got \in Seq(Int) /\ l.sector \in Nat /\ Len(l.got) \in Nat
  BY <1>1 DEF LocalsType
<1>7. /\ dev.st # "data" => dev' = dev
      /\ dev.st = "data" => dev' = [dev EXCEPT !.left = Tail(dev.left),
                                       !.st = IF Len(dev.left) = 1 THEN "ready" ELSE "data"]
  BY DEF Transfer
<1> HIDE DEF m, g, n, s, p, l, r
<1>8. ASSUME config[0] >= TYPE_ATA
      PROVE  DriveIsOurs(task[Boot])' /\ BufferIsDisk(asked[Boot], task[Boot])'
  <2>1. DriveIsOurs(l) /\ BufferIsDisk(r, l)
    BY <1>1, <1>8 DEF AloneInv, l, r
  <2>2. DriveIsOurs(task[Boot])'
    BY <1>2, <1>5, <2>1 DEF DriveIsOurs, TYPE_NONE
  <2>3. ASSUME Boot \notin driveErr, LastSector(r) < MaxInt
        PROVE  /\ FromDisk(Append(l.got, w), Base(r))
               /\ ~full => /\ dev'.left = Words(Base(r) + Len(Append(l.got, w)),
                                                (l.sector + 1) * SectorSize)
                           /\ dev'.st = "data"
    <3> DEFINE a == NextWord(r, l)
               b == (l.sector + 1) * SectorSize
    <3>1. FromDisk(l.got, Base(r)) /\ dev.left = Words(a, b) /\ dev.st = "data"
      BY <1>1, <2>1, <2>3 DEF BufferIsDisk
    <3>2. a = Base(r) + Len(l.got) /\ a \in Nat /\ Base(r) \in Nat
      BY <1>1, <1>6, RequestIs DEF NextWord
    <3>3. b \in Nat /\ a < b
      BY <1>1, <1>6, SectorIs DEF BufferFits
    <3>4. full <=> (a + 1 = b)
      BY <1>1, <1>6, <3>2, FullAtEnd DEF BufferFits
    <3> HIDE DEF a, b, full
    <3>5. w = a
      BY <3>1, <3>2, <3>3, TailOfWords
    <3> HIDE DEF w
    <3>6. /\ Append(l.got, w) \in Seq(Int) /\ Len(Append(l.got, w)) = Len(l.got) + 1
          /\ \A i \in 1 .. Len(l.got) : Append(l.got, w)[i] = l.got[i]
          /\ Append(l.got, w)[Len(l.got) + 1] = w
      BY <1>6, <3>2, <3>5, AppendProperties
    <3>7. FromDisk(Append(l.got, w), Base(r))
      <4>1. ASSUME NEW i \in 1 .. Len(l.got) + 1
            PROVE  Append(l.got, w)[i] = Base(r) + i - 1
        <5>1. CASE i = Len(l.got) + 1
          BY <5>1, <1>6, <3>2, <3>5, <3>6
        <5>2. CASE i # Len(l.got) + 1
          <6>1. i \in 1 .. Len(l.got)
            BY <5>2, <1>6
          <6>. QED
            BY <6>1, <3>1, <3>6 DEF FromDisk
        <5>. QED
          BY <5>1, <5>2
      <4>. QED
        BY <4>1, <3>6 DEF FromDisk
    <3>8. ASSUME ~full
          PROVE  dev'.left = Words(a + 1, b) /\ dev'.st = "data"
      <4>0. a <= b
        BY <3>2, <3>3
      <4>1. Len(dev.left) = b - a /\ a + 1 # b
        BY <4>0, <3>1, <3>2, <3>3, <3>4, <3>8, WordsAre
      <4>2. Len(dev.left) # 1
        BY <4>1, <3>2, <3>3
      <4>3. dev' = [dev EXCEPT !.left = Tail(dev.left), !.st = "data"]
        BY <1>7, <3>1, <4>2
      <4>4. dev'.left = Tail(dev.left) /\ dev'.st = "data"
        BY <4>3 DEF LocalInv, DriveInOrder, DriveType
      <4>. QED
        BY <3>1, <3>2, <3>3, <4>4, TailOfWords
    <3>9. Base(r) + Len(Append(l.got, w)) = a + 1
      BY <1>6, <3>2, <3>6
    <3>. QED
      BY <3>7, <3>8, <3>9 DEF b
  <2>4. BufferIsDisk(asked[Boot], task[Boot])'
    BY <1>2, <1>5, <2>3 DEF BufferIsDisk, NextWord, FromDisk, Base, LastSector
  <2>. QED
    BY <2>2, <2>4
<1>9. asked'[Boot] # Nothing /\ config' = config
  BY <1>1, <1>2, <1>5 DEF r
<1>. QED
  BY <1>5, <1>8, <1>9 DEF AloneInv, TYPE_ATA, TYPE_NONE, InitPcs, Nothing, Promise!Nothing

\* The drive takes a step of its own.
LEMMA DriveAlone ==
    ASSUME OneReader, LocalInv, AloneInv, DriveData \/ DriveFails \/ DriveReset
    PROVE  AloneInv'
<1> DEFINE l == task[Boot]
<1>0. Boot \in Readers /\ dev \in DriveType /\ l \in LocalsType
  BY AtaAssumption, WhereReaders DEF LocalInv, DriveInOrder
<1>1. /\ UNCHANGED <<task, asked, drive, config, unsafe>> /\ driveErr \subseteq driveErr'
      /\ dev.st \in {"busy", "reset"}
  BY DEF DriveData, DriveFails, DriveReset, iface
<1>2. ASSUME config[0] >= TYPE_ATA
      PROVE  /\ DriveIsOurs(task[Boot])'
             /\ asked[Boot] # Nothing => BufferIsDisk(asked[Boot], task[Boot])'
  <2>1. DriveIsOurs(l) /\ (asked[Boot] # Nothing => BufferIsDisk(asked[Boot], l))
    BY <1>2 DEF AloneInv
  <2>2. asked[Boot] # Nothing => BufferIsDisk(asked[Boot], task[Boot])'
    BY <1>1, <2>1 DEF BufferIsDisk, FromDisk, Base
  <2>3. l.pc \notin {"low", "high", "command"}
    BY <1>1, <2>1 DEF DriveIsOurs
  <2>4. CASE l.pc # "wait"
    BY <1>1, <2>1, <2>2, <2>3, <2>4 DEF DriveIsOurs, TYPE_NONE
  <2>5. CASE l.pc = "wait"
    <3>1. dev.st = "busy" /\ dev.low = LowOf(l.sector) /\ dev.high = HighOf(l.sector)
      BY <1>1, <2>1, <2>5 DEF DriveIsOurs
    <3>2. CASE DriveData
      <4>1. dev' = [dev EXCEPT !.st = "data", !.left = Sector(dev.high * Low + dev.low)]
        BY <3>2 DEF DriveData
      <4>2. dev.high * Low + dev.low = Lba(l.sector)
        BY <3>1 DEF Lba
      <4>3. dev' = [dev EXCEPT !.st = "data", !.left = Sector(Lba(l.sector))]
        BY <4>1, <4>2
      <4>4. /\ dev'.st = "data" /\ dev'.left = Sector(Lba(l.sector))
            /\ dev'.low = dev.low /\ dev'.high = dev.high
        BY <1>0, <4>3 DEF DriveType
      <4>. QED
        BY <1>1, <2>1, <2>2, <2>5, <4>4 DEF DriveIsOurs, TYPE_NONE, Sector, Words
    <3>3. CASE DriveFails
      <4>1. dev' = [dev EXCEPT !.st = "ready", !.err = TRUE] /\ Boot \in driveErr'
        BY <1>0, <2>5, <3>3 DEF DriveFails, Waiting
      <4>2. dev'.st = "ready" /\ dev'.low = dev.low /\ dev'.high = dev.high
        BY <1>0, <4>1 DEF DriveType
      <4>. QED
        BY <1>1, <2>1, <2>2, <2>5, <4>1, <4>2 DEF DriveIsOurs, TYPE_NONE
    <3>4. CASE DriveReset
      BY <3>1, <3>4 DEF DriveReset
    <3>. QED
      BY <3>2, <3>3, <3>4
  <2>. QED
    BY <2>4, <2>5
<1>. QED
  BY <1>1, <1>2 DEF AloneInv, TYPE_NONE, TYPE_ATA, Nothing, Promise!Nothing

\* A read that begins has read nothing yet.
LEMMA DiskReadAlone ==
    ASSUME OneReader, LocalInv, AloneInv, NEW r \in Requests, DiskRead(Boot, r)
    PROVE  AloneInv'
<1> DEFINE l == [Locals EXCEPT !.pc = "select", !.sector = r.offset \div SectorSize,
                               !.last = LastSector(r)]
<1>0. Boot \in Readers
  BY AtaAssumption
<1>1. /\ asked'[Boot] = r /\ task'[Boot] = l /\ UNCHANGED <<dev, drive, config, unsafe>>
  BY <1>0 DEF DiskRead, Promise!Ask, LocalInv, ReadersInOrder
<1>2. l.pc = "select" /\ l.got = <<>>
  BY LocalsAre DEF LocalsType
<1>3. r # Nothing
  BY RequestIs
<1> HIDE DEF l
<1>4. ASSUME config[0] >= TYPE_ATA
      PROVE  DriveIsOurs(task[Boot])' /\ BufferIsDisk(asked[Boot], task[Boot])'
  <2>1. DriveIsOurs(task[Boot])
    BY <1>4 DEF AloneInv
  <2>2. DriveIsOurs(task[Boot])'
    BY <1>1, <1>2, <2>1 DEF DriveIsOurs, TYPE_NONE
  <2>3. BufferIsDisk(asked[Boot], task[Boot])'
    BY <1>1, <1>2 DEF BufferIsDisk, FromDisk
  <2>. QED
    BY <2>2, <2>3
<1>. QED
  BY <1>1, <1>2, <1>3, <1>4 DEF AloneInv, TYPE_NONE, TYPE_ATA, Nothing, Promise!Nothing

\* Every step of the only reader keeps what it knows of the drive.
LEMMA AloneStep ==
    ASSUME OneReader, LocalInv, AloneInv, [Next]_vars
    PROVE  AloneInv'
<1>0. /\ Boot \in Readers /\ \A t \in Readers : t = Boot
      /\ ReadersInOrder /\ dev \in DriveType /\ task[Boot] \in LocalsType
  BY AtaAssumption, WhereReaders DEF OneReader, LocalInv, DriveInOrder
<1> DEFINE same == UNCHANGED <<task, asked, driveErr, drive, dev, config, unsafe>>
<1>1. ASSUME same
      PROVE  AloneInv'
  BY <1>1 DEF AloneInv, DriveIsOurs, BufferIsDisk, FromDisk, Base, NextWord, Sector, Words,
              TYPE_NONE, TYPE_ATA, Nothing, Promise!Nothing
<1>2. CASE UNCHANGED vars \/ Halt
  BY <1>1, <1>2 DEF Halt, vars, iface
<1>3. CASE DriveData \/ DriveFails \/ DriveReset
  BY <1>3, DriveAlone
<1>4. CASE Poke(Boot)
  <2>1. asked[Boot] = Nothing /\ ~unsafe
    BY <1>0, <1>4, WhereReaders DEF Poke, At, AloneInv, InitPcs
  <2>2. config'[0] < TYPE_ATA /\ task'[Boot].pc = "reset" /\ UNCHANGED <<asked, unsafe>>
    BY <1>0, <1>4, GotoIs DEF Poke, iface, TYPE_NONE, TYPE_UNKN, TYPE_ATA
  <2>3. ~(config'[0] >= TYPE_ATA)
    BY <1>4, <2>2 DEF Poke, TYPE_NONE, TYPE_UNKN, TYPE_ATA
  <2>. QED
    BY <2>1, <2>2, <2>3 DEF AloneInv, TYPE_ATA
<1>5. CASE SoftReset(Boot)
  BY <1>0, <1>5, GotoIs, Elsewhere DEF SoftReset, At, iface
<1>6. CASE ResetWaits(Boot)
  <2>1. CASE asked[Boot] = Nothing
    <3>1. task'[Boot].pc = "probe" /\ UNCHANGED <<asked, driveErr, drive, dev, config, unsafe>>
      BY <1>0, <1>6, <2>1, GotoIs DEF ResetWaits, iface
    <3>2. ~unsafe
      BY <1>6, <2>1 DEF ResetWaits, At, AloneInv, InitPcs
    <3>. QED
      BY <2>1, <3>1, <3>2
         DEF AloneInv, DriveIsOurs, TYPE_NONE, TYPE_ATA, Nothing, Promise!Nothing
  <2>2. CASE asked[Boot] # Nothing
    BY <1>0, <1>6, <2>2, GotoIs, Elsewhere DEF ResetWaits, At, iface
  <2>. QED
    BY <2>1, <2>2
<1>7. CASE Probe(Boot)
  <2>1. asked[Boot] = Nothing /\ ~unsafe
    BY <1>0, <1>7, WhereReaders DEF Probe, At, AloneInv, InitPcs
  <2>2. task'[Boot].pc = "idle" /\ UNCHANGED <<asked, driveErr, drive, unsafe>>
    BY <1>0, <1>7, GotoIs DEF Probe, iface
  <2>3. config'[0] >= TYPE_ATA => drive[0] # TYPE_NONE
    BY <1>7 DEF Probe, AloneInv, DriveIsOurs, TYPE_NONE, TYPE_ATA
  <2>. QED
    BY <2>1, <2>2, <2>3 DEF AloneInv, DriveIsOurs, TYPE_NONE, TYPE_ATA, Nothing, Promise!Nothing
<1>8. CASE Select(Boot)
  <2>1. /\ UNCHANGED <<asked, driveErr, drive, dev, config>> /\ asked[Boot] # Nothing
        /\ task[Boot].pc = "select"
    BY <1>0, <1>8, WhereReaders DEF Select, At, ReadPcs, iface
  <2>2. CASE config[0] < TYPE_ATA
    <3>1. ~(config[0] >= TYPE_ATA)
      BY <2>2 DEF LocalInv, DriveInOrder, TYPE_NONE, TYPE_ATA, TYPE_ATAPI
    <3>2. Goto(Boot, "low")
      BY <1>8, <2>2 DEF Select
    <3>. QED
      BY <1>0, <2>1, <3>1, <3>2, GotoIs, Preparing
  <2>3. CASE ~(config[0] < TYPE_ATA)
    <3>1. Goto(Boot, "selected") /\ (unsafe' => unsafe)
      BY <1>8, <2>3 DEF Select, Selectable, WriteRegister
    <3>. QED
      BY <1>0, <2>1, <3>1, GotoIs, Elsewhere
  <2>. QED
    BY <2>2, <2>3
<1>9. CASE Selected(Boot)
  <2>1. /\ UNCHANGED <<asked, driveErr, drive, dev, config, unsafe>> /\ asked[Boot] # Nothing
        /\ Goto(Boot, "low")
    BY <1>0, <1>9, WhereReaders DEF Selected, At, ReadPcs, iface
  <2>2. dev.st = "ready"
    BY <1>0, <1>9 DEF Selected, Selectable, BSY, DRQ, DriveType
  <2>3. config[0] >= TYPE_ATA => ~unsafe
    BY DEF AloneInv, DriveIsOurs
  <2>. QED
    BY <1>0, <2>1, <2>2, <2>3, GotoIs, Preparing
<1>10. CASE SelectTimeout(Boot)
  BY <1>0, <1>10, GotoIs, Elsewhere DEF SelectTimeout, At, iface
<1>11. CASE PrepareLow(Boot)
  <2>1. CASE Block(Boot) >= MaxLba
    BY <1>1, <1>11, <2>1 DEF PrepareLow, iface
  <2>2. CASE ~(Block(Boot) >= MaxLba)
    <3>1. /\ UNCHANGED <<asked, driveErr, drive, config>> /\ asked[Boot] # Nothing
          /\ Goto(Boot, "high") /\ dev' = [dev EXCEPT !.low = LowOf(task[Boot].sector)]
          /\ task[Boot].pc = "low" /\ WriteRegister
      BY <1>0, <1>11, <2>2, WhereReaders DEF PrepareLow, Block, LowOf, At, ReadPcs, iface
    <3>2. /\ dev'.low = LowOf(task[Boot].sector) /\ dev'.st = dev.st
          /\ AsInt(task[Boot].sector) < MaxLba
      <4>1. AsInt(task[Boot].sector) \in Int /\ MaxLba \in Nat
        BY <1>0, LbaIs, AtaAssumption DEF LocalsType
      <4>2. ~(AsInt(task[Boot].sector) >= MaxLba)
        BY <2>2 DEF Block
      <4>. QED
        BY <1>0, <3>1, <4>1, <4>2 DEF DriveType
    <3>3. config[0] >= TYPE_ATA => ~unsafe' /\ dev.st = "ready"
      BY <3>1 DEF AloneInv, DriveIsOurs, WriteRegister, BSY
    <3>. QED
      BY <1>0, <3>1, <3>2, <3>3, GotoIs, Preparing
  <2>. QED
    BY <2>1, <2>2
<1>12. CASE PrepareHigh(Boot)
  <2>1. /\ UNCHANGED <<asked, driveErr, drive, config>> /\ asked[Boot] # Nothing
        /\ Goto(Boot, "command") /\ dev' = [dev EXCEPT !.high = HighOf(task[Boot].sector)]
        /\ task[Boot].pc = "high" /\ WriteRegister
    BY <1>0, <1>12, WhereReaders DEF PrepareHigh, Block, HighOf, At, ReadPcs, iface
  <2>2. dev'.high = HighOf(task[Boot].sector) /\ dev'.st = dev.st /\ dev'.low = dev.low
    BY <1>0, <2>1 DEF DriveType
  <2>3. config[0] >= TYPE_ATA =>
            /\ ~unsafe' /\ dev.st = "ready"
            /\ AsInt(task[Boot].sector) < MaxLba /\ dev.low = LowOf(task[Boot].sector)
    BY <2>1 DEF AloneInv, DriveIsOurs, WriteRegister, BSY
  <2>. QED
    BY <1>0, <2>1, <2>2, <2>3, GotoIs, Preparing
<1>13. CASE Command(Boot)
  <2>1. /\ UNCHANGED <<asked, driveErr, drive, config>> /\ asked[Boot] # Nothing
        /\ task[Boot].pc = "command" /\ WriteRegister
        /\ task'[Boot].pc = "wait" /\ task'[Boot].sector = task[Boot].sector
        /\ task'[Boot].got = task[Boot].got
    BY <1>0, <1>13, WhereReaders, GotoIs DEF Command, At, ReadPcs, iface
  <2>2. ASSUME config[0] >= TYPE_ATA
        PROVE  DriveIsOurs(task[Boot])' /\ BufferIsDisk(asked[Boot], task[Boot])'
    <3>1. /\ DriveIsOurs(task[Boot]) /\ BufferIsDisk(asked[Boot], task[Boot])
      BY <2>1, <2>2 DEF AloneInv
    <3>2. dev.st = "ready"
      BY <2>1, <3>1 DEF DriveIsOurs
    <3>3. dev' = [dev EXCEPT !.st = "busy", !.left = <<>>, !.err = FALSE]
      BY <1>13, <3>2 DEF Command, BSY
    <3>4. dev'.st = "busy" /\ dev'.low = dev.low /\ dev'.high = dev.high
      BY <1>0, <3>3, DriveCleared
    <3>5. ~unsafe'
      BY <2>1, <3>1, <3>2 DEF DriveIsOurs, WriteRegister, BSY
    <3>6. DriveIsOurs(task[Boot])'
      BY <2>1, <3>1, <3>4, <3>5 DEF DriveIsOurs, TYPE_NONE
    <3>. QED
      BY <2>1, <3>1, <3>6, BufferKept
  <2>. QED
    BY <2>1, <2>2 DEF AloneInv, TYPE_NONE, TYPE_ATA, InitPcs
<1>14. CASE WaitReady(Boot)
  <2>1. /\ UNCHANGED <<asked, driveErr, drive, dev, config, unsafe>> /\ asked[Boot] # Nothing
        /\ asked[Boot] \in Requests /\ BufferFits(asked[Boot], task[Boot])
        /\ task[Boot].pc = "wait" /\ dev.st \notin {"busy", "reset"}
        /\ task'[Boot].pc = "transfer" /\ task'[Boot].sector = task[Boot].sector
        /\ task'[Boot].got = task[Boot].got
    BY <1>0, <1>14, WhereReaders, GotoIs DEF WaitReady, At, ReadPcs, iface, BSY
  <2>2. ASSUME config[0] >= TYPE_ATA
        PROVE  DriveIsOurs(task[Boot])' /\ BufferIsDisk(asked[Boot], task[Boot])'
    <3>1. /\ DriveIsOurs(task[Boot]) /\ BufferIsDisk(asked[Boot], task[Boot])
      BY <2>1, <2>2 DEF AloneInv
    <3>2. DriveIsOurs(task[Boot])'
      BY <2>1, <3>1 DEF DriveIsOurs, TYPE_NONE
    <3>3. ASSUME Boot \notin driveErr, LastSector(asked[Boot]) < MaxInt
          PROVE  /\ dev.st = "data"
                 /\ dev.left = Words(NextWord(asked[Boot], task[Boot]),
                                     (task[Boot].sector + 1) * SectorSize)
      <4>0. dev.st = "data" /\ dev.left = Sector(Lba(task[Boot].sector))
            /\ AsInt(task[Boot].sector) < MaxLba
        BY <2>1, <3>1, <3>3 DEF DriveIsOurs
      <4>3. task[Boot].sector < MaxInt /\ task[Boot].sector \in Nat
        <5>1. task[Boot].sector \in Nat /\ MaxInt \in Nat /\ LastSector(asked[Boot]) \in Nat
          BY <1>0, <2>1, RequestIs, AtaAssumption DEF LocalsType
        <5>2. task[Boot].sector <= LastSector(asked[Boot])
          BY <2>1 DEF BufferFits
        <5>. QED
          BY <3>3, <5>1, <5>2
      <4>1. dev.st = "data" /\ dev.left = Sector(task[Boot].sector)
        BY <4>0, <4>3, LbaIs
      <4>2. NextWord(asked[Boot], task[Boot]) = task[Boot].sector * SectorSize
        BY <2>1 DEF BufferFits
      <4>. QED
        BY <4>1, <4>2 DEF Sector
    <3>4. BufferIsDisk(asked[Boot], task[Boot])'
      BY <2>1, <3>1, <3>3 DEF BufferIsDisk, FromDisk, Base, NextWord
    <3>. QED
      BY <3>2, <3>4
  <2>. QED
    BY <2>1, <2>2 DEF AloneInv, TYPE_NONE, TYPE_ATA, InitPcs
<1>15. CASE WaitTimeout(Boot)
  BY <1>0, <1>15, GotoIs, Elsewhere DEF WaitTimeout, At, iface
<1>16. CASE Transfer(Boot)
  BY <1>16, TransferAlone
<1>17. CASE Retry(Boot)
  <2>1. task' = [task EXCEPT ![Boot] = [task[Boot] EXCEPT !.pc = "select", !.tries = 1]]
    BY <1>17 DEF Retry
  <2>2. task'[Boot] = [task[Boot] EXCEPT !.pc = "select", !.tries = 1]
    BY <1>0, <2>1 DEF ReadersInOrder
  <2>3. task'[Boot].pc = "select" /\ task'[Boot].got = task[Boot].got
    BY <1>0, <2>2 DEF LocalsType
  <2>. QED
    BY <1>0, <1>17, <2>3, Elsewhere DEF Retry, At, iface
<1>18. CASE GiveUp(Boot) \/ Copy(Boot)
  <2>1. /\ task'[Boot].pc = "idle" /\ asked'[Boot] = Nothing
        /\ UNCHANGED <<driveErr, drive, dev, config, unsafe>>
    BY <1>0, <1>18, LocalsAre DEF GiveUp, Copy, ReadersInOrder
  <2>. QED
    BY <2>1 DEF AloneInv, DriveIsOurs, InitPcs, TYPE_NONE, TYPE_ATA, Nothing, Promise!Nothing
<1>19. ASSUME NEW r \in Requests, DiskRead(Boot, r)
       PROVE  AloneInv'
  BY <1>19, DiskReadAlone
<1>. QED
  BY <1>0, <1>2, <1>3, <1>4, <1>5, <1>6, <1>7, <1>8, <1>9, <1>10, <1>11, <1>12, <1>13,
     <1>14, <1>15, <1>16, <1>17, <1>18, <1>19 DEF Next, ReaderStep

LEMMA AloneInvariance ==
    ASSUME OneReader
    PROVE  Spec => []IInv
<1>1. Init => IInv
  BY InitLocal, InitAlone DEF IInv, Init, Promise!DiskInit
<1>2. IInv /\ [Next]_vars => IInv'
  <2>1. SUFFICES ASSUME IInv, [Next]_vars
                 PROVE  IInv'
    OBVIOUS
  <2>2. UNCHANGED answer \/ \E t \in Readers : GiveUp(t) \/ Copy(t)
    BY <2>1 DEF Next, ReaderStep, vars, iface, DriveData, DriveFails, DriveReset, Poke, SoftReset,
                ResetWaits, Probe, DiskRead, Promise!Ask, Select, Selected, SelectTimeout,
                PrepareLow, PrepareHigh, Command, WaitReady, WaitTimeout, Transfer, Retry, Halt
  <2>3. DOMAIN answer' = Readers
    BY <2>1, <2>2 DEF IInv, GiveUp, Copy
  <2>. QED
    BY <2>1, <2>3, LocalStep, AloneStep DEF IInv
<1>. QED
  BY <1>1, <1>2, PTL DEF Spec

\* For a reader that is alone with the drive: "If BSY is one, the device has
\* control of the register" (disk.cpp), and outside of a reset the driver writes no
\* register of an identified drive while it is busy, through every timeout, retry
\* and error, for every sector size and every address.
THEOREM RegistersOurs == OneReader => (Spec => []RegistersAreOurs)
<1>1. SUFFICES ASSUME OneReader
               PROVE  Spec => []RegistersAreOurs
  OBVIOUS
<1>2. Spec => []IInv
  BY <1>1, AloneInvariance
<1>3. IInv => RegistersAreOurs
  BY DEF IInv, AloneInv, DriveIsOurs, RegistersAreOurs
<1>. QED
  BY <1>2, <1>3, PTL

\* The bytes that are copied out of a buffer of whole sectors.
LEMMA CopyIsBytes ==
    ASSUME NEW r \in Requests, NEW g \in Seq(Int), FromDisk(g, Base(r)),
           Base(r) + Len(g) = (LastSector(r) + 1) * SectorSize
    PROVE  SubSeq(g, (r.offset % SectorSize) + 1, (r.offset % SectorSize) + r.count) = Bytes(r)
<1> DEFINE from == r.offset % SectorSize
           end == (LastSector(r) + 1) * SectorSize
           n == r.count
           o == r.offset
           b == Base(r)
<1>1. /\ from \in Nat /\ n \in Nat \ {0} /\ o \in Nat /\ b \in Nat /\ b + from = o
      /\ o + n <= end /\ LastSector(r) \in Nat
  BY RequestIs
<1>2. end \in Nat /\ b + Len(g) = end /\ Len(g) \in Nat
  <2>1. end \in Nat
    BY <1>1, SectorIs
  <2>2. Len(g) \in Nat
    BY LenProperties
  <2>. QED
    BY <2>1, <2>2
<1>3. \A i \in 1 .. Len(g) : g[i] = b + i - 1
  BY DEF FromDisk
<1>4. Bytes(r) = Words(o, o + n)
  BY DEF Bytes
<1> HIDE DEF from, end, n, o, b
<1> DEFINE c == SubSeq(g, from + 1, from + n)
           v == Words(o, o + n)
<1>5. from + n <= Len(g)
  BY <1>1, <1>2
<1>6. c \in Seq(Int) /\ Len(c) = n /\ \A i \in 1 .. n : c[i] = g[from + i]
  BY <1>1, <1>5
<1>7. v \in Seq(Int) /\ Len(v) = n /\ \A i \in 1 .. n : v[i] = o + i - 1
  <2> DEFINE k == o + n
  <2>1. o \in Nat /\ k \in Nat /\ o <= k /\ k - o = n
    BY <1>1
  <2> HIDE DEF k
  <2>2. /\ Words(o, k) \in Seq(Int) /\ Len(Words(o, k)) = k - o
        /\ \A i \in 1 .. k - o : Words(o, k)[i] = o + i - 1
    BY <2>1, WordsAre
  <2>. QED
    BY <2>1, <2>2 DEF k
<1> HIDE DEF c, v
<1>8. ASSUME NEW i \in 1 .. n
      PROVE  c[i] = v[i]
  <2>1. from + i \in 1 .. Len(g)
    BY <1>1, <1>2, <1>5
  <2>2. c[i] = b + (from + i) - 1
    BY <1>3, <1>6, <2>1
  <2>3. v[i] = o + i - 1
    BY <1>7
  <2>4. i \in Nat
    BY <1>1
  <2>. QED
    BY <1>1, <2>2, <2>3, <2>4
<1>9. c = v
  BY <1>1, <1>6, <1>7, <1>8, SeqEqual
<1>. QED
  BY <1>4, <1>9 DEF c, v, from, n

\* For a reader that is alone with an identified drive: every answer of diskRead to a
\* request whose last sector an int holds is the one that DiskReads promises, the
\* bytes that are on the disk where it was asked to read, or a failure, unless the
\* drive reported an error while the reader waited for it.  (From sector 2^31 on the
\* driver's check lets negative numbers pass, and it reads other sectors.)
THEOREM DriverKeepsPromise == OneReader => (Spec => KeepsPromise)
<1>1. SUFFICES ASSUME OneReader
               PROVE  Spec => KeepsPromise
  OBVIOUS
<1>2. Spec => []IInv
  BY <1>1, AloneInvariance
<1>3. ASSUME IInv, [Next]_vars, config[0] >= TYPE_ATA, NEW t \in Readers,
             asked[t] # Nothing, asked'[t] = Nothing, LastSector(asked[t]) < MaxInt
      PROVE  Promise!Answer(t, answer'[t])
  <2>1. t = Boot
    BY <1>1, <1>3 DEF OneReader
  <2>2. GiveUp(Boot) \/ Copy(Boot)
    BY <1>1, <1>3, <2>1
       DEF OneReader, Nothing, Next, ReaderStep, vars, iface, DriveData, DriveFails, DriveReset,
           Poke, SoftReset, ResetWaits, Probe, DiskRead, Promise!Ask, Select, Selected, SelectTimeout,
           PrepareLow, PrepareHigh, Command, WaitReady, WaitTimeout, Transfer, Retry, Halt
  <2>3. /\ ReadersInOrder /\ AloneInv /\ Boot \in DOMAIN answer /\ Boot \in Readers
    BY <1>3, <2>1 DEF IInv, LocalInv
  <2>4. CASE GiveUp(Boot)
    <3>1. asked[Boot] # Nothing
      BY <2>3, <2>4, WhereReaders DEF GiveUp, At, ReadPcs
    <3>2. answer' = [answer EXCEPT ![Boot] = Promise!Failure] /\ answer'[Boot] = Promise!Failure
      BY <2>3, <2>4 DEF GiveUp
    <3>. QED
      BY <2>1, <2>4, <3>1, <3>2 DEF GiveUp, Promise!Answer, Nothing
  <2>5. CASE Copy(Boot)
    <3> DEFINE r == asked[Boot]
               l == task[Boot]
               c == SubSeq(l.got, (r.offset % SectorSize) + 1, (r.offset % SectorSize) + r.count)
    <3>1. /\ r # Nothing /\ r \in Requests /\ BufferFits(r, l) /\ l.pc = "copy"
          /\ l \in LocalsType
      BY <2>3, <2>5, WhereReaders DEF Copy, At, ReadPcs
    <3>2. answer' = [answer EXCEPT ![Boot] = Promise!Success(c)]
      BY <2>5 DEF Copy
    <3> HIDE DEF c
    <3>3. answer'[Boot] = Promise!Success(c)
      BY <2>3, <3>2
    <3>4. Boot \in driveErr \/ c = Bytes(r)
      <4>1. SUFFICES ASSUME Boot \notin driveErr
                     PROVE  c = Bytes(r)
        OBVIOUS
      <4>2. FromDisk(l.got, Base(r))
        BY <1>3, <2>1, <2>3, <3>1, <4>1 DEF AloneInv, BufferIsDisk
      <4>3. l.got \in Seq(Int) /\ Base(r) + Len(l.got) = (LastSector(r) + 1) * SectorSize
        BY <3>1 DEF BufferFits, NextWord, LocalsType
      <4>. QED
        BY <3>1, <4>2, <4>3, CopyIsBytes DEF c
    <3>5. Promise!Success(c).ok
      BY DEF Promise!Success
    <3>6. asked' = [asked EXCEPT ![Boot] = Promise!Nothing] /\ UNCHANGED driveErr
      BY <2>5 DEF Copy, Nothing
    <3>. QED
      BY <2>1, <3>1, <3>2, <3>3, <3>4, <3>5, <3>6 DEF Promise!Answer, Nothing
  <2>. QED
    BY <2>2, <2>4, <2>5
<1>4. IInv /\ [Next]_vars =>
        [config[0] >= TYPE_ATA =>
           \A t \in Readers :
              /\ asked[t] # Nothing /\ asked'[t] = Nothing
              /\ LastSector(asked[t]) < MaxInt
              => Promise!Answer(t, answer'[t])]_vars
  BY <1>3
<1>. QED
  BY <1>2, <1>4, PTL DEF Spec, KeepsPromise

=============================================================================
