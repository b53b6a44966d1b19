--------------------------- MODULE ConsoleProofs ---------------------------
(***************************************************************************)
(* Proofs about the console's two halves, whose models share no state: the *)
(* keyboard driver, for any number of tasks, any sizes and any bound on    *)
(* the keys, and the text screen with its log, for every size of the       *)
(* screen and every length of the log.                                     *)
(***************************************************************************)
EXTENDS Keyboard, Screen, WellFoundedInduction, SequenceTheorems, TLAPS

-----------------------------------------------------------------------------
(***************************************************************************)
(* The keyboard driver.                                                    *)
(***************************************************************************)
\* What is inductive behind RequestIsArmed.  Whoever took the lock last is still
\* about to store ubuf, or ubuf is stored and unlock(), which would clear it,
\* clears the lock as well; and the same for stop.
SomebodyArms ==
    /\ ilock => ubuf # NullPtr \/ \E t \in Tasks : pc[t] = "ubuf"
    /\ ilock => stop # -2 \/ \E t \in Tasks : Arming(t)

IInv == TypeOK /\ SomebodyArms

\* No size that nget is called with turns into -2, "not reading", in stop.
LEMMA SizesArm == \A n \in Requests \cup {0} : AsInt(n) \in Int /\ AsInt(n) # -2
BY SizesAssumption DEF Requests, Scan, AsInt

\* What unlock() stores is of the right type.
LEMMA IdleTypes ==
    FALSE \in BOOLEAN /\ NullPtr \in Tasks \cup {NullPtr} /\ 0 \in 0 .. MaxKeys /\ -2 \in Int
BY KeysAssumption

\* The state the driver is in when the system starts.
LEMMA InitArms == Init => IInv
<1> SUFFICES ASSUME Init PROVE IInv
    OBVIOUS
<1>1. ram \in [Tasks -> [Tasks -> [Cells -> Keys \cup {NUL, Junk}]]]
    BY DEF Init, Untouched
<1>2. typed \in [Tasks -> Seq(Keys)]
    BY DEF Init
<1>3. TypeOK
    BY <1>1, <1>2, IdleTypes DEF Init, TypeOK
<1> QED BY <1>3 DEF Init, IInv, SomebodyArms

\* The lock passes from hand to hand without a request being forgotten.
LEMMA StepArms == IInv /\ [Next]_vars => IInv'
<1> SUFFICES ASSUME IInv, [Next]_vars PROVE IInv'
    OBVIOUS
<1> USE DEF IInv, TypeOK
<1>1. ASSUME NEW t \in Tasks, NEW n \in Requests, Call(t, n) PROVE IInv'
  <2>1. ram' \in [Tasks -> [Tasks -> [Cells -> Keys \cup {NUL, Junk}]]]
      BY <1>1 DEF Call, Untouched
  <2>2. TypeOK'
      BY <1>1, <2>1 DEF Call, At, Goto, driver
  <2>3. SomebodyArms'
      BY <1>1 DEF Call, At, Goto, driver, SomebodyArms, Arming
  <2> QED BY <2>2, <2>3
<1>2. ASSUME NEW t \in Tasks, Step(t) PROVE IInv'
  <2>1. CASE TestLock(t)
      BY <2>1 DEF TestLock, At, Goto, driver, SomebodyArms, Arming
  <2>2. CASE TakeLock(t)
      BY <2>2 DEF TakeLock, At, Goto, SomebodyArms, Arming
  <2>3. CASE SetUbuf(t)
    <3>1. TypeOK'
        BY <2>3 DEF SetUbuf, At, Goto
    <3>2. ubuf' # NullPtr /\ pc'[t] = "pos"
        BY <2>3, KeysAssumption DEF SetUbuf, Goto
    <3> QED BY <3>1, <3>2 DEF SomebodyArms, Arming
  <2>4. CASE SetPos(t)
      BY <2>4, KeysAssumption DEF SetPos, At, Goto, SomebodyArms, Arming
  <2>5. CASE SetStop(t)
    <3>1. stop' \in Int /\ stop' # -2
        BY <2>5, SizesArm DEF SetStop
    <3>2. TypeOK'
        BY <2>5, <3>1 DEF SetStop, At, Goto
    <3> QED BY <2>5, <3>1, <3>2 DEF SetStop, At, Goto, SomebodyArms
  <2>6. CASE AwaitUnlock(t)
      BY <2>6 DEF AwaitUnlock, At, Goto, driver, SomebodyArms, Arming
  <2> QED BY <1>2, <2>1, <2>2, <2>3, <2>4, <2>5, <2>6 DEF Step
<1>3. ASSUME NEW t \in Tasks, ExitTask(t) PROVE IInv'
    BY <1>3 DEF ExitTask, At, driver, SomebodyArms, Arming
<1>4. CASE KeyEndsCall
  <2>1. TypeOK'
      BY <1>4, IdleTypes DEF KeyEndsCall, unlock
  <2>2. ~ilock'
      BY <1>4 DEF KeyEndsCall, unlock
  <2> QED BY <2>1, <2>2 DEF SomebodyArms
<1>5. ASSUME NEW c \in Keys, KeyFaults(c) PROVE IInv'
    BY <1>5 DEF KeyFaults, driver, SomebodyArms, Arming
<1>6. ASSUME NEW c \in Keys, KeyTaken(c) PROVE IInv'
  <2>1. ubuf \in Tasks /\ stop # -2 /\ stop # 0
      BY <1>6 DEF KeyTaken, Active
  <2>2. \A b \in [Cells -> Keys \cup {NUL, Junk}] :
            Stored(b, c) \in [Cells -> Keys \cup {NUL, Junk}]
      BY DEF Stored
  <2>3. ram' \in [Tasks -> [Tasks -> [Cells -> Keys \cup {NUL, Junk}]]]
      BY <1>6, <2>1, <2>2 DEF KeyTaken
  <2>4. typed' \in [Tasks -> Seq(Keys)]
      BY <1>6, <2>1 DEF KeyTaken
  <2>5. UNCHANGED <<pc, size, current, halted>>
      BY <1>6 DEF KeyTaken
  <2>6. c # NL => pos < MaxKeys
      BY <1>6 DEF KeyTaken
  <2>7. CASE c = NL \/ stop = 1
    <3>1. unlock
        BY <1>6, <2>7 DEF KeyTaken, Advance
    <3>2. TypeOK'
        BY <2>3, <2>4, <2>5, <3>1, IdleTypes DEF unlock
    <3>3. ~ilock'
        BY <3>1 DEF unlock
    <3> QED BY <3>2, <3>3 DEF SomebodyArms
  <2>8. CASE ~(c = NL \/ stop = 1)
    <3>1. /\ pos' \in 0 .. MaxKeys
          /\ stop' \in Int /\ stop' # -2
          /\ UNCHANGED <<ilock, ubuf>>
        BY <1>6, <2>1, <2>6, <2>8, KeysAssumption DEF KeyTaken, Advance
    <3>2. TypeOK'
        BY <2>3, <2>4, <2>5, <3>1
    <3>3. SomebodyArms'
        BY <2>5, <3>1 DEF SomebodyArms
    <3> QED BY <3>2, <3>3
  <2> QED BY <2>7, <2>8
<1>7. CASE Schedule
    BY <1>7 DEF Schedule, Alive, driver, SomebodyArms, Arming
<1>8. CASE UNCHANGED vars
    BY <1>8 DEF vars, SomebodyArms, Arming
<1> QED BY <1>1, <1>2, <1>3, <1>4, <1>5, <1>6, <1>7, <1>8 DEF Next

\* The inductive invariant holds in every reachable state.
LEMMA Arms == Spec => []IInv
BY InitArms, StepArms, PTL DEF Spec

\* Type correctness of the driver, whatever the tasks and the keys do.
THEOREM KeyboardTypes == Spec => []TypeOK
BY Arms, PTL DEF IInv

\* However many tasks race for Keyboard::ilock, a task that waits in nget or
\* scan waits for keys that input() takes.
THEOREM ArmedRequests == Spec => []RequestIsArmed
<1>1. IInv => RequestIsArmed
    BY DEF IInv, SomebodyArms, RequestIsArmed, Active, Arming
<1> QED BY Arms, <1>1, PTL

-----------------------------------------------------------------------------
(***************************************************************************)
(* The bytes that a request writes, for a task that reads alone.           *)
(***************************************************************************)

\* Nobody else uses the keyboard.
Alone == \E t : Tasks = {t}

\* And no size is so large that "stop = n" makes it negative.
ReadsAlone == Alone /\ Sizes \subseteq 0 .. IntMax

\* Before "stop = n" is executed, and after unlock(), input() takes no key and
\* writes start at 0.
Waits(t) ==
    /\ pc[t] # "wait" => stop = -2
    /\ stop # -2 \/ Arming(t) => ilock
    /\ stop = -2 => pos = 0

\* In between, the characters left and the position together do not exceed the size.
WithinSize(t) ==
    /\ Waits(t)
    /\ stop # -2 /\ size[t] # Scan => stop >= 0 /\ pos + stop <= size[t]
    /\ size[t] # Scan => \A i \in Cells : i > size[t] => ram[t][t][i] = Junk

\* No request is open when the system starts.
LEMMA WithinSizeInit == Init => \A t \in Tasks : WithinSize(t)
BY DEF Init, WithinSize, Waits, Untouched, Arming

\* Sizes are integers, and those that nget is called with are not changed by the
\* conversion.
LEMMA SizesAre ==
    \A n \in Requests \cup {0} :
        n \in Int /\ (ReadsAlone /\ n # Scan => AsInt(n) = n /\ n >= 0)
<1> SUFFICES ASSUME NEW n \in Requests \cup {0}
             PROVE  n \in Int /\ (ReadsAlone /\ n # Scan => AsInt(n) = n /\ n >= 0)
    OBVIOUS
<1>1. n \in Int /\ IntMax \in Nat
    BY SizesAssumption DEF Requests, Scan
<1>2. ReadsAlone /\ n # Scan => n \in 0 .. IntMax
    BY SizesAssumption DEF Requests, ReadsAlone
<1> QED BY <1>1, <1>2 DEF AsInt

\* A key that is stored goes to a cell that the request has counted.
LEMMA WithinSizeStep ==
    ASSUME ReadsAlone, NEW t, Tasks = {t}, IInv, WithinSize(t), [Next]_vars
    PROVE  WithinSize(t)'
<1> USE DEF IInv, TypeOK, Arming, Waits
<1>0. size[t] \in Requests \cup {0} /\ size[t] \in Int
  BY SizesAre
<1>1. ASSUME NEW n \in Requests, Call(t, n) PROVE WithinSize(t)'
  <2>1. /\ stop = -2 /\ UNCHANGED driver /\ size'[t] = n /\ ram'[t][t] = Untouched
        /\ pc'[t] = "test"
      BY <1>1 DEF Call, At, Goto, driver, WithinSize
  <2> QED BY <2>1 DEF WithinSize, Untouched, driver
<1>2. CASE SetStop(t)
  <2>1. /\ stop' = AsInt(size[t]) /\ UNCHANGED <<ilock, pos, size, ram>> /\ pc'[t] = "wait"
        /\ pos = 0 /\ ilock
      BY <1>2 DEF SetStop, At, Goto, WithinSize
  <2>2. size[t] # Scan => AsInt(size[t]) = size[t] /\ size[t] >= 0 /\ size[t] \in Int
      BY <1>0, SizesAre
  <2>3. AsInt(size[t]) # -2
      BY <1>0, SizesArm
  <2> QED BY <2>1, <2>2, <2>3 DEF WithinSize
<1>3. CASE TestLock(t) \/ TakeLock(t) \/ SetUbuf(t) \/ SetPos(t) \/ AwaitUnlock(t) \/ ExitTask(t)
  BY <1>3 DEF TestLock, TakeLock, SetUbuf, SetPos, AwaitUnlock, ExitTask, At, Goto, driver,
              WithinSize
<1>4. CASE KeyEndsCall
  BY <1>4 DEF KeyEndsCall, unlock, Active, WithinSize
<1>5. CASE UNCHANGED <<driver, pc, size, ram>>
  BY <1>5 DEF driver, WithinSize
<1>6. ASSUME NEW c \in Keys, KeyTaken(c) PROVE WithinSize(t)'
  <2>1. /\ ubuf = t /\ stop # -2 /\ stop # 0 /\ stop \in Int /\ pc[t] = "wait" /\ ilock
        /\ UNCHANGED <<pc, size>> /\ pos \in Nat
      BY <1>6 DEF KeyTaken, Active, WithinSize
  <2>2. ASSUME size[t] # Scan, NEW i \in Cells, i > size[t] PROVE ram'[t][t][i] = Junk
    <3>1. pos + 1 <= size[t] /\ size[t] \in Int /\ i \in Int
        BY <1>0, <2>1, <2>2, KeysAssumption DEF WithinSize, Cells
    <3>2. i # 0 /\ i # pos /\ i # pos + 1
        BY <2>1, <2>2, <3>1
    <3>3. ram[t][t][i] = Junk /\ ram[t][t] \in [Cells -> Keys \cup {NUL, Junk}]
        BY <2>2 DEF WithinSize
    <3>4. Stored(ram[t][t], c)[i] = Junk
        BY <2>2, <3>2, <3>3 DEF Stored
    <3>5. ram'[t][t] \in {ram[t][t], Stored(ram[t][t], c)}
        BY <1>6, <2>1 DEF KeyTaken
    <3> QED BY <3>3, <3>4, <3>5
  <2>3. CASE c = NL \/ stop = 1
    <3>1. unlock
        BY <1>6, <2>3 DEF KeyTaken, Advance
    <3> QED BY <2>1, <2>2, <3>1 DEF unlock, WithinSize
  <2>4. CASE ~(c = NL \/ stop = 1)
    <3>1. /\ pos' = IF c # BS THEN pos + 1 ELSE IF pos = 0 THEN 0 ELSE pos - 1
          /\ stop' = IF stop < 0 THEN stop ELSE stop - 1
          /\ ilock' = ilock
        BY <1>6, <2>4 DEF KeyTaken, Advance
    <3>2. stop' # -2
        BY <2>1, <2>4, <3>1
    <3>3. size[t] # Scan => stop' >= 0 /\ pos' + stop' <= size[t]
        <4> SUFFICES ASSUME size[t] # Scan PROVE stop' >= 0 /\ pos' + stop' <= size[t]
            OBVIOUS
        <4>1. stop >= 0 /\ pos + stop <= size[t] /\ size[t] \in Int
            BY <1>0, <2>1 DEF WithinSize
        <4> QED BY <2>1, <3>1, <4>1
    <3> QED BY <2>1, <2>2, <3>1, <3>2, <3>3 DEF WithinSize
  <2> QED BY <2>3, <2>4
<1> QED
  BY <1>1, <1>2, <1>3, <1>4, <1>5, <1>6
  DEF Next, Step, KeyFaults, Schedule, vars, driver

\* "Read a line of max n characters, not counting the '\0'" (keyboard.h): when one
\* task reads, nget(buf, n) writes at most n + 1 bytes, whatever is typed and rubbed
\* out.
THEOREM ReadsWithinBuffer == ReadsAlone => (Spec => []WritesAtMostNAndNul)
<1> SUFFICES ASSUME ReadsAlone PROVE Spec => []WritesAtMostNAndNul
    OBVIOUS
<1> DEFINE Inv == \A t \in Tasks : WithinSize(t)
<1>1. Init => Inv
    BY WithinSizeInit
<1>2. IInv /\ Inv /\ [Next]_vars => Inv'
  <2> SUFFICES ASSUME IInv, Inv, [Next]_vars PROVE Inv'
      OBVIOUS
  <2>1. PICK t : Tasks = {t}
      BY DEF ReadsAlone, Alone
  <2>2. WithinSize(t)'
      BY <2>1, WithinSizeStep
  <2> QED BY <2>1, <2>2
<1>3. Inv => WritesAtMostNAndNul
    BY DEF WithinSize, WritesAtMostNAndNul
<1> QED BY <1>1, <1>2, <1>3, Arms, PTL DEF Spec

-----------------------------------------------------------------------------
(***************************************************************************)
(* The text that keys stand for.  A function that is defined by recursion  *)
(* on 0 .. n exists: the shortest one that does not could be extended.     *)
(***************************************************************************)
\* Every nonempty set of numbers has a least one.
LEMMA HasLeast ==
    ASSUME NEW S \in SUBSET Nat, S # {}
    PROVE  \E m \in S : \A n \in S : m <= n
<1>1. PICK m \in S : \A n \in S : ~(<<n, m>> \in OpToRel(<, Nat))
  BY NatLessThanWellFounded, WFMin
<1>2. ASSUME NEW n \in S PROVE m <= n
  <2>1. m \in Nat /\ n \in Nat
    OBVIOUS
  <2>2. ~(n < m)
    BY <1>1, <2>1 DEF OpToRel
  <2>. QED
    BY <2>1, <2>2
<1>. QED
  BY <1>2

\* f[i] is what the first i of the functions G make of b, one after the other.
Iterates(f, n, S, b, G) ==
    f \in [0 .. n -> S] /\ f[0] = b /\ \A i \in 1 .. n : f[i] = G[i][f[i - 1]]

LEMMA OneMore ==
    ASSUME NEW n \in Nat, NEW S, NEW b, NEW G \in [1 .. n -> [S -> S]],
           NEW m \in 1 .. n, NEW f, Iterates(f, m - 1, S, b, G)
    PROVE  \E g : Iterates(g, m, S, b, G)
<1> DEFINE x == G[m][f[m - 1]]
           g == [i \in 0 .. m |-> IF i = m THEN x ELSE f[i]]
<1>1. m \in Nat /\ m - 1 \in Nat /\ m # 0 /\ f \in [0 .. m - 1 -> S] /\ f[0] = b
  BY DEF Iterates
<1>2. f[m - 1] \in S
  BY <1>1
<1>3. x \in S
  BY <1>2
<1>4. \A i \in 1 .. m - 1 : f[i] = G[i][f[i - 1]]
  BY DEF Iterates
<1>5. G[m][f[m - 1]] = x
  OBVIOUS
<1> HIDE DEF x
<1>6. g \in [0 .. m -> S] /\ g[0] = b
  BY <1>1, <1>3
<1>7. ASSUME NEW i \in 1 .. m PROVE g[i] = G[i][g[i - 1]]
  <2>1. CASE i = m
    <3>1. g[i] = x /\ g[i - 1] = f[m - 1]
      BY <1>1, <2>1
    <3>. QED
      BY <1>5, <2>1, <3>1
  <2>2. CASE i # m
    <3>1. g[i] = f[i] /\ g[i - 1] = f[i - 1] /\ i \in 1 .. m - 1
      BY <1>1, <2>2
    <3>. QED
      BY <1>4, <3>1
  <2>. QED
    BY <2>1, <2>2
<1>. QED
  BY <1>6, <1>7 DEF Iterates

LEMMA IterationExists ==
    ASSUME NEW n \in Nat, NEW S, NEW b \in S, NEW G \in [1 .. n -> [S -> S]]
    PROVE  \E f : Iterates(f, n, S, b, G)
<1> DEFINE Bad == {m \in 0 .. n : \A f : ~Iterates(f, m, S, b, G)}
<1>0. n \in 0 .. n
  OBVIOUS
<1> SUFFICES ASSUME Bad # {} PROVE FALSE
  BY <1>0
<1>1. PICK m \in Bad : \A k \in Bad : m <= k
  <2>1. Bad \in SUBSET Nat
    OBVIOUS
  <2> HIDE DEF Bad
  <2>. QED
    BY <2>1, HasLeast
<1>2. m \in 0 .. n /\ \A f : ~Iterates(f, m, S, b, G)
  OBVIOUS
<1>3. ASSUME NEW k \in 0 .. n, k < m PROVE \E f : Iterates(f, k, S, b, G)
  <2>1. k \notin Bad
    BY <1>1, <1>3
  <2>. QED
    BY <2>1
<1> HIDE DEF Bad
<1>4. CASE m = 0
  <2>1. Iterates([i \in 0 .. 0 |-> b], 0, S, b, G)
    BY DEF Iterates
  <2>. QED
    BY <1>2, <1>4, <2>1
<1>5. CASE m # 0
  <2>1. m \in 1 .. n /\ m - 1 \in 0 .. n /\ m - 1 < m
    BY <1>2, <1>5
  <2>2. PICK f : Iterates(f, m - 1, S, b, G)
    BY <1>3, <2>1
  <2>. QED
    BY <1>2, <2>1, <2>2, OneMore
<1>. QED
  BY <1>4, <1>5

\* What one key does to a text, as a function.
Editor(keys) == [i \in 1 .. Len(keys) |-> [s \in Seq(Keys) |-> Edit(s, keys[i])]]

\* A text from which the last character is rubbed out.
LEMMA FrontIs ==
    ASSUME NEW S, NEW s \in Seq(S), s # <<>>
    PROVE  /\ Len(s) \in Nat \ {0} /\ Front(s) \in Seq(S) /\ Len(Front(s)) = Len(s) - 1
           /\ \A i \in 1 .. Len(s) - 1 : Front(s)[i] = s[i]
<1> DEFINE n == Len(s)
           r == SubSeq(s, 1, n - 1)
<1>1. n \in Nat \ {0} /\ \A i \in 1 .. n : s[i] \in S
  BY EmptySeq, ElementOfSeq
<1>2. 1 \in Int /\ n - 1 \in Int /\ \A i \in 1 .. n - 1 : s[i] \in S
  BY <1>1
<1> HIDE DEF n
<1>3. /\ r \in Seq(S)
      /\ Len(r) = IF 1 <= n - 1 THEN (n - 1) - 1 + 1 ELSE 0
      /\ \A i \in 1 .. (n - 1) - 1 + 1 : r[i] = s[1 + i - 1]
  BY <1>2, SubSeqProperties
<1> HIDE DEF r
<1>4. Len(r) = n - 1 /\ (n - 1) - 1 + 1 = n - 1
  BY <1>1, <1>3
<1>5. \A i \in 1 .. n - 1 : 1 + i - 1 = i
  BY <1>1
<1>6. \A i \in 1 .. n - 1 : r[i] = s[i]
  BY <1>3, <1>4, <1>5
<1>. QED
  BY <1>1, <1>3, <1>4, <1>6, Zenon DEF Front, r, n

LEMMA EditType ==
    ASSUME NEW s \in Seq(Keys), NEW c \in Keys
    PROVE  Edit(s, c) \in Seq(Keys)
<1>1. s # <<>> => Front(s) \in Seq(Keys)
  BY FrontIs
<1>. QED
  BY <1>1 DEF Edit

LEMMA EditorIs ==
    ASSUME NEW keys \in Seq(Keys)
    PROVE  /\ Editor(keys) \in [1 .. Len(keys) -> [Seq(Keys) -> Seq(Keys)]]
           /\ \A s \in Seq(Keys), i \in 1 .. Len(keys) : Editor(keys)[i][s] = Edit(s, keys[i])
  BY EditType, ElementOfSeq DEF Editor

\* f[i] is the text after i of the keys.
Texts(f, keys) ==
    /\ f[0] = <<>>
    /\ \A i \in 1 .. Len(keys) : f[i] = Edit(f[i - 1], keys[i])

LEMMA EditedIs ==
    ASSUME NEW keys \in Seq(Keys)
    PROVE  \E f : Texts(f, keys) /\ Edited(keys) = f[Len(keys)]
<1> DEFINE n == Len(keys)
           R(f) == f = [i \in 0 .. n |-> IF i = 0 THEN <<>> ELSE Edit(f[i - 1], keys[i])]
           h == CHOOSE f : R(f)
<1>1. n \in Nat
  OBVIOUS
<1>2. PICK f : Iterates(f, n, Seq(Keys), <<>>, Editor(keys))
  BY <1>1, IterationExists, EditorIs, EmptySeq
<1>3. R(f)
  <2>1. /\ f \in [0 .. n -> Seq(Keys)] /\ f[0] = <<>>
        /\ \A i \in 1 .. n : f[i] = Editor(keys)[i][f[i - 1]]
    BY <1>2 DEF Iterates
  <2>2. ASSUME NEW i \in 0 .. n, i # 0 PROVE f[i] = Edit(f[i - 1], keys[i])
    <3>1. i \in 1 .. n /\ i - 1 \in 0 .. n
      BY <1>1, <2>2
    <3>2. f[i - 1] \in Seq(Keys)
      BY <2>1, <3>1
    <3>. QED
      BY <2>1, <3>1, <3>2, EditorIs
  <2>. QED
    BY <2>1, <2>2
<1>4. R(h)
  BY <1>3, Zenon
<1>5. Edited(keys) = h[n]
  BY Zenon DEF Edited
<1> HIDE DEF h
<1>6. Texts(h, keys)
  BY <1>1, <1>4 DEF Texts
<1>. QED
  BY <1>5, <1>6

\* The text does not depend on what is typed later.
LEMMA EditedAppend ==
    ASSUME NEW keys \in Seq(Keys), NEW c \in Keys
    PROVE  Edited(Append(keys, c)) = Edit(Edited(keys), c)
<1> DEFINE n == Len(keys)
           more == Append(keys, c)
<1>1. n \in Nat /\ more \in Seq(Keys) /\ Len(more) = n + 1 /\ more[n + 1] = c
      /\ \A i \in 1 .. n : more[i] = keys[i]
  BY AppendProperties
<1> HIDE DEF more
<1>2. PICK f : Texts(f, keys) /\ Edited(keys) = f[n]
  BY EditedIs
<1>3. PICK g : Texts(g, more) /\ Edited(more) = g[n + 1]
  BY <1>1, EditedIs
<1>4. f[n] = g[n]
  <2> DEFINE Bad == {i \in 0 .. n : f[i] # g[i]}
  <2> SUFFICES ASSUME Bad # {} PROVE FALSE
    BY <1>1
  <2>0. Bad \in SUBSET Nat
    BY <1>1
  <2>1. PICK i \in Bad : \A k \in Bad : i <= k
    BY <2>0, HasLeast
  <2>2. i \in 0 .. n /\ f[i] # g[i]
    OBVIOUS
  <2>3. i # 0
    BY <1>2, <1>3, <2>2 DEF Texts
  <2>4. i \in 1 .. n /\ i \in 1 .. n + 1 /\ i - 1 \in 0 .. n /\ ~(i <= i - 1)
    BY <1>1, <2>2, <2>3
  <2>5. f[i - 1] = g[i - 1]
    BY <2>1, <2>4
  <2>6. f[i] = Edit(f[i - 1], keys[i])
    BY <1>2, <2>4 DEF Texts
  <2>7. g[i] = Edit(g[i - 1], more[i])
    BY <1>1, <1>3, <2>4 DEF Texts
  <2>. QED
    BY <1>1, <2>2, <2>4, <2>5, <2>6, <2>7
<1>5. g[n + 1] = Edit(g[n], c)
  BY <1>1, <1>3 DEF Texts
<1>. QED
  BY <1>2, <1>3, <1>4, <1>5 DEF more

LEMMA EditedEmpty == Edited(<<>>) = <<>>
<1>1. <<>> \in Seq(Keys) /\ Len(<<>>) = 0
  BY EmptySeq
<1>. QED
  BY <1>1, EditedIs DEF Texts

-----------------------------------------------------------------------------
(***************************************************************************)
(* The line that a task which reads alone gets.                            *)
(***************************************************************************)
Text(t) == Edited(typed[t])

\* The text is in the buffer.
Holds(t) ==
    /\ Text(t) \in Seq(Keys)
    /\ \A i \in 1 .. Len(Text(t)) : ram[t][t][i - 1] = Text(t)[i]

\* While keys are taken, pos is where the text ends; a newline ends it and puts the
\* terminator after it.
LineOK(t) ==
    /\ pc[t] \in {"test", "take", "ubuf", "pos", "stop"} => typed[t] = <<>>
    /\ stop # -2 => /\ Holds(t) /\ pos = Len(Text(t))
                    /\ typed[t] # <<>> => Last(typed[t]) # NL
    /\ stop = -2 /\ typed[t] # <<>> /\ Last(typed[t]) = NL =>
         Holds(t) /\ Len(Text(t)) \in Cells /\ ram[t][t][Len(Text(t))] = NUL

\* Nothing has been typed when the system starts.
LEMMA LineInit == Init => \A t \in Tasks : Waits(t) /\ LineOK(t)
BY DEF Init, Waits, LineOK, Arming

\* input() takes keys only between "stop = n" and unlock().
LEMMA WaitsStep ==
    ASSUME NEW t, Tasks = {t}, IInv, Waits(t), [Next]_vars
    PROVE  Waits(t)'
<1> USE DEF IInv, TypeOK, Arming
<1>1. ASSUME NEW n \in Requests, Call(t, n) PROVE Waits(t)'
  BY <1>1 DEF Call, At, Goto, driver, Waits
<1>2. CASE SetStop(t)
  BY <1>2, SizesArm DEF SetStop, At, Goto, Waits
<1>3. CASE TestLock(t) \/ TakeLock(t) \/ SetUbuf(t) \/ SetPos(t) \/ AwaitUnlock(t) \/ ExitTask(t)
  BY <1>3 DEF TestLock, TakeLock, SetUbuf, SetPos, AwaitUnlock, ExitTask, At, Goto, driver, Waits
<1>4. CASE KeyEndsCall
  BY <1>4 DEF KeyEndsCall, unlock, Active, Waits
<1>5. CASE UNCHANGED <<driver, pc>>
  BY <1>5 DEF driver, Waits
<1>6. ASSUME NEW c \in Keys, KeyTaken(c) PROVE Waits(t)'
  <2>1. stop # -2 /\ stop \in Int /\ stop # 0 /\ pc[t] = "wait" /\ ilock /\ pc' = pc
    BY <1>6 DEF KeyTaken, Active, Waits
  <2>2. CASE c = NL \/ stop = 1
    BY <1>6, <2>1, <2>2 DEF KeyTaken, Advance, unlock, Waits
  <2>3. CASE ~(c = NL \/ stop = 1)
    <3>1. stop' # -2 /\ ilock'
      BY <1>6, <2>1, <2>3 DEF KeyTaken, Advance
    <3>. QED
      BY <2>1, <3>1 DEF Waits
  <2>. QED
    BY <2>2, <2>3
<1>. QED
  BY <1>1, <1>2, <1>3, <1>4, <1>5, <1>6
  DEF Next, Step, KeyFaults, Schedule, vars, driver

\* The key is in the buffer, or rubs out what was last.
LEMMA KeyKeepsLine ==
    ASSUME NEW t, Tasks = {t}, IInv, Waits(t), LineOK(t), NEW c \in Keys, KeyTaken(c)
    PROVE  LineOK(t)'
<1> DEFINE s == Text(t)
           b == ram[t][t]
           u == Edit(s, c)
<1>1. /\ ubuf = t /\ stop # -2 /\ stop # 0 /\ stop \in Int /\ pc[t] = "wait" /\ pc' = pc
      /\ pos \in 0 .. MaxKeys /\ MaxKeys \in Nat /\ (c # NL => pos < MaxKeys)
      /\ typed[t] \in Seq(Keys) /\ typed'[t] = Append(typed[t], c)
      /\ b \in [Cells -> Keys \cup {NUL, Junk}]
  BY KeysAssumption DEF KeyTaken, Active, Waits, IInv, TypeOK
<1>2. /\ s \in Seq(Keys) /\ pos = Len(s) /\ \A i \in 1 .. Len(s) : b[i - 1] = s[i]
  BY <1>1 DEF LineOK, Holds
<1>3. Text(t)' = u
  BY <1>1, EditedAppend DEF Text
<1>4. ram'[t][t] = Stored(b, c)
  <2>1. Stores(c) => current = t
    BY DEF KeyTaken, IInv, TypeOK
  <2>2. ~Stores(c) => Stored(b, c) = b
    BY DEF Stored
  <2>. QED
    BY <1>1, <2>1, <2>2 DEF KeyTaken, IInv, TypeOK
<1> HIDE DEF s, b, u
<1>5. c # BS => /\ u \in Seq(Keys) /\ Len(u) = pos + 1
                /\ \A i \in 1 .. pos : u[i] = s[i]
                /\ u[pos + 1] = c
  BY <1>2, AppendProperties DEF Edit, u
<1>6. c = BS /\ pos # 0 => /\ u \in Seq(Keys) /\ Len(u) = pos - 1
                           /\ \A i \in 1 .. pos - 1 : u[i] = s[i]
  <2>1. s = <<>> => Len(s) = 0
    BY EmptySeq
  <2>2. s # <<>> => /\ Front(s) \in Seq(Keys) /\ Len(Front(s)) = Len(s) - 1
                    /\ \A i \in 1 .. Len(s) - 1 : Front(s)[i] = s[i]
    BY <1>2, FrontIs
  <2>. QED
    BY <1>2, <2>1, <2>2, Zenon DEF Edit, u
<1>7. c = BS /\ pos = 0 => u \in Seq(Keys) /\ Len(u) = 0
  <2>1. s # <<>> => Len(s) # 0
    BY <1>2, EmptySeq
  <2>. QED
    BY <1>2, <2>1, Zenon DEF Edit, u
<1>8. c # BS => /\ \A i \in 1 .. pos + 1 : Stored(b, c)[i - 1] = u[i]
                /\ Stored(b, c)[pos + 1] = NUL
  <2> SUFFICES ASSUME c # BS
               PROVE  /\ \A i \in 1 .. pos + 1 : Stored(b, c)[i - 1] = u[i]
                      /\ Stored(b, c)[pos + 1] = NUL
    OBVIOUS
  <2>1. Stored(b, c) = [b EXCEPT ![pos] = c, ![pos + 1] = NUL]
    BY DEF Stored, Stores
  <2>2. pos \in Cells /\ pos + 1 \in Cells /\ pos # pos + 1
    BY <1>1 DEF Cells
  <2>3. Stored(b, c)[pos + 1] = NUL /\ Stored(b, c)[pos] = c
    BY <1>1, <2>1, <2>2
  <2>4. ASSUME NEW i \in 1 .. pos PROVE Stored(b, c)[i - 1] = u[i]
    <3>1. i - 1 \in Cells /\ i - 1 # pos /\ i - 1 # pos + 1
      BY <1>1 DEF Cells
    <3>2. Stored(b, c)[i - 1] = b[i - 1]
      BY <1>1, <2>1, <3>1
    <3>. QED
      BY <1>2, <1>5, <3>2
  <2>5. ASSUME NEW i \in 1 .. pos + 1 PROVE i \in 1 .. pos \/ (i = pos + 1 /\ i - 1 = pos)
    BY <1>1
  <2>. QED
    BY <1>5, <2>3, <2>4, <2>5
<1>9. c = BS => \A i \in 1 .. pos - 1 : Stored(b, c)[i - 1] = b[i - 1]
  <2>1. CASE pos = 0
    BY <2>1
  <2>2. CASE pos # 0
    BY <2>2 DEF Stored, Stores
  <2>. QED
    BY <2>1, <2>2
<1>10. Text(t)' \in Seq(Keys) /\ \A i \in 1 .. Len(Text(t)') : ram'[t][t][i - 1] = Text(t)'[i]
  <2>1. CASE c # BS
    BY <1>3, <1>4, <1>5, <1>8, <2>1
  <2>2. CASE c = BS /\ pos = 0
    BY <1>3, <1>7, <2>2
  <2>3. CASE c = BS /\ pos # 0
    <3>1. ASSUME NEW i \in 1 .. pos - 1 PROVE ram'[t][t][i - 1] = u[i]
      <4>1. i \in 1 .. Len(s)
        BY <1>1, <1>2
      <4>. QED
        BY <1>2, <1>4, <1>6, <1>9, <2>3, <4>1
    <3>. QED
      BY <1>3, <1>6, <2>3, <3>1
  <2>. QED
    BY <2>1, <2>2, <2>3
<1>11. Holds(t)'
  BY <1>10 DEF Holds
<1>12. CASE c = NL
  <2>1. /\ Len(Text(t)') = pos + 1 /\ pos + 1 \in Cells /\ ram'[t][t][pos + 1] = NUL
    BY <1>1, <1>3, <1>4, <1>5, <1>8, <1>12, KeysAssumption DEF Cells
  <2>2. stop' = -2
    BY <1>12 DEF KeyTaken, Advance, unlock
  <2>. QED
    BY <1>1, <1>11, <2>1, <2>2 DEF LineOK
<1>0. Last(typed'[t]) = c
  BY <1>1, AppendProperties DEF Last
<1>13. CASE c # NL /\ stop = 1
  <2>1. stop' = -2
    BY <1>13 DEF KeyTaken, Advance, unlock
  <2>. QED
    BY <1>0, <1>1, <1>13, <2>1 DEF LineOK
<1>14. CASE c # NL /\ stop # 1
  <2>1. pos' = IF c # BS THEN pos + 1 ELSE IF pos = 0 THEN 0 ELSE pos - 1
    BY <1>14 DEF KeyTaken, Advance
  <2>2. stop' # -2
    BY <1>1, <1>14 DEF KeyTaken, Advance
  <2>3. pos' = Len(Text(t)')
    BY <1>3, <1>5, <1>6, <1>7, <2>1
  <2>. QED
    BY <1>0, <1>1, <1>11, <1>14, <2>2, <2>3 DEF LineOK
<1>. QED
  BY <1>12, <1>13, <1>14

\* The other statements leave the text and the buffer alone, or start both anew.
LEMMA LineStep ==
    ASSUME NEW t, Tasks = {t}, IInv, Waits(t), LineOK(t), [Next]_vars
    PROVE  LineOK(t)'
<1> USE DEF IInv, TypeOK
<1>1. ASSUME NEW n \in Requests, Call(t, n) PROVE LineOK(t)'
  BY <1>1 DEF Call, At, Goto, driver, LineOK, Waits
<1>2. CASE SetStop(t)
  <2>1. typed[t] = <<>> /\ typed' = typed /\ pc'[t] = "wait" /\ pos' = 0
    BY <1>2 DEF SetStop, At, Goto, LineOK, Waits
  <2>2. Text(t)' = <<>>
    BY <2>1, EditedEmpty DEF Text
  <2>3. Holds(t)' /\ Len(Text(t)') = 0
    BY <2>2, EmptySeq DEF Holds
  <2>. QED
    BY <2>1, <2>3 DEF LineOK
<1>3. CASE /\ UNCHANGED <<stop, ram, typed>> /\ (stop # -2 => pos' = pos)
           /\ (pc[t] \in {"test", "take", "ubuf", "pos", "stop"} \/
                 pc'[t] \notin {"test", "take", "ubuf", "pos", "stop"})
  BY <1>3 DEF LineOK, Holds, Text
<1>4. CASE TestLock(t) \/ TakeLock(t) \/ SetUbuf(t) \/ SetPos(t) \/ AwaitUnlock(t) \/ ExitTask(t)
  BY <1>3, <1>4
  DEF TestLock, TakeLock, SetUbuf, SetPos, AwaitUnlock, ExitTask, At, Goto, driver, Waits
<1>5. CASE KeyEndsCall
  <2>1. pc[t] = "wait" /\ stop # -2 /\ stop' = -2 /\ UNCHANGED <<pc, ram, typed>>
    BY <1>5 DEF KeyEndsCall, unlock, Active, Waits
  <2>. QED
    BY <2>1 DEF LineOK
<1>6. CASE UNCHANGED <<driver, pc, ram, typed>>
  BY <1>6 DEF driver, LineOK, Holds, Text
<1>7. ASSUME NEW c \in Keys, KeyTaken(c) PROVE LineOK(t)'
  BY <1>7, KeyKeepsLine
<1>. QED
  BY <1>1, <1>2, <1>4, <1>5, <1>6, <1>7
  DEF Next, Step, KeyFaults, Schedule, vars, driver

\* A buffer that holds a text and a terminator after it is that text as a string.
LEMMA StringIs ==
    ASSUME NEW b, NEW s \in Seq(Keys), Len(s) \in Cells, b[Len(s)] = NUL,
           \A i \in 1 .. Len(s) : b[i - 1] = s[i]
    PROVE  CString(b) = s
<1> DEFINE n == Len(s)
           P(i) == b[i] = NUL /\ \A j \in 0 .. i - 1 : b[j] # NUL
           len == CHOOSE i \in Cells : P(i)
<1>1. n \in Nat /\ Cells \subseteq Nat /\ NUL \notin Keys
  BY KeysAssumption DEF Cells, Keys
<1>2. ASSUME NEW j \in 0 .. n - 1 PROVE b[j] # NUL
  <2>1. j + 1 \in 1 .. n /\ (j + 1) - 1 = j
    BY <1>1
  <2>2. b[j] = s[j + 1] /\ s[j + 1] \in Keys
    BY <2>1, ElementOfSeq
  <2>. QED
    BY <1>1, <2>2
<1>3. P(n)
  BY <1>2
<1>4. len \in Cells /\ P(len)
  BY <1>3, Zenon
<1>5. ASSUME NEW i \in Cells, P(i) PROVE i = n
  <2>1. ~(i < n)
    BY <1>1, <1>2, <1>5
  <2>2. ~(n < i)
    BY <1>1, <1>3, <1>5
  <2>. QED
    BY <1>1, <2>1, <2>2
<1> HIDE DEF len
<1>6. len = n
  BY <1>4, <1>5
<1>7. CString(b) = [i \in 1 .. len |-> b[i - 1]]
  BY Zenon DEF CString, len
<1>8. s = [i \in 1 .. n |-> s[i]]
  BY LenProperties
<1>. QED
  BY <1>6, <1>7, <1>8

\* The buffer of a line that was ended with enter holds the line as edited, for any
\* keys, any sizes and any moment at which keys come and the clock ticks, when one
\* task reads.
THEOREM LineArrives == Alone => (Spec => []LineIsWhatWasTyped)
<1> SUFFICES ASSUME Alone PROVE Spec => []LineIsWhatWasTyped
    OBVIOUS
<1> DEFINE Inv == \A t \in Tasks : Waits(t) /\ LineOK(t)
<1>1. Init => Inv
    BY LineInit
<1>2. IInv /\ Inv /\ [Next]_vars => Inv'
  <2> SUFFICES ASSUME IInv, Inv, [Next]_vars PROVE Inv'
      OBVIOUS
  <2>1. PICK t : Tasks = {t}
      BY DEF Alone
  <2>2. Waits(t)' /\ LineOK(t)'
      BY <2>1, WaitsStep, LineStep
  <2> QED BY <2>1, <2>2
<1>3. Inv => LineIsWhatWasTyped
  <2> SUFFICES ASSUME Inv, NEW t \in Tasks, Answered(t), Last(typed[t]) = NL
               PROVE  CString(ram[t][t]) = Edited(typed[t])
      BY DEF LineIsWhatWasTyped
  <2>1. Holds(t) /\ Len(Text(t)) \in Cells /\ ram[t][t][Len(Text(t))] = NUL
      BY DEF Waits, LineOK, Answered
  <2> QED BY <2>1, StringIs DEF Holds, Text
<1> QED BY <1>1, <1>2, <1>3, Arms, PTL DEF Spec

-----------------------------------------------------------------------------
(***************************************************************************)
(* The text screen.                                                        *)
(*                                                                         *)
(* The inductive invariant, of a state s of the screen whose cursor is in  *)
(* one of the first h + 1 rows: put moves the cursor below the screen      *)
(* before it adds a line.                                                  *)
(***************************************************************************)
\* The columns.
XS == -(MaxX + 1) .. MaxX

ScreenType ==
    [cells : Seq(ScreenCells), x : XS, y : Nat, logOn : BOOLEAN, log : Seq(ScreenCells), cur : Nat,
     limX : Int, limY : Nat, fence : Nat, unlogged : BOOLEAN]

\* With the log on, the cursor is on a screen of it, and if b is true that is what
\* the screen shows, but for a cell erased on the screen only: scroll moves in the
\* log before it renders.
Shows(s, b) ==
    /\ s.cur <= LastPage(s.log)
    /\ b /\ ~s.unlogged => \A i \in 1 .. PageCells : s.cells[i] = s.log[s.cur + i]

\* Whole lines in the log; a rubout limit with a column of 0 or more never lies
\* before the fence.
InOrder(s, h) ==
    /\ s \in ScreenType
    /\ Len(s.cells) = PageCells
    /\ s.y <= h
    /\ \E n \in Nat : Len(s.log) = n * Width
    /\ s.limX >= 0 => s.fence <= s.limX + Width * s.limY

Good(s, h, b) == InOrder(s, h) /\ (s.logOn => Shows(s, b))

\* The end of the log is shown.
AtEnd(s) == s.logOn => s.cur = LastPage(s.log)

ScreenInv == Good(scr, Height - 1, TRUE) /\ mallocReady \in BOOLEAN

\* Nothing of the log of s above its last screen is touched.
History(s, t) ==
    t.logOn => \A i \in 1 .. LastPage(s.log) : t.log[i] = s.log[i]

\* Nothing is erased that is before the fence.
Fenced(s, t) ==
    t.logOn = s.logOn /\ t.fence = s.fence =>
        \A i \in 1 .. PageCells :
            i <= s.fence /\ Page(s)[i] # Blank => Page(t)[i] # Blank

\* What no operation does on its way from s to t: it neither moves the rubout limit,
\* nor switches the log on, nor touches a log that is off.
Same(s, t) ==
    /\ t.limX = s.limX /\ t.limY = s.limY
    /\ t.fence <= s.fence
    /\ t.logOn => s.logOn
    /\ ~s.logOn => t.log = s.log /\ t.cur = s.cur

\* What printing and scrolling keep; the history, if past is true: not when a
\* character is stored with a negative column.
Keeps(s, t, past) ==
    /\ Same(s, t)
    /\ t.logOn => Len(s.log) <= Len(t.log)
    /\ past => History(s, t)
    /\ Fenced(s, t)

-----------------------------------------------------------------------------
(***************************************************************************)
(* Sizes and windows.                                                      *)
(***************************************************************************)
LEMMA PageLines == PageCells = Height * Width
  BY ScreenAssumption DEF PageCells

LEMMA ScreenSizes ==
    /\ Width \in Nat \ {0} /\ Height \in Nat \ {0} /\ TabSize \in Nat \ {0}
    /\ PageCells \in Nat \ {0} /\ Width <= PageCells
<1>1. Width \in Nat \ {0} /\ Height \in Nat \ {0} /\ TabSize \in Nat \ {0}
  BY ScreenAssumption
<1>2. PICK k \in Nat : Height = k + 1
  BY <1>1
<1>3. Height * Width = k * Width + Width /\ k * Width \in Nat
  BY <1>1, <1>2
<1>. QED
  BY <1>1, <1>3, PageLines

LEMMA BlanksAre ==
    ASSUME NEW n \in Nat
    PROVE  /\ Blanks(n) \in Seq(ScreenCells) /\ Len(Blanks(n)) = n
           /\ \A i \in 1 .. n : Blanks(n)[i] = Blank
<1>1. Blanks(n) \in [1 .. n -> ScreenCells]
  BY DEF Blanks, ScreenCells
<1>2. Blanks(n) \in Seq(ScreenCells) /\ Len(Blanks(n)) = n
  BY <1>1, LenProperties, IsASeq
<1>. QED
  BY <1>2 DEF Blanks

LEMMA WholeLines ==
    ASSUME NEW k \in Nat, NEW w \in Nat \ {0}
    PROVE  (k * w) % w = 0
<1> DEFINE m == k * w
           q == m \div w
           r == m % w
           d == k - q
<1>1. m \in Nat /\ m = k * w
  OBVIOUS
<1> HIDE DEF m
<1>2. q \in Int /\ r \in Int /\ 0 <= r /\ r < w /\ m = w * q + r
  BY <1>1
<1> HIDE DEF q, r
<1>3. d \in Int /\ w * d = r
  BY <1>1, <1>2
<1> HIDE DEF d
<1>4. d >= 1 => w * d >= w
  BY <1>3
<1>5. d <= -1 => w * d <= -w
  BY <1>3
<1>6. d = 0
  BY <1>2, <1>3, <1>4, <1>5
<1>7. w * d = 0
  BY <1>6
<1>. QED
  BY <1>3, <1>7 DEF r, m

\* A window that lies in the log.
LEMMA WindowIs ==
    ASSUME NEW log \in Seq(ScreenCells), NEW c \in Nat, c + PageCells <= Len(log)
    PROVE  /\ Window(log, c) \in Seq(ScreenCells) /\ Len(Window(log, c)) = PageCells
           /\ \A i \in 1 .. PageCells : Window(log, c)[i] = log[c + i]
<1> DEFINE a == c + 1
           b == c + PageCells
<1>1. a \in Int /\ b \in Int /\ a <= b /\ b - a + 1 = PageCells
  BY ScreenSizes
<1>2. \A i \in a .. b : log[i] \in ScreenCells
  BY ScreenSizes, ElementOfSeq
<1>3. /\ SubSeq(log, a, b) \in Seq(ScreenCells)
      /\ Len(SubSeq(log, a, b)) = b - a + 1
      /\ \A i \in 1 .. b - a + 1 : SubSeq(log, a, b)[i] = log[a + i - 1]
  <2> HIDE DEF a, b
  <2>. QED
    BY <1>1, <1>2, SubSeqProperties
<1>4. \A i \in 1 .. PageCells : a + i - 1 = c + i
  BY ScreenSizes
<1>. QED
  BY <1>1, <1>3, <1>4 DEF Window

\* The last screen of a log that is on.
LEMMA LastPageIs ==
    ASSUME NEW b \in BOOLEAN, NEW s \in ScreenType, Shows(s, b)
    PROVE  /\ LastPage(s.log) \in Nat /\ LastPage(s.log) + PageCells = Len(s.log)
           /\ s.cur + PageCells <= Len(s.log)
  BY ScreenSizes DEF ScreenType, Shows, LastPage

\* What Page is, cell by cell.
LEMMA PageIs ==
    ASSUME NEW b \in BOOLEAN, NEW s, NEW h, Good(s, h, b)
    PROVE  /\ ~s.logOn => Page(s) = s.cells
           /\ s.logOn => \A i \in 1 .. PageCells : Page(s)[i] = s.log[LastPage(s.log) + i]
<1>1. s \in ScreenType
  BY DEF Good, InOrder
<1>2. s.logOn => LastPage(s.log) \in Nat /\ LastPage(s.log) + PageCells <= Len(s.log)
  BY <1>1, LastPageIs, ScreenSizes DEF Good
<1>. QED
  BY <1>1, <1>2, WindowIs DEF Page, ScreenType

-----------------------------------------------------------------------------
(***************************************************************************)
(* What is kept is kept by several operations in a row.                    *)
(***************************************************************************)
LEMMA KeepsRefl ==
    ASSUME NEW past \in BOOLEAN, NEW s, s \in ScreenType
    PROVE  Keeps(s, s, past)
  BY LenProperties DEF Keeps, Same, History, Fenced, ScreenType

LEMMA SameTrans ==
    ASSUME NEW s, NEW t, NEW u, s \in ScreenType, t \in ScreenType, u \in ScreenType,
           Same(s, t), Same(t, u)
    PROVE  Same(s, u)
<1>1. /\ s.fence \in Nat /\ t.fence \in Nat /\ u.fence \in Nat
      /\ s.logOn \in BOOLEAN /\ t.logOn \in BOOLEAN /\ u.logOn \in BOOLEAN
  BY DEF ScreenType
<1>. QED
  BY <1>1 DEF Same

LEMMA HistoryTrans ==
    ASSUME NEW s, NEW t, NEW u, s \in ScreenType, t \in ScreenType, u \in ScreenType,
           Same(t, u), t.logOn => Len(s.log) <= Len(t.log), History(s, t), History(t, u)
    PROVE  History(s, u)
<1> SUFFICES ASSUME u.logOn, NEW i \in 1 .. LastPage(s.log)
             PROVE  u.log[i] = s.log[i]
  BY DEF History
<1>1. Len(s.log) \in Nat /\ Len(t.log) \in Nat /\ PageCells \in Nat
  BY LenProperties, ScreenSizes DEF ScreenType
<1>2. t.logOn
  BY DEF Same
<1>3. i \in 1 .. LastPage(t.log)
  BY <1>1, <1>2 DEF LastPage
<1>. QED
  BY <1>2, <1>3 DEF History

LEMMA FencedTrans ==
    ASSUME NEW s, NEW t, NEW u, s \in ScreenType, t \in ScreenType, u \in ScreenType,
           Same(s, t), Same(t, u), Fenced(s, t), Fenced(t, u)
    PROVE  Fenced(s, u)
<1> SUFFICES ASSUME u.logOn = s.logOn, u.fence = s.fence, NEW i \in 1 .. PageCells,
                    i <= s.fence, Page(s)[i] # Blank
             PROVE  Page(u)[i] # Blank
  BY DEF Fenced
<1>1. /\ s.fence \in Nat /\ t.fence \in Nat /\ u.fence \in Nat
      /\ s.logOn \in BOOLEAN /\ t.logOn \in BOOLEAN /\ u.logOn \in BOOLEAN
  BY DEF ScreenType
<1>2. t.logOn = s.logOn
  BY <1>1 DEF Same
<1>3. t.fence = s.fence
  BY <1>1 DEF Same
<1>4. Page(t)[i] # Blank
  BY <1>2, <1>3 DEF Fenced
<1>. QED
  BY <1>2, <1>3, <1>4 DEF Fenced

LEMMA KeepsTrans ==
    ASSUME NEW past \in BOOLEAN, NEW s, NEW t, NEW u,
           s \in ScreenType, t \in ScreenType, u \in ScreenType,
           Keeps(s, t, past), Keeps(t, u, past)
    PROVE  Keeps(s, u, past)
<1>1. /\ Same(s, t) /\ Same(t, u) /\ Fenced(s, t) /\ Fenced(t, u)
      /\ t.logOn => Len(s.log) <= Len(t.log)
      /\ u.logOn => Len(t.log) <= Len(u.log)
      /\ past => History(s, t) /\ History(t, u)
  BY DEF Keeps
<1>2. Same(s, u) /\ Fenced(s, u) /\ (past => History(s, u))
  BY <1>1, SameTrans, FencedTrans, HistoryTrans
<1>3. u.logOn => Len(s.log) <= Len(u.log)
  <2>1. u.logOn => t.logOn
    BY <1>1 DEF Same
  <2>2. Len(s.log) \in Nat /\ Len(t.log) \in Nat /\ Len(u.log) \in Nat
    BY LenProperties DEF ScreenType
  <2>. QED
    BY <1>1, <2>1, <2>2
<1>. QED
  BY <1>2, <1>3 DEF Keeps

\* A log that has been given up has no history to keep.
LEMMA KeepsOff ==
    ASSUME NEW past \in BOOLEAN, NEW s, NEW t, Keeps(s, t, FALSE), ~t.logOn
    PROVE  Keeps(s, t, past)
  BY DEF Keeps, History

\* Keeps holds between states that differ in nothing it looks at.
LEMMA KeepsSame ==
    ASSUME NEW past \in BOOLEAN, NEW s, NEW t, s \in ScreenType, t.logOn = s.logOn, t.log = s.log,
           t.limX = s.limX, t.limY = s.limY, t.fence = s.fence,
           ~s.logOn => t.cells = s.cells /\ t.cur = s.cur
    PROVE  Keeps(s, t, past)
<1>1. Page(t) = Page(s)
  BY DEF Page
<1>. QED
  BY <1>1, LenProperties DEF Keeps, Same, History, Fenced, ScreenType

-----------------------------------------------------------------------------
(***************************************************************************)
(* The operations.                                                         *)
(***************************************************************************)
LEMMA RenderGood ==
    ASSUME NEW b \in BOOLEAN, NEW s, NEW h, InOrder(s, h), s.cur + PageCells <= Len(s.log)
    PROVE  LET t == Render(s)
           IN  /\ Good(t, h, b) /\ Shows(t, b)
               /\ t.x = s.x /\ t.y = s.y /\ t.logOn = s.logOn /\ t.log = s.log /\ t.cur = s.cur
               /\ t.limX = s.limX /\ t.limY = s.limY /\ t.fence = s.fence
               /\ t.cells = Window(s.log, s.cur)
<1> DEFINE w == Window(s.log, s.cur)
           t == [s EXCEPT !.cells = w, !.unlogged = FALSE]
<1>1. s \in ScreenType
  BY DEF InOrder
<1>2. s.log \in Seq(ScreenCells) /\ s.cur \in Nat
  BY <1>1 DEF ScreenType
<1>3. /\ w \in Seq(ScreenCells) /\ Len(w) = PageCells
      /\ \A i \in 1 .. PageCells : w[i] = s.log[s.cur + i]
  BY <1>2, WindowIs
<1>4. Render(s) = t
  BY DEF Render
<1> HIDE DEF w
<1>5. /\ t \in ScreenType /\ t.cells = w
      /\ t.x = s.x /\ t.y = s.y /\ t.logOn = s.logOn /\ t.log = s.log /\ t.cur = s.cur
      /\ t.limX = s.limX /\ t.limY = s.limY /\ t.fence = s.fence
  BY <1>1, <1>3 DEF ScreenType
<1> HIDE DEF t
<1>6. Shows(t, b)
  <2>1. Len(s.log) \in Nat
    BY <1>2, LenProperties
  <2>2. s.cur <= LastPage(s.log)
    BY <1>2, <2>1, ScreenSizes DEF LastPage
  <2>. QED
    BY <1>3, <1>5, <2>2 DEF Shows
<1>7. InOrder(t, h)
  BY <1>3, <1>5 DEF InOrder
<1>. QED
  BY <1>4, <1>5, <1>6, <1>7 DEF Good, w

\* put shows the end of the log.
LEMMA ToEndGood ==
    ASSUME NEW b \in BOOLEAN, NEW past \in BOOLEAN, NEW s, NEW h, Good(s, h, b)
    PROVE  LET t == ToEnd(s)
           IN  /\ Good(t, h, b) /\ AtEnd(t) /\ Keeps(s, t, past)
               /\ t.x = s.x /\ t.y = s.y /\ t.logOn = s.logOn /\ t.limX = s.limX
<1>1. s \in ScreenType
  BY DEF Good, InOrder
<1>2. CASE ~(s.logOn /\ s.cur # LastPage(s.log))
  BY <1>1, <1>2, KeepsRefl DEF ToEnd, AtEnd
<1>3. CASE s.logOn /\ s.cur # LastPage(s.log)
  <2> DEFINE e == [s EXCEPT !.cur = LastPage(s.log)]
  <2>1. LastPage(s.log) \in Nat /\ LastPage(s.log) + PageCells = Len(s.log)
    BY <1>1, <1>3, LastPageIs DEF Good
  <2>2. /\ e \in ScreenType /\ e.cells = s.cells /\ e.cur = LastPage(s.log)
        /\ e.x = s.x /\ e.y = s.y /\ e.logOn = s.logOn /\ e.log = s.log
        /\ e.limX = s.limX /\ e.limY = s.limY /\ e.fence = s.fence
    BY <1>1, <2>1 DEF ScreenType
  <2>3. ToEnd(s) = Render(e)
    BY <1>3 DEF ToEnd, ScrollDown
  <2> HIDE DEF e
  <2>4. InOrder(e, h) /\ e.cur + PageCells <= Len(e.log)
    BY <2>1, <2>2, LenProperties DEF Good, InOrder, ScreenType
  <2> DEFINE t == Render(e)
  <2>5. /\ Good(t, h, b) /\ Shows(t, b)
        /\ t.x = e.x /\ t.y = e.y /\ t.logOn = e.logOn /\ t.log = e.log /\ t.cur = e.cur
        /\ t.limX = e.limX /\ t.limY = e.limY /\ t.fence = e.fence
    BY <2>4, RenderGood
  <2> HIDE DEF t
  <2>6. Keeps(s, t, past)
    BY <1>1, <1>3, <2>2, <2>5, KeepsSame
  <2>7. AtEnd(t)
    BY <2>2, <2>5 DEF AtEnd
  <2>8. ToEnd(s) = t
    BY <2>3 DEF t
  <2>. QED
    BY <2>2, <2>5, <2>6, <2>7, <2>8
<1>. QED
  BY <1>2, <1>3

\* A character is stored, on the screen and at the end of the log, or in front of
\* the screen and in the log only, or not in the log at all.
LEMMA StoreGood ==
    ASSUME NEW b \in BOOLEAN, NEW past \in BOOLEAN, NEW s, NEW h, Good(s, h, b), AtEnd(s),
           NEW off \in Int, NEW c \in ScreenCells, past => off >= 0
    PROVE  LET t == Store(s, off, c)
           IN  /\ Good(t, h, b) /\ AtEnd(t)
               /\ Same(s, t) /\ Len(t.log) = Len(s.log) /\ (past => History(s, t))
               /\ (c = Blank => s.fence <= off) => Fenced(s, t)
               /\ t.x = s.x /\ t.y = s.y /\ t.logOn = s.logOn
<1> DEFINE t == Store(s, off, c)
<1>1. /\ s \in ScreenType /\ s.cells \in Seq(ScreenCells) /\ Len(s.cells) = PageCells
      /\ s.log \in Seq(ScreenCells) /\ s.cur \in Nat /\ Len(s.log) \in Nat
      /\ s.fence \in Nat /\ PageCells \in Nat \ {0}
  BY LenProperties, ScreenSizes DEF Good, InOrder, ScreenType
<1>2. s.logOn => /\ s.cur = LastPage(s.log) /\ LastPage(s.log) + PageCells = Len(s.log)
                 /\ LastPage(s.log) \in Nat /\ Shows(s, b)
  BY <1>1, LastPageIs DEF Good, AtEnd
<1>3. CASE ~OnPage(off) /\ ~(s.logOn /\ s.cur + off \in 0 .. Len(s.log) - 1)
  <2>1. t = s
    BY <1>3 DEF Store
  <2>2. /\ t \in ScreenType /\ t.cells = s.cells /\ t.cur = s.cur /\ t.unlogged = s.unlogged
        /\ t.x = s.x /\ t.y = s.y /\ t.logOn = s.logOn /\ t.log = s.log
        /\ t.limX = s.limX /\ t.limY = s.limY /\ t.fence = s.fence
    BY <1>1, <2>1
  <2> HIDE DEF t
  <2>3. Keeps(s, t, past)
    BY <1>1, <2>2, KeepsSame
  <2>4. Good(t, h, b) /\ AtEnd(t)
    BY <2>2 DEF Good, InOrder, Shows, AtEnd
  <2>. QED
    BY <2>2, <2>3, <2>4 DEF t, Keeps
<1>4. CASE ~OnPage(off) /\ s.logOn /\ s.cur + off \in 0 .. Len(s.log) - 1
  <2> DEFINE k == s.cur + off + 1
             log == [s.log EXCEPT ![k] = c]
  <2>1. k \in 1 .. Len(s.log) /\ k <= s.cur /\ ~past
    BY <1>1, <1>2, <1>4 DEF OnPage
  <2>2. /\ log \in Seq(ScreenCells) /\ Len(log) = Len(s.log)
        /\ \A j \in 1 .. Len(s.log) : log[j] = IF j = k THEN c ELSE s.log[j]
    <3> HIDE DEF k
    <3>. QED
      BY <1>1, <2>1, ExceptSeq
  <2>3. t = [s EXCEPT !.log[s.cur + off + 1] = c]
    BY <1>4, Zenon DEF Store
  <2>4. t = [s EXCEPT !.log = log]
    BY <1>1, <2>3 DEF ScreenType
  <2> HIDE DEF log
  <2>5. /\ t \in ScreenType /\ t.cells = s.cells /\ t.cur = s.cur /\ t.unlogged = s.unlogged
        /\ t.x = s.x /\ t.y = s.y /\ t.logOn = s.logOn /\ t.log = log
        /\ t.limX = s.limX /\ t.limY = s.limY /\ t.fence = s.fence
    BY <1>1, <2>2, <2>4 DEF ScreenType
  <2> HIDE DEF t
  <2>6. LastPage(t.log) = LastPage(s.log)
    BY <2>2, <2>5 DEF LastPage
  <2>7. ASSUME NEW j \in 1 .. PageCells
        PROVE  t.log[s.cur + j] = s.log[s.cur + j]
    <3>1. s.cur + j \in 1 .. Len(s.log) /\ s.cur + j # k
      BY <1>1, <1>2, <1>4, <2>1
    <3>. QED
      BY <2>2, <2>5, <3>1
  <2>8. Good(t, h, b) /\ AtEnd(t)
    <3>1. InOrder(t, h)
      BY <2>2, <2>5 DEF Good, InOrder
    <3>2. Shows(t, b)
      BY <1>2, <1>4, <2>5, <2>6, <2>7 DEF Shows
    <3>. QED
      BY <1>2, <1>4, <2>5, <2>6, <3>1, <3>2 DEF Good, AtEnd
  <2>9. Same(s, t)
    BY <1>1, <1>4, <2>5 DEF Same
  <2>10. Fenced(s, t)
    <3>1. ASSUME NEW j \in 1 .. PageCells, Page(s)[j] # Blank
          PROVE  Page(t)[j] # Blank
      <4>1. Page(s)[j] = s.log[LastPage(s.log) + j] /\ Page(t)[j] = t.log[LastPage(t.log) + j]
        BY <1>4, <2>5, <2>8, PageIs
      <4>. QED
        BY <1>2, <1>4, <2>6, <2>7, <3>1, <4>1
    <3>. QED
      BY <3>1 DEF Fenced
  <2>. QED
    BY <2>1, <2>2, <2>5, <2>8, <2>9, <2>10 DEF t
<1>5. CASE OnPage(off)
  <2> DEFINE i == off + 1
             cells == [s.cells EXCEPT ![i] = c]
  <2>1. i \in 1 .. PageCells
    BY <1>1, <1>5 DEF OnPage
  <2>2. /\ cells \in Seq(ScreenCells) /\ Len(cells) = PageCells
        /\ \A j \in 1 .. PageCells : cells[j] = IF j = i THEN c ELSE s.cells[j]
    BY <1>1, <2>1, ExceptSeq
  <2>3. CASE ~s.logOn
    <3>1. t = [s EXCEPT !.cells = cells]
      <4>1. t = [s EXCEPT !.cells[off + 1] = c]
        BY <1>5, <2>3, Zenon DEF Store
      <4>. QED
        BY <1>1, <4>1 DEF ScreenType
    <3> HIDE DEF cells
    <3>2. /\ t \in ScreenType /\ t.cells = cells /\ t.cur = s.cur
          /\ t.x = s.x /\ t.y = s.y /\ t.logOn = s.logOn /\ t.log = s.log
          /\ t.limX = s.limX /\ t.limY = s.limY /\ t.fence = s.fence
      BY <1>1, <2>2, <3>1 DEF ScreenType
    <3> HIDE DEF t
    <3>3. Good(t, h, b) /\ AtEnd(t)
      BY <2>2, <2>3, <3>2 DEF Good, InOrder, AtEnd
    <3>4. ASSUME c = Blank => s.fence <= off
          PROVE  Fenced(s, t)
      BY <1>1, <2>2, <2>3, <3>2, <3>4 DEF Page, Fenced
    <3>5. Same(s, t) /\ Len(t.log) = Len(s.log) /\ History(s, t)
      BY <1>1, <2>3, <3>2 DEF Same, History
    <3>. QED
      BY <3>2, <3>3, <3>4, <3>5 DEF t
  <2>4. CASE s.logOn
    <3> DEFINE k == s.cur + off + 1
               log == [s.log EXCEPT ![k] = c]
    <3>1. k \in 1 .. Len(s.log)
      BY <1>1, <1>2, <2>1, <2>4
    <3>2. /\ log \in Seq(ScreenCells) /\ Len(log) = Len(s.log)
          /\ \A j \in 1 .. Len(s.log) : log[j] = IF j = k THEN c ELSE s.log[j]
      <4> HIDE DEF k
      <4>. QED
        BY <1>1, <3>1, ExceptSeq
    <3>3. t = [s EXCEPT !.cells = cells, !.log = log]
      <4>1. s.cur + off \in 0 .. Len(s.log) - 1
        BY <1>1, <3>1
      <4> DEFINE v == [s EXCEPT !.cells[off + 1] = c]
      <4>2. v.logOn = s.logOn /\ v.cur = s.cur /\ v.log = s.log
        BY <1>1 DEF ScreenType
      <4>3. t = [v EXCEPT !.log[s.cur + off + 1] = c]
        BY <1>5, <2>4, <4>1, Zenon DEF Store
      <4>4. v = [s EXCEPT !.cells = cells]
        BY <1>1 DEF ScreenType
      <4> HIDE DEF v, cells
      <4>5. t = [v EXCEPT !.log = log]
        BY <1>1, <4>2, <4>3, <4>4 DEF ScreenType
      <4> HIDE DEF log
      <4>. QED
        BY <1>1, <4>4, <4>5 DEF ScreenType
    <3> HIDE DEF cells, log
    <3>6. /\ t \in ScreenType /\ t.cells = cells /\ t.cur = s.cur /\ t.unlogged = s.unlogged
          /\ t.x = s.x /\ t.y = s.y /\ t.logOn = s.logOn /\ t.log = log
          /\ t.limX = s.limX /\ t.limY = s.limY /\ t.fence = s.fence
      BY <1>1, <2>2, <3>2, <3>3 DEF ScreenType
    <3> HIDE DEF t
    <3>7. LastPage(t.log) = LastPage(s.log)
      BY <3>2, <3>6 DEF LastPage
    <3>8. ASSUME b, ~t.unlogged, NEW j \in 1 .. PageCells
          PROVE  t.cells[j] = t.log[t.cur + j]
      <4>1. s.cells[j] = s.log[s.cur + j]
        BY <1>2, <2>4, <3>6, <3>8 DEF Shows
      <4>2. s.cur + j \in 1 .. Len(s.log) /\ (s.cur + j = k <=> j = i)
        BY <1>1, <1>2, <2>1, <2>4
      <4>. QED
        BY <2>2, <3>2, <3>6, <4>1, <4>2
    <3>9. Good(t, h, b) /\ AtEnd(t)
      <4>1. InOrder(t, h)
        BY <2>2, <3>2, <3>6 DEF Good, InOrder
      <4>2. Shows(t, b)
        BY <1>2, <2>4, <3>6, <3>7, <3>8 DEF Shows
      <4>. QED
        BY <1>2, <2>4, <3>6, <3>7, <4>1, <4>2 DEF Good, AtEnd
    <3>10. ASSUME c = Blank => s.fence <= off
           PROVE  Fenced(s, t)
      <4>1. ASSUME NEW j \in 1 .. PageCells, j <= s.fence, Page(s)[j] # Blank
            PROVE  Page(t)[j] # Blank
        <5>1. Page(s)[j] = s.log[LastPage(s.log) + j] /\ Page(t)[j] = t.log[LastPage(t.log) + j]
          BY <2>4, <3>6, <3>9, PageIs
        <5>2. LastPage(s.log) + j \in 1 .. Len(s.log) /\ (LastPage(s.log) + j = k <=> j = i)
          <6> DEFINE L == LastPage(s.log)
          <6>1. L \in Nat /\ L + PageCells = Len(s.log) /\ s.cur = L
            BY <1>2, <2>4
          <6> HIDE DEF L
          <6>2. L + j \in 1 .. Len(s.log) /\ (L + j = k <=> j = i)
            BY <1>1, <2>1, <6>1
          <6>. QED
            BY <6>2 DEF L
        <5>3. j = i => c # Blank
          BY <1>1, <2>1, <3>10, <4>1
        <5>. QED
          BY <3>2, <3>6, <3>7, <4>1, <5>1, <5>2, <5>3
      <4>. QED
        BY <4>1 DEF Fenced
    <3>11. History(s, t)
      <4>1. ASSUME NEW j \in 1 .. LastPage(s.log)
            PROVE  j \in 1 .. Len(s.log) /\ j # k
        BY <1>1, <1>2, <2>1, <2>4
      <4>. QED
        BY <3>2, <3>6, <4>1 DEF History
    <3>12. Same(s, t)
      BY <1>1, <2>4, <3>6 DEF Same
    <3>. QED
      BY <3>2, <3>6, <3>9, <3>10, <3>11, <3>12 DEF t
  <2>. QED
    BY <2>3, <2>4
<1>. QED
  BY <1>3, <1>4, <1>5

\* The cell that a backspace clears lies behind the fence.
LEMMA RuboutBehindFence ==
    ASSUME NEW b \in BOOLEAN, NEW s, NEW h, Good(s, h, b), MayRubout(s), s.limX >= 0
    PROVE  Offset(s) - 1 \in Nat /\ s.fence <= Offset(s) - 1
<1>1. /\ s.x \in Int /\ s.y \in Nat /\ s.limX \in Nat /\ s.limY \in Nat /\ s.fence \in Nat
      /\ s.fence <= s.limX + Width * s.limY
  BY ScreenAssumption DEF Good, InOrder, ScreenType, XS
<1>2. s.y >= s.limY /\ s.x > s.limX
  BY DEF MayRubout
<1> DEFINE k == s.y - s.limY
<1>3. k \in Nat /\ s.y = s.limY + k
  BY <1>1, <1>2
<1> HIDE DEF k
<1>4. Width * s.y = Width * s.limY + Width * k
  BY <1>1, <1>3, ScreenSizes
<1>5. Width * s.limY \in Nat /\ Width * k \in Nat
  BY <1>1, <1>3, ScreenSizes
<1>6. Offset(s) = s.x + Width * s.y
  BY DEF Offset
<1>. QED
  BY ONLY <1>1, <1>2, <1>4, <1>5, <1>6

\* The cursor moves and nothing else.
LEMMA CursorMoves ==
    ASSUME NEW b \in BOOLEAN, NEW past \in BOOLEAN, NEW s, NEW t, NEW h, NEW m, Good(s, h, b), AtEnd(s), t \in ScreenType, t.y <= m,
           t.cells = s.cells, t.cur = s.cur, t.logOn = s.logOn, t.log = s.log,
           t.limX = s.limX, t.limY = s.limY, t.fence = s.fence, t.unlogged = s.unlogged
    PROVE  Good(t, m, b) /\ AtEnd(t) /\ Keeps(s, t, past)
<1>1. s \in ScreenType
  BY DEF Good, InOrder
<1>2. Keeps(s, t, past)
  BY <1>1, KeepsSame
<1>3. Good(t, m, b) /\ AtEnd(t)
  BY DEF Good, InOrder, Shows, AtEnd
<1>. QED
  BY <1>2, <1>3

\* The column stays in an i8.
LEMMA XRange ==
    /\ 0 \in XS /\ 0 .. Width \subseteq XS /\ XS \subseteq Int
    /\ \A x \in XS : /\ Narrow(x + 1) \in XS
                     /\ Narrow(x + TabSize - PastTab(x)) \in XS
                     /\ x > 0 => x - 1 \in XS
<1>1. /\ MaxX \in Nat /\ Width \in Nat /\ TabSize \in Nat \ {0}
      /\ MaxX >= Width /\ MaxX >= TabSize
  BY ScreenAssumption
<1>2. 0 \in XS /\ 0 .. Width \subseteq XS /\ XS \subseteq Int
  BY <1>1 DEF XS
<1>3. ASSUME NEW x \in XS
      PROVE  /\ Narrow(x + 1) \in XS
             /\ Narrow(x + TabSize - PastTab(x)) \in XS
             /\ x > 0 => x - 1 \in XS
  <2>1. x \in Int /\ -(MaxX + 1) <= x /\ x <= MaxX
    BY <1>1 DEF XS
  <2>2. Narrow(x + 1) \in XS /\ (x > 0 => x - 1 \in XS)
    BY <1>1, <2>1 DEF Narrow, XS
  <2> DEFINE p == PastTab(x)
  <2>3. p \in Int /\ p < TabSize /\ (x >= 0 => 0 <= p) /\ (x < 0 => x <= p /\ p <= 0)
    <3>1. CASE x >= 0
      BY <1>1, <2>1, <3>1 DEF PastTab
    <3>2. CASE x < 0
      <4> DEFINE n == -x
      <4>1. n \in Nat
        BY <2>1, <3>2
      <4>2. p = -(n % TabSize)
        BY <3>2 DEF PastTab
      <4> HIDE DEF n, p
      <4>3. n % TabSize \in Nat /\ n % TabSize <= n
        <5> DEFINE q == n \div TabSize
                   r == n % TabSize
        <5>1. q \in Nat /\ r \in Nat /\ n = TabSize * q + r
          BY <1>1, <4>1
        <5> HIDE DEF q, r
        <5>2. TabSize * q \in Nat
          BY <1>1, <5>1
        <5>. QED
          BY <4>1, <5>1, <5>2 DEF r
      <4> DEFINE m == n % TabSize
      <4> HIDE DEF m
      <4>4. m \in Nat /\ m <= n /\ p = -m
        BY <4>2, <4>3 DEF m
      <4>5. n = -x
        BY DEF n
      <4>. QED
        BY <1>1, <2>1, <3>2, <4>4, <4>5
    <3>. QED
      BY <2>1, <3>1, <3>2
  <2> HIDE DEF p
  <2>4. Narrow(x + TabSize - p) \in XS
    BY <1>1, <2>1, <2>3 DEF Narrow, XS
  <2>. QED
    BY <2>2, <2>4 DEF p
<1>. QED
  BY <1>2, <1>3

\* There is a last column with something in it, or none.
LEMMA EndOfTextIs ==
    ASSUME NEW s, NEW off
    PROVE  EndOfText(s, off) \in 0 .. Width
<1> DEFINE F == Filled(s, off)
           back == {Width - i : i \in F}
<1>1. Width \in Nat
  BY ScreenSizes
<1>2. F \subseteq 0 .. Width /\ 0 \in F
  BY <1>1 DEF Filled
<1> HIDE DEF F
<1>3. back \in SUBSET Nat /\ back # {}
  BY <1>1, <1>2
<1>4. PICK m \in back : \A n \in back : m <= n
  BY <1>3, HasLeast
<1>5. PICK i \in F : m = Width - i
  BY <1>4
<1>6. ASSUME NEW j \in F
      PROVE  j <= i
  <2>1. m <= Width - j
    BY <1>4, <1>6
  <2>. QED
    BY <1>1, <1>2, <1>5, <2>1
<1>7. (CHOOSE e \in F : \A j \in F : j <= e) \in F
  <2> HIDE DEF back
  <2>. QED
    BY <1>5, <1>6, Zenon
<1>. QED
  BY <1>2, <1>7 DEF EndOfText, F

\* The log loses its last line, and the rest of it is what it was.
LEMMA LineRemoved ==
    ASSUME NEW b \in BOOLEAN, NEW s, NEW h, Good(s, h, b), AtEnd(s), s.logOn, s.cur >= Width
    PROVE  LET t == [s EXCEPT !.cur = s.cur - Width, !.log = SubSeq(s.log, 1, Len(s.log) - Width)]
           IN  /\ InOrder(t, h) /\ t.cur + PageCells = Len(t.log)
               /\ t.logOn /\ Same(s, t) /\ History(s, t) /\ t.x = s.x
<1> DEFINE n == Len(s.log) - Width
           l == SubSeq(s.log, 1, n)
           c == s.cur - Width
           t == [s EXCEPT !.cur = c, !.log = l]
<1>1. /\ s \in ScreenType /\ s.log \in Seq(ScreenCells) /\ s.cur \in Nat /\ Len(s.log) \in Nat
      /\ s.fence \in Nat /\ Width \in Nat \ {0} /\ PageCells \in Nat /\ Width <= PageCells
  BY LenProperties, ScreenSizes DEF Good, InOrder, ScreenType
<1>2. s.cur = LastPage(s.log) /\ s.cur + PageCells = Len(s.log)
  BY <1>1, LastPageIs DEF Good, AtEnd
<1>3. n \in Nat /\ n <= Len(s.log) /\ c \in Nat /\ c + PageCells = n /\ LastPage(s.log) <= n
  BY <1>1, <1>2
<1>4. l \in Seq(ScreenCells) /\ Len(l) = n /\ \A i \in 1 .. n : l[i] = s.log[i]
  <2> HIDE DEF n
  <2>1. \A i \in 1 .. n : s.log[i] \in ScreenCells
    BY <1>1, <1>3, ElementOfSeq
  <2>2. /\ SubSeq(s.log, 1, n) \in Seq(ScreenCells)
        /\ Len(SubSeq(s.log, 1, n)) = IF 1 <= n THEN n - 1 + 1 ELSE 0
        /\ \A i \in 1 .. n - 1 + 1 : SubSeq(s.log, 1, n)[i] = s.log[1 + i - 1]
    BY <1>3, <2>1, SubSeqProperties
  <2>3. \A i \in 1 .. n : i \in 1 .. n - 1 + 1 /\ 1 + i - 1 = i
    BY <1>3
  <2> HIDE DEF l
  <2>4. (1 <= n => n - 1 + 1 = n) /\ (~(1 <= n) => n = 0)
    BY <1>3
  <2>. QED
    BY <2>2, <2>3, <2>4 DEF l
<1>5. \E k \in Nat : n = k * Width
  <2>1. PICK k \in Nat : Len(s.log) = k * Width
    BY DEF Good, InOrder
  <2>2. k # 0
    BY <1>1, <1>2, <2>1
  <2> DEFINE m == k - 1
  <2>3. m \in Nat /\ k = m + 1
    BY <2>1, <2>2
  <2> HIDE DEF m
  <2>4. k * Width = m * Width + Width /\ m * Width \in Int
    BY <1>1, <2>3
  <2>5. n = m * Width
    BY <1>1, <2>1, <2>4
  <2>. QED
    BY <2>3, <2>5
<1> HIDE DEF n, l, c
<1>6. /\ t \in ScreenType /\ t.cells = s.cells /\ t.cur = c /\ t.log = l /\ t.y = s.y
      /\ t.x = s.x /\ t.logOn = s.logOn
      /\ t.limX = s.limX /\ t.limY = s.limY /\ t.fence = s.fence
  BY <1>1, <1>3, <1>4 DEF ScreenType
<1> HIDE DEF t
<1>7. InOrder(t, h)
  <2>1. \E k \in Nat : Len(t.log) = k * Width
    BY <1>4, <1>5, <1>6
  <2>. QED
    BY <1>6, <2>1 DEF Good, InOrder
<1>8. Same(s, t)
  BY <1>1, <1>6 DEF Same
<1>9. History(s, t)
  <2>1. LastPage(s.log) \in Int
    BY <1>1, <1>2
  <2>2. \A i \in 1 .. LastPage(s.log) : i \in 1 .. n
    BY <1>3, <2>1
  <2>. QED
    BY <1>4, <1>6, <2>2 DEF History
<1>. QED
  BY <1>3, <1>4, <1>6, <1>7, <1>8, <1>9 DEF t, c, l, n

\* rubout() in column 0 or before it.
LEMMA RuboutLineGood ==
    ASSUME NEW b \in BOOLEAN, NEW s, NEW h \in Int, Good(s, h, b), AtEnd(s)
    PROVE  LET t == RuboutLine(s)
           IN  Good(t, h, b) /\ Same(s, t) /\ History(s, t)
<1> DEFINE t == RuboutLine(s)
           off == Offset(s) - 1
<1>1. /\ s \in ScreenType /\ s.cells \in Seq(ScreenCells) /\ Len(s.cells) = PageCells
      /\ s.y \in Nat /\ s.y <= h /\ s.fence \in Nat /\ s.logOn \in BOOLEAN
  BY DEF Good, InOrder, ScreenType
<1>2. CASE s.y <= 0
  <2>1. t = s
    BY <1>2 DEF RuboutLine
  <2>. QED
    BY <1>1, <2>1 DEF Same, History
<1>3. CASE ~(s.y <= 0) /\ s.logOn /\ s.cur >= Width
  <2> DEFINE r == [s EXCEPT !.cur = s.cur - Width, !.log = SubSeq(s.log, 1, Len(s.log) - Width)]
             u == Render(r)
             e == EndOfText(u, off + Width)
  <2>1. t = [u EXCEPT !.x = e]
    BY <1>3, Zenon DEF RuboutLine
  <2>2. /\ InOrder(r, h) /\ r.cur + PageCells = Len(r.log)
        /\ r.logOn /\ Same(s, r) /\ History(s, r)
    BY <1>3, LineRemoved
  <2> HIDE DEF r
  <2>3. r.cur + PageCells <= Len(r.log)
    <3>1. Len(r.log) \in Nat
      BY <2>2, LenProperties DEF InOrder, ScreenType
    <3>. QED
      BY <2>2, <3>1
  <2>4. /\ Good(u, h, b) /\ u.logOn = r.logOn /\ u.log = r.log /\ u.cur = r.cur
        /\ u.limX = r.limX /\ u.limY = r.limY /\ u.fence = r.fence
    BY <2>2, <2>3, RenderGood
  <2> HIDE DEF u
  <2>5. e \in XS
    BY EndOfTextIs, XRange
  <2> HIDE DEF e
  <2>6. u \in ScreenType
    BY <2>4 DEF Good, InOrder
  <2>7. /\ t \in ScreenType /\ t.cells = u.cells /\ t.cur = u.cur /\ t.log = u.log /\ t.y = u.y
        /\ t.logOn = u.logOn /\ t.unlogged = u.unlogged
        /\ t.limX = u.limX /\ t.limY = u.limY /\ t.fence = u.fence
    BY <2>1, <2>5, <2>6 DEF ScreenType
  <2> HIDE DEF t
  <2>8. Good(t, h, b)
    <3>1. InOrder(t, h)
      BY <2>4, <2>7 DEF Good, InOrder
    <3>2. Shows(t, b)
      BY <2>2, <2>4, <2>7 DEF Good, Shows
    <3>. QED
      BY <3>1, <3>2 DEF Good
  <2>9. Same(s, t) /\ History(s, t)
    BY <1>3, <2>2, <2>4, <2>7 DEF Same, History
  <2>. QED
    BY <2>8, <2>9 DEF t
<1>4. CASE ~(s.y <= 0) /\ ~(s.logOn /\ s.cur >= Width)
  <2> DEFINE y == s.y - 1
             cells == IF OnPage(off) THEN [s.cells EXCEPT ![off + 1] = Blank] ELSE s.cells
             u == [s EXCEPT !.y = y, !.unlogged = s.logOn, !.cells = cells]
             e == EndOfText(u, off)
  <2>1. t = [u EXCEPT !.x = e]
    <3>1. t = [[s EXCEPT !.y = s.y - 1, !.unlogged = s.logOn,
                         !.cells = IF OnPage(off) THEN [s.cells EXCEPT ![off + 1] = Blank] ELSE s.cells]
               EXCEPT !.x = EndOfText([s EXCEPT !.y = s.y - 1, !.unlogged = s.logOn,
                         !.cells = IF OnPage(off) THEN [s.cells EXCEPT ![off + 1] = Blank] ELSE s.cells], off)]
      BY <1>4, Zenon DEF RuboutLine
    <3>. QED
      BY <3>1, Zenon
  <2>2. y \in Nat /\ y <= h
    BY <1>1, <1>4
  <2>3. cells \in Seq(ScreenCells) /\ Len(cells) = PageCells
    <3>1. CASE OnPage(off)
      <4>1. PageCells \in Nat /\ Blank \in ScreenCells
        BY ScreenSizes DEF ScreenCells
      <4>2. off + 1 \in 1 .. PageCells
        BY <3>1, <4>1 DEF OnPage
      <4> HIDE DEF off
      <4>. QED
        BY <1>1, <3>1, <4>1, <4>2, ExceptSeq
    <3>2. CASE ~OnPage(off)
      BY <1>1, <3>2
    <3>. QED
      BY <3>1, <3>2
  <2> HIDE DEF cells, y
  <2>4. /\ u \in ScreenType /\ u.cells = cells /\ u.cur = s.cur /\ u.log = s.log /\ u.y = y
        /\ u.logOn = s.logOn /\ u.unlogged = s.logOn
        /\ u.limX = s.limX /\ u.limY = s.limY /\ u.fence = s.fence
    BY <1>1, <2>2, <2>3 DEF ScreenType
  <2> HIDE DEF u
  <2>5. e \in XS
    BY EndOfTextIs, XRange
  <2> HIDE DEF e
  <2>6. /\ t \in ScreenType /\ t.cells = u.cells /\ t.cur = u.cur /\ t.log = u.log /\ t.y = u.y
        /\ t.logOn = u.logOn /\ t.unlogged = u.unlogged
        /\ t.limX = u.limX /\ t.limY = u.limY /\ t.fence = u.fence
    BY <2>1, <2>4, <2>5 DEF ScreenType
  <2> HIDE DEF t
  <2>7. InOrder(t, h)
    BY <1>1, <2>2, <2>3, <2>4, <2>6 DEF Good, InOrder
  <2>8. t.logOn => Shows(t, b)
    BY <2>4, <2>6 DEF Good, Shows
  <2>9. Same(s, t) /\ History(s, t)
    BY <1>1, <2>4, <2>6 DEF Same, History
  <2>. QED
    BY <2>7, <2>8, <2>9 DEF t, Good
<1>. QED
  BY <1>2, <1>3, <1>4

\* A backspace that the rubout limit lets through.
LEMMA RuboutGood ==
    ASSUME NEW b \in BOOLEAN, NEW s, Good(s, Height - 1, b), AtEnd(s), MayRubout(s)
    PROVE  LET t == Rubout(s)
           IN  /\ Good(t, Height - 1, b) /\ Same(s, t)
               /\ s.x >= 0 => History(s, t)
               /\ s.limX >= 0 => Fenced(s, t)
<1> DEFINE t == Rubout(s)
<1>1. /\ s \in ScreenType /\ s.x \in XS /\ s.x \in Int /\ s.y \in Nat /\ s.limX \in Int
      /\ Width \in Nat
  BY XRange, ScreenSizes DEF Good, InOrder, ScreenType
<1>2. CASE s.x > 0
  <2> DEFINE x == s.x - 1
             u == [s EXCEPT !.x = x]
             off == Offset(s) - 1
             past == TRUE
             v == Store(u, off, Blank)
  <2>1. t = v
    BY <1>2, Zenon DEF Rubout
  <2>2. x \in XS /\ off \in Int /\ off >= 0
    <3>1. x \in XS
      BY <1>1, <1>2, XRange
    <3>2. Width * s.y \in Nat
      BY <1>1
    <3>. QED
      BY <1>1, <1>2, <3>1, <3>2 DEF Offset
  <2> HIDE DEF x, off
  <2>3. /\ u \in ScreenType /\ u.y = s.y /\ u.cells = s.cells /\ u.cur = s.cur
        /\ u.logOn = s.logOn /\ u.log = s.log /\ u.unlogged = s.unlogged
        /\ u.limX = s.limX /\ u.limY = s.limY /\ u.fence = s.fence
    BY <1>1, <2>2 DEF ScreenType
  <2> HIDE DEF u
  <2>4. s.y <= Height - 1
    BY DEF Good, InOrder
  <2>5. past \in BOOLEAN
    OBVIOUS
  <2> HIDE DEF past
  <2>6. Good(u, Height - 1, b) /\ AtEnd(u) /\ Keeps(s, u, past)
    BY <2>3, <2>4, <2>5, CursorMoves
  <2>7. Blank \in ScreenCells
    BY DEF ScreenCells
  <2>8. /\ Good(v, Height - 1, b) /\ Same(u, v) /\ Len(v.log) = Len(u.log) /\ (past => History(u, v))
        /\ (Blank = Blank => u.fence <= off) => Fenced(u, v)
    BY <2>2, <2>5, <2>6, <2>7, StoreGood
  <2>9. past = TRUE
    BY DEF past
  <2> HIDE DEF v
  <2>10. v \in ScreenType /\ Same(s, u) /\ History(s, u) /\ Fenced(s, u)
         /\ (u.logOn => Len(s.log) <= Len(u.log))
    BY <2>6, <2>8, <2>9 DEF Good, InOrder, Keeps
  <2>11. Same(s, v)
    BY <1>1, <2>3, <2>8, <2>10, SameTrans
  <2>12. History(s, v)
    BY <1>1, <2>3, <2>8, <2>9, <2>10, HistoryTrans
  <2>13. s.limX >= 0 => Fenced(s, v)
    <3>1. s.limX >= 0 => u.fence <= off
      BY <2>3, RuboutBehindFence DEF off
    <3>. QED
      BY <1>1, <2>3, <2>8, <2>10, <3>1, FencedTrans
  <2>. QED
    BY <2>1, <2>8, <2>11, <2>12, <2>13
<1>3. CASE ~(s.x > 0)
  <2>1. t = RuboutLine(s)
    BY <1>3 DEF Rubout
  <2>2. Good(t, Height - 1, b) /\ Same(s, t) /\ History(s, t)
    <3>1. Height - 1 \in Int
      BY ScreenSizes
    <3>. QED
      BY <2>1, <3>1, RuboutLineGood
  <2>3. ~(s.limX >= 0)
    BY <1>1, <1>3 DEF MayRubout
  <2>. QED
    BY <2>2, <2>3
<1>. QED
  BY <1>2, <1>3

\* What put does with each character.
LEMMA PutCharIs ==
    ASSUME NEW s, NEW c \in ScreenChars
    PROVE  LET w == Store(s, Offset(s), "a")
           IN  /\ c = LF => PutChar(s, c) = [s EXCEPT !.x = 0, !.y = s.y + 1]
               /\ c = BKSP => PutChar(s, c) = IF MayRubout(s) THEN Rubout(s) ELSE s
               /\ c = TAB => PutChar(s, c) = [s EXCEPT !.x = Narrow(s.x + TabSize - PastTab(s.x))]
               /\ c = CR => PutChar(s, c) = [s EXCEPT !.x = 0]
               /\ c = "a" => PutChar(s, c) =
                     IF Narrow(s.x + 1) >= Width THEN [w EXCEPT !.x = 0, !.y = w.y + 1]
                     ELSE [w EXCEPT !.x = Narrow(w.x + 1)]
<1> DEFINE nl == [s EXCEPT !.x = 0, !.y = s.y + 1]
           bs == IF MayRubout(s) THEN Rubout(s) ELSE s
           tab == [s EXCEPT !.x = Narrow(s.x + TabSize - PastTab(s.x))]
           cr == [s EXCEPT !.x = 0]
           other(d) == LET w == Store(s, Offset(s), d)
                       IN  IF Narrow(s.x + 1) >= Width THEN [w EXCEPT !.x = 0, !.y = w.y + 1]
                           ELSE [w EXCEPT !.x = Narrow(w.x + 1)]
<1>1. PutChar(s, c) = CASE c = LF -> nl [] c = BKSP -> bs [] c = TAB -> tab [] c = CR -> cr
                        [] OTHER -> other(c)
  BY DEF PutChar
<1> HIDE DEF nl, bs, tab, cr, other
<1>2. /\ c = LF => PutChar(s, c) = nl
      /\ c = BKSP => PutChar(s, c) = bs
      /\ c = TAB => PutChar(s, c) = tab
      /\ c = CR => PutChar(s, c) = cr
      /\ c = "a" => PutChar(s, c) = other("a")
  BY <1>1 DEF LF, BKSP, TAB, CR
<1>. QED
  BY <1>2, Zenon DEF nl, bs, tab, cr, other

\* put before new lines are added: the cursor may be one row below the screen.
LEMMA PutCharGood ==
    ASSUME NEW b \in BOOLEAN, NEW past \in BOOLEAN, NEW s, Good(s, Height - 1, b), AtEnd(s),
           NEW c \in ScreenChars, c # BKSP, past => s.x >= 0 \/ c # "a"
    PROVE  LET t == PutChar(s, c)
           IN  Good(t, Height, b) /\ AtEnd(t) /\ Keeps(s, t, past) /\ t.logOn = s.logOn
<1> DEFINE t == PutChar(s, c)
<1>1. /\ s \in ScreenType /\ s.x \in XS /\ s.x \in Int /\ s.y \in Nat /\ s.y <= Height - 1
      /\ s.logOn \in BOOLEAN /\ Height \in Nat /\ Width \in Nat
  BY ScreenSizes, XRange DEF Good, InOrder, ScreenType
<1>2. s.y <= Height /\ s.y + 1 <= Height
  BY <1>1
<1>3. Good(s, Height, b)
  BY <1>2 DEF Good, InOrder
<1>4. CASE c = LF
  <2> DEFINE y == s.y + 1
  <2>1. t = [s EXCEPT !.x = 0, !.y = y] /\ y \in Nat
    <3>1. t = [s EXCEPT !.x = 0, !.y = y]
      BY <1>4, PutCharIs, Zenon
    <3>. QED
      BY <1>1, <3>1
  <2> HIDE DEF y, t
  <2>2. /\ t \in ScreenType /\ t.y = y /\ t.cells = s.cells /\ t.cur = s.cur
        /\ t.logOn = s.logOn /\ t.log = s.log /\ t.unlogged = s.unlogged
        /\ t.limX = s.limX /\ t.limY = s.limY /\ t.fence = s.fence
    BY <1>1, <2>1, XRange DEF ScreenType
  <2>3. Good(t, Height, b) /\ AtEnd(t) /\ Keeps(s, t, past)
    BY <1>2, <2>2, CursorMoves DEF y
  <2>. QED
    BY <2>2, <2>3 DEF t
<1>5. ASSUME NEW x \in XS, t = [s EXCEPT !.x = x]
      PROVE  Good(t, Height, b) /\ AtEnd(t) /\ Keeps(s, t, past) /\ t.logOn = s.logOn
  <2> HIDE DEF t
  <2>1. /\ t \in ScreenType /\ t.y = s.y /\ t.cells = s.cells /\ t.cur = s.cur
        /\ t.logOn = s.logOn /\ t.log = s.log /\ t.unlogged = s.unlogged
        /\ t.limX = s.limX /\ t.limY = s.limY /\ t.fence = s.fence
    BY <1>1, <1>5 DEF ScreenType
  <2>2. Good(t, Height, b) /\ AtEnd(t) /\ Keeps(s, t, past)
    BY <1>2, <2>1, CursorMoves
  <2>. QED
    BY <2>1, <2>2
<1>6. CASE c = TAB
  <2>1. t = [s EXCEPT !.x = Narrow(s.x + TabSize - PastTab(s.x))]
    BY <1>6, PutCharIs
  <2>2. Narrow(s.x + TabSize - PastTab(s.x)) \in XS
    BY <1>1, XRange
  <2>3. Good(t, Height, b) /\ AtEnd(t) /\ Keeps(s, t, past) /\ t.logOn = s.logOn
    <3> HIDE DEF t
    <3>. QED
      BY <1>5, <2>1, <2>2
  <2>. QED
    BY <2>3
<1>7. CASE c = CR
  <2>1. t = [s EXCEPT !.x = 0]
    BY <1>7, PutCharIs
  <2>2. 0 \in XS
    BY XRange
  <2>3. Good(t, Height, b) /\ AtEnd(t) /\ Keeps(s, t, past) /\ t.logOn = s.logOn
    <3> HIDE DEF t
    <3>. QED
      BY <1>5, <2>1, <2>2
  <2>. QED
    BY <2>3
<1>8. CASE c = "a"
  <2> DEFINE off == Offset(s)
             w == Store(s, off, "a")
  <2>1. off \in Int /\ (past => off >= 0)
    <3>1. Width * s.y \in Nat
      BY <1>1
    <3>. QED
      BY <1>1, <1>8, <3>1 DEF Offset
  <2>2. "a" \in ScreenCells /\ "a" # Blank
    BY DEF ScreenCells, Blank
  <2>3. t = IF Narrow(s.x + 1) >= Width THEN [w EXCEPT !.x = 0, !.y = w.y + 1]
            ELSE [w EXCEPT !.x = Narrow(w.x + 1)]
    BY <1>8, PutCharIs
  <2> HIDE DEF off
  <2>4. /\ Good(w, Height, b) /\ AtEnd(w)
        /\ Same(s, w) /\ Len(w.log) = Len(s.log) /\ (past => History(s, w)) /\ Fenced(s, w)
        /\ w.x = s.x /\ w.y = s.y /\ w.logOn = s.logOn
    BY <1>3, <2>1, <2>2, StoreGood
  <2> HIDE DEF w
  <2>5. w \in ScreenType /\ Len(s.log) \in Nat
    BY <1>1, <2>4, LenProperties DEF Good, InOrder, ScreenType
  <2>6. Keeps(s, w, past)
    BY <2>4, <2>5 DEF Keeps
  <2>7. /\ t \in ScreenType /\ t.y \in {s.y, s.y + 1} /\ t.cells = w.cells /\ t.cur = w.cur
        /\ t.logOn = w.logOn /\ t.log = w.log /\ t.unlogged = w.unlogged
        /\ t.limX = w.limX /\ t.limY = w.limY /\ t.fence = w.fence
    <3>1. CASE Narrow(s.x + 1) >= Width
      <4> DEFINE y == w.y + 1
      <4>1. t = [w EXCEPT !.x = 0, !.y = y]
        BY <2>3, <3>1
      <4>2. y \in Nat /\ y = s.y + 1 /\ 0 \in XS
        BY <1>1, <2>4, XRange
      <4> HIDE DEF y, t
      <4>. QED
        BY <2>5, <4>1, <4>2 DEF ScreenType
    <3>2. CASE ~(Narrow(s.x + 1) >= Width)
      <4> DEFINE x == Narrow(w.x + 1)
      <4>1. t = [w EXCEPT !.x = x]
        BY <2>3, <3>2
      <4>2. x \in XS
        BY <1>1, <2>4, XRange
      <4> HIDE DEF x, t
      <4>. QED
        BY <2>4, <2>5, <4>1, <4>2 DEF ScreenType
    <3>. QED
      BY <3>1, <3>2
  <2> HIDE DEF t
  <2>8. t.y <= Height
    BY <1>2, <2>7
  <2>9. Good(t, Height, b) /\ AtEnd(t) /\ Keeps(w, t, past)
    BY <2>4, <2>7, <2>8, CursorMoves
  <2>10. Keeps(s, t, past)
    BY <1>1, <2>5, <2>6, <2>7, <2>9, KeepsTrans
  <2>. QED
    BY <2>4, <2>7, <2>9, <2>10 DEF t
<1>. QED
  BY <1>4, <1>6, <1>7, <1>8 DEF ScreenChars

\* newLines is called for one line at most.
LEMMA OneLine ==
    ASSUME NEW b \in BOOLEAN, NEW p, Good(p, Height, b), ~(NewLinesDue(p) <= 0)
    PROVE  p.y = Height /\ NewLinesDue(p) = 1
  BY ScreenSizes DEF Good, InOrder, ScreenType, NewLinesDue

\* newLines: the framebuffer.
LEMMA ShiftUpIs ==
    ASSUME NEW b \in BOOLEAN, NEW p, Good(p, Height, b), p.y = Height
    PROVE  LET t == ShiftUp(p, 1)
           IN  /\ t \in ScreenType /\ t.y = Height - 1 /\ Len(t.cells) = PageCells
               /\ \A i \in 1 .. PageCells :
                     t.cells[i] = IF i + Width <= PageCells THEN p.cells[i + Width] ELSE Blank
               /\ t.cur = p.cur /\ t.logOn = p.logOn /\ t.log = p.log
               /\ t.limX = p.limX /\ t.limY = p.limY /\ t.unlogged = p.unlogged
               /\ t.fence <= p.fence /\ (t.fence = p.fence => p.fence = 0)
               /\ InOrder(t, Height - 1)
<1> DEFINE t == ShiftUp(p, 1)
           W == Width
           fence == IF p.fence < W THEN 0 ELSE p.fence - W
           old == SubSeq(p.cells, W + 1, PageCells)
           cells == old \o Blanks(W)
           y == p.y - 1
<1>1. /\ p \in ScreenType /\ p.cells \in Seq(ScreenCells) /\ Len(p.cells) = PageCells
      /\ p.fence \in Nat
      /\ W \in Nat \ {0} /\ PageCells \in Nat /\ W <= PageCells /\ Height \in Nat \ {0}
  BY ScreenSizes DEF Good, InOrder, ScreenType
<1>2. y \in Nat /\ y = Height - 1 /\ fence \in Nat /\ fence <= p.fence
      /\ (fence = p.fence => p.fence = 0)
  BY <1>1
<1>3. 1 * Width = W
  BY <1>1
<1>4. t = [p EXCEPT !.y = p.y - 1,
                    !.fence = IF p.fence < 1 * Width THEN 0 ELSE p.fence - 1 * Width,
                    !.cells = SubSeq(p.cells, 1 * Width + 1, PageCells) \o Blanks(1 * Width)]
  BY Zenon DEF ShiftUp
<1>5. t = [p EXCEPT !.y = y, !.fence = fence, !.cells = cells]
  BY <1>3, <1>4, Zenon
<1> HIDE DEF W, t, fence, y
<1>6. /\ old \in Seq(ScreenCells) /\ Len(old) = PageCells - W
      /\ \A i \in 1 .. PageCells - W : old[i] = p.cells[i + W]
  <2>1. \A i \in W + 1 .. PageCells : p.cells[i] \in ScreenCells
    BY <1>1, ElementOfSeq
  <2>2. /\ old \in Seq(ScreenCells)
        /\ Len(old) = IF W + 1 <= PageCells THEN PageCells - (W + 1) + 1 ELSE 0
        /\ \A i \in 1 .. PageCells - (W + 1) + 1 : old[i] = p.cells[(W + 1) + i - 1]
    <3> DEFINE a == W + 1
    <3>1. a \in Int /\ PageCells \in Int
      BY <1>1
    <3>2. \A i \in a .. PageCells : p.cells[i] \in ScreenCells
      BY <2>1
    <3> HIDE DEF a
    <3>3. /\ SubSeq(p.cells, a, PageCells) \in Seq(ScreenCells)
          /\ Len(SubSeq(p.cells, a, PageCells)) = IF a <= PageCells THEN PageCells - a + 1 ELSE 0
          /\ \A i \in 1 .. PageCells - a + 1 :
                SubSeq(p.cells, a, PageCells)[i] = p.cells[a + i - 1]
      BY <3>1, <3>2, SubSeqProperties
    <3>. QED
      BY <3>3 DEF a
  <2>3. \A i \in 1 .. PageCells - W : (W + 1) + i - 1 = i + W
    BY <1>1
  <2> HIDE DEF old
  <2>. QED
    BY <1>1, <2>2, <2>3
<1> HIDE DEF old
<1>7. /\ cells \in Seq(ScreenCells) /\ Len(cells) = PageCells
      /\ \A i \in 1 .. PageCells :
            cells[i] = IF i + W <= PageCells THEN p.cells[i + W] ELSE Blank
  <2>1. /\ Blanks(W) \in Seq(ScreenCells) /\ Len(Blanks(W)) = W
        /\ \A i \in 1 .. W : Blanks(W)[i] = Blank
    BY <1>1, BlanksAre
  <2>2. /\ cells \in Seq(ScreenCells) /\ Len(cells) = Len(old) + Len(Blanks(W))
        /\ \A i \in 1 .. Len(old) + Len(Blanks(W)) :
              cells[i] = IF i <= Len(old) THEN old[i] ELSE Blanks(W)[i - Len(old)]
    BY <1>6, <2>1, ConcatProperties, Zenon
  <2> HIDE DEF cells
  <2>3. Len(cells) = PageCells
    BY <1>1, <1>6, <2>1, <2>2
  <2>4. ASSUME NEW i \in 1 .. PageCells
        PROVE  cells[i] = IF i + W <= PageCells THEN p.cells[i + W] ELSE Blank
    <3>1. cells[i] = IF i <= PageCells - W THEN old[i] ELSE Blanks(W)[i - (PageCells - W)]
      BY <1>1, <1>6, <2>1, <2>2
    <3>2. CASE i + W <= PageCells
      <4>1. i \in 1 .. PageCells - W /\ i <= PageCells - W
        BY <1>1, <3>2
      <4>. QED
        BY <1>6, <3>1, <3>2, <4>1
    <3>3. CASE ~(i + W <= PageCells)
      <4>1. i - (PageCells - W) \in 1 .. W /\ ~(i <= PageCells - W)
        BY <1>1, <3>3
      <4>. QED
        BY <2>1, <3>1, <3>3, <4>1
    <3>. QED
      BY <3>2, <3>3
  <2>. QED
    BY <2>2, <2>3, <2>4
<1> HIDE DEF cells
<1>8. /\ t \in ScreenType /\ t.y = y /\ t.cells = cells /\ t.fence = fence
      /\ t.cur = p.cur /\ t.logOn = p.logOn /\ t.log = p.log
      /\ t.limX = p.limX /\ t.limY = p.limY /\ t.unlogged = p.unlogged
  BY <1>1, <1>2, <1>5, <1>7 DEF ScreenType
<1>9. InOrder(t, Height - 1)
  <2>1. /\ p.limX >= 0 => p.fence <= p.limX + Width * p.limY
        /\ p.limX \in Int /\ p.limY \in Nat
        /\ \E k \in Nat : Len(p.log) = k * Width
    BY DEF Good, InOrder, ScreenType
  <2>2. Width * p.limY \in Nat
    BY <2>1, ScreenSizes
  <2>3. t.limX >= 0 => t.fence <= t.limX + Width * t.limY
    BY <1>1, <1>2, <1>8, <2>1, <2>2
  <2>4. t.y <= Height - 1
    BY <1>1, <1>2, <1>8
  <2>. QED
    BY <1>7, <1>8, <2>1, <2>3, <2>4 DEF InOrder
<1>. QED
  BY <1>2, <1>7, <1>8, <1>9 DEF t, W

\* newLines with the log off.
LEMMA ShiftUpGood ==
    ASSUME NEW b \in BOOLEAN, NEW past \in BOOLEAN, NEW p, Good(p, Height, b), p.y = Height, ~p.logOn
    PROVE  LET t == ShiftUp(p, 1)
           IN  Good(t, Height - 1, b) /\ Keeps(p, t, past) /\ t.logOn = p.logOn
<1> DEFINE t == ShiftUp(p, 1)
<1>1. /\ t \in ScreenType /\ t.cur = p.cur /\ t.logOn = p.logOn /\ t.log = p.log
      /\ t.limX = p.limX /\ t.limY = p.limY
      /\ t.fence <= p.fence /\ (t.fence = p.fence => p.fence = 0)
      /\ InOrder(t, Height - 1)
  BY ShiftUpIs
<1> HIDE DEF t
<1>2. Good(t, Height - 1, b)
  BY <1>1 DEF Good
<1>3. t.fence = p.fence => \A i \in 1 .. PageCells : ~(i <= p.fence)
  BY <1>1
<1>4. Keeps(p, t, past)
  BY <1>1, <1>3 DEF Keeps, Same, History, Fenced
<1>. QED
  BY <1>1, <1>2, <1>4 DEF t

\* newLines with the log on and malloc busy: the log is given up.
LEMMA LogGivenUp ==
    ASSUME NEW b \in BOOLEAN, NEW past \in BOOLEAN, NEW p, Good(p, Height, b), p.y = Height, p.logOn
    PROVE  LET u == [ShiftUp(p, 1) EXCEPT !.logOn = FALSE]
           IN  Good(u, Height - 1, b) /\ Keeps(p, u, past) /\ ~u.logOn
<1> DEFINE t == ShiftUp(p, 1)
           u == [t EXCEPT !.logOn = FALSE]
<1>1. /\ t \in ScreenType /\ t.limX = p.limX /\ t.limY = p.limY /\ t.fence <= p.fence
      /\ InOrder(t, Height - 1)
  BY ShiftUpIs
<1> HIDE DEF t
<1>2. /\ u \in ScreenType /\ u.logOn = FALSE /\ u.cells = t.cells /\ u.y = t.y /\ u.log = t.log
      /\ u.limX = t.limX /\ u.limY = t.limY /\ u.fence = t.fence
  BY <1>1 DEF ScreenType
<1> HIDE DEF u
<1>3. Good(u, Height - 1, b)
  BY <1>1, <1>2 DEF Good, InOrder
<1>4. Keeps(p, u, past)
  BY <1>1, <1>2 DEF Keeps, Same, History, Fenced
<1>. QED
  BY <1>2, <1>3, <1>4 DEF u, t

\* newLines with the log on: the log grows by what the screen gets.
LEMMA GrowLogGood ==
    ASSUME NEW b \in BOOLEAN, NEW past \in BOOLEAN, NEW p, Good(p, Height, b), AtEnd(p), p.y = Height, p.logOn
    PROVE  LET u == GrowLog(ShiftUp(p, 1), 1)
           IN  Good(u, Height - 1, b) /\ Keeps(p, u, past) /\ u.logOn = p.logOn
<1> DEFINE t == ShiftUp(p, 1)
           W == Width
           l == p.log \o Blanks(W)
           c == LastPage(l)
           u == GrowLog(t, 1)
<1>1. /\ t \in ScreenType /\ t.logOn = p.logOn /\ t.log = p.log
      /\ t.limX = p.limX /\ t.limY = p.limY /\ t.unlogged = p.unlogged
      /\ t.fence <= p.fence /\ (t.fence = p.fence => p.fence = 0)
      /\ InOrder(t, Height - 1)
  BY ShiftUpIs
<1>2. \A i \in 1 .. PageCells :
         t.cells[i] = IF i + W <= PageCells THEN p.cells[i + W] ELSE Blank
  BY ShiftUpIs
<1> HIDE DEF t
<1>3. /\ p \in ScreenType /\ p.log \in Seq(ScreenCells) /\ Shows(p, b) /\ p.cur = LastPage(p.log)
      /\ Len(p.log) \in Nat
  BY LenProperties DEF Good, InOrder, ScreenType, AtEnd
<1>4. LastPage(p.log) \in Nat /\ LastPage(p.log) + PageCells = Len(p.log)
  BY <1>3, LastPageIs
<1>5. /\ W \in Nat \ {0} /\ PageCells \in Nat /\ W <= PageCells
  BY ScreenSizes
<1>6. 1 * Width = W
  BY ScreenSizes
<1>7. u = [t EXCEPT !.log = l, !.cur = c]
  <2>1. u = [t EXCEPT !.log = t.log \o Blanks(1 * Width),
                      !.cur = LastPage(t.log \o Blanks(1 * Width))]
    BY Zenon DEF GrowLog
  <2>. QED
    BY <1>1, <1>6, <2>1, Zenon
<1> HIDE DEF W, u
<1>8. /\ l \in Seq(ScreenCells) /\ Len(l) = Len(p.log) + W
      /\ \A i \in 1 .. Len(p.log) + W : l[i] = IF i <= Len(p.log) THEN p.log[i] ELSE Blank
  <2>1. /\ Blanks(W) \in Seq(ScreenCells) /\ Len(Blanks(W)) = W
        /\ \A i \in 1 .. W : Blanks(W)[i] = Blank
    BY <1>5, BlanksAre
  <2>2. /\ l \in Seq(ScreenCells) /\ Len(l) = Len(p.log) + Len(Blanks(W))
        /\ \A i \in 1 .. Len(p.log) + Len(Blanks(W)) :
              l[i] = IF i <= Len(p.log) THEN p.log[i] ELSE Blanks(W)[i - Len(p.log)]
    <3> DEFINE s1 == p.log
               s2 == Blanks(W)
    <3>1. s1 \in Seq(ScreenCells) /\ s2 \in Seq(ScreenCells)
      BY <1>3, <2>1, Zenon
    <3>2. l = s1 \o s2
      OBVIOUS
    <3> HIDE DEF l, s1, s2
    <3>3. /\ s1 \o s2 \in Seq(ScreenCells) /\ Len(s1 \o s2) = Len(s1) + Len(s2)
          /\ \A i \in 1 .. Len(s1) + Len(s2) :
                (s1 \o s2)[i] = IF i <= Len(s1) THEN s1[i] ELSE s2[i - Len(s1)]
      BY ONLY <3>1, ConcatProperties, Zenon
    <3>. QED
      BY ONLY <3>2, <3>3, Zenon DEF s1, s2
  <2> HIDE DEF l
  <2>3. ASSUME NEW i \in 1 .. Len(p.log) + W
        PROVE  l[i] = IF i <= Len(p.log) THEN p.log[i] ELSE Blank
    <3>1. ~(i <= Len(p.log)) => i - Len(p.log) \in 1 .. W
      BY <1>3, <1>5
    <3>. QED
      BY <2>1, <2>2, <3>1
  <2>. QED
    BY <2>1, <2>2, <2>3
<1>9. c \in Nat /\ c = LastPage(p.log) + W
  <2> HIDE DEF l
  <2>. QED
    BY <1>3, <1>4, <1>5, <1>8 DEF LastPage
<1> HIDE DEF l, c
<1>10. /\ u \in ScreenType /\ u.log = l /\ u.cur = c /\ u.cells = t.cells /\ u.y = t.y
       /\ u.unlogged = t.unlogged /\ u.logOn = t.logOn /\ u.limX = t.limX /\ u.limY = t.limY /\ u.fence = t.fence
  BY <1>1, <1>7, <1>8, <1>9 DEF ScreenType
<1>11. ASSUME b, ~u.unlogged, NEW i \in 1 .. PageCells
       PROVE  u.cells[i] = u.log[u.cur + i]
  <2>1. c + i \in 1 .. Len(p.log) + W /\ c + i = LastPage(p.log) + (i + W)
    BY <1>3, <1>4, <1>5, <1>9
  <2>2. CASE i + W <= PageCells
    <3>1. i + W \in 1 .. PageCells /\ c + i <= Len(p.log)
      BY <1>3, <1>4, <1>5, <1>9, <2>2
    <3>2. t.cells[i] = p.cells[i + W]
      BY <1>2, <2>2
    <3>3. p.cells[i + W] = p.log[LastPage(p.log) + (i + W)]
      BY <1>1, <1>3, <1>10, <1>11, <3>1 DEF Shows
    <3>. QED
      BY <1>8, <1>10, <2>1, <3>1, <3>2, <3>3
  <2>3. CASE ~(i + W <= PageCells)
    <3>1. ~(c + i <= Len(p.log))
      BY <1>3, <1>4, <1>5, <1>9, <2>3
    <3>. QED
      BY <1>2, <1>8, <1>10, <2>1, <2>3, <3>1
  <2>. QED
    BY <2>2, <2>3
<1>12. \E k \in Nat : Len(u.log) = k * Width
  <2>1. PICK k \in Nat : Len(p.log) = k * Width
    BY DEF Good, InOrder
  <2>2. (k + 1) * Width = k * Width + Width /\ k + 1 \in Nat
    BY <2>1, ScreenSizes
  <2>. QED
    BY <1>8, <1>10, <2>1, <2>2 DEF W
<1>13. Good(u, Height - 1, b)
  <2>1. u.cur <= LastPage(u.log)
    BY <1>9, <1>10 DEF c
  <2>2. Shows(u, b)
    BY <1>11, <2>1 DEF Shows
  <2>3. InOrder(u, Height - 1)
    BY <1>1, <1>10, <1>12 DEF InOrder
  <2>. QED
    BY <2>2, <2>3 DEF Good
<1>14. Keeps(p, u, past)
  <2>1. u.fence = p.fence => \A i \in 1 .. PageCells : ~(i <= p.fence)
    BY <1>1, <1>10
  <2>2. \A i \in 1 .. LastPage(p.log) : i \in 1 .. Len(p.log) + W /\ i <= Len(p.log)
    BY <1>3, <1>4, <1>5
  <2>3. \A i \in 1 .. LastPage(p.log) : u.log[i] = p.log[i]
    BY <1>8, <1>10, <2>2
  <2>4. Len(p.log) <= Len(u.log)
    BY <1>3, <1>5, <1>8, <1>10
  <2>. QED
    BY <1>1, <1>10, <2>1, <2>3, <2>4 DEF Keeps, Same, History, Fenced
<1>. QED
  BY <1>1, <1>10, <1>13, <1>14 DEF u, t

\* put with the log off, or with malloc at hand.
LEMMA PutReadyGood ==
    ASSUME NEW b \in BOOLEAN, NEW past \in BOOLEAN, NEW s, Good(s, Height - 1, b), NEW c \in ScreenChars,
           c # BKSP, past => s.x >= 0 \/ c # "a"
    PROVE  LET t == PutReady(s, c)
           IN  Good(t, Height - 1, b) /\ Keeps(s, t, past) /\ t.logOn = s.logOn
<1> DEFINE e == ToEnd(s)
           p == PutChar(e, c)
           n == NewLinesDue(p)
           t == IF n <= 0 THEN p
                ELSE IF p.logOn THEN GrowLog(ShiftUp(p, n), n)
                ELSE ShiftUp(p, n)
<1>1. /\ Good(e, Height - 1, b) /\ AtEnd(e) /\ Keeps(s, e, past) /\ e.logOn = s.logOn
      /\ e.x = s.x
  BY ToEndGood
<1>2. PutReady(s, c) = t
  BY DEF PutReady
<1> HIDE DEF e
<1>3. Good(p, Height, b) /\ AtEnd(p) /\ Keeps(e, p, past) /\ p.logOn = e.logOn
  BY <1>1, PutCharGood
<1> HIDE DEF p
<1>4. s \in ScreenType /\ e \in ScreenType /\ p \in ScreenType
  BY <1>1, <1>3 DEF Good, InOrder
<1>5. Keeps(s, p, past)
  BY <1>1, <1>3, <1>4, KeepsTrans
<1>6. CASE n <= 0
  <2>1. Good(p, Height - 1, b)
    <3>1. p.y \in Nat /\ Height \in Nat
      BY <1>4, ScreenSizes DEF ScreenType
    <3>2. p.y <= Height - 1
      BY <1>6, <3>1 DEF NewLinesDue
    <3>. QED
      BY <1>3, <3>2 DEF Good, InOrder
  <2>. QED
    BY <1>1, <1>2, <1>3, <1>5, <1>6, <2>1
<1>7. CASE ~(n <= 0)
  <2>1. p.y = Height /\ n = 1
    BY <1>3, <1>7, OneLine
  <2>2. PICK u : /\ PutReady(s, c) = u
                 /\ Good(u, Height - 1, b) /\ Keeps(p, u, past) /\ u.logOn = p.logOn
    <3>1. CASE p.logOn
      <4>1. PutReady(s, c) = GrowLog(ShiftUp(p, 1), 1)
        BY <1>2, <1>7, <2>1, <3>1
      <4>. QED
        BY <1>3, <2>1, <3>1, <4>1, GrowLogGood
    <3>2. CASE ~p.logOn
      <4>1. PutReady(s, c) = ShiftUp(p, 1)
        BY <1>2, <1>7, <2>1, <3>2
      <4>. QED
        BY <1>3, <2>1, <3>2, <4>1, ShiftUpGood
    <3>. QED
      BY <3>1, <3>2
  <2>3. u \in ScreenType
    BY <2>2 DEF Good, InOrder
  <2>4. Keeps(s, u, past)
    BY <1>4, <1>5, <2>2, <2>3, KeepsTrans
  <2>. QED
    BY <1>1, <1>3, <2>2, <2>4
<1>. QED
  BY <1>6, <1>7

LEMMA PrintLineGood ==
    ASSUME NEW b \in BOOLEAN, NEW past \in BOOLEAN, NEW s, Good(s, Height - 1, b), past => s.x >= 0
    PROVE  LET t == PrintLine(s)
           IN  Good(t, Height - 1, b) /\ Keeps(s, t, past) /\ t.logOn = s.logOn
<1> DEFINE a == PutReady(s, "a")
           z == PutReady(a, LF)
<1>1. "a" \in ScreenChars /\ LF \in ScreenChars /\ "a" # BKSP /\ LF # BKSP /\ LF # "a"
  BY DEF ScreenChars, LF, BKSP
<1>2. Good(a, Height - 1, b) /\ Keeps(s, a, past) /\ a.logOn = s.logOn
  BY <1>1, PutReadyGood
<1>3. PrintLine(s) = z
  BY DEF PrintLine
<1> HIDE DEF a
<1>4. Good(z, Height - 1, b) /\ Keeps(a, z, past) /\ z.logOn = a.logOn
  BY <1>1, <1>2, PutReadyGood
<1> HIDE DEF z
<1>5. s \in ScreenType /\ a \in ScreenType /\ z \in ScreenType
  BY <1>2, <1>4 DEF Good, InOrder
<1>6. Keeps(s, z, past)
  BY <1>2, <1>4, <1>5, KeepsTrans
<1>. QED
  BY <1>2, <1>3, <1>4, <1>6

\* error(), after which what the screen showed of the log is still in the log.
LEMMA ErrorGood ==
    ASSUME NEW b \in BOOLEAN, NEW past \in BOOLEAN, NEW s, Good(s, Height - 1, b), NEW ready \in BOOLEAN,
           past => s.x >= 0
    PROVE  LET t == Error(s, ready)
           IN  /\ Good(t, Height - 1, b) /\ Keeps(s, t, past)
               /\ s.cur + PageCells <= Len(s.log) => t.cur + PageCells <= Len(t.log)
               /\ ready => t.logOn = s.logOn
<1>1. s \in ScreenType
  BY DEF Good, InOrder
<1>2. CASE ~ready /\ s.logOn
  <2> DEFINE d == [s EXCEPT !.logOn = FALSE, !.log = s.log]
             a == PrintLine(d)
             z == PrintLine(a)
  <2>1. Error(s, ready) = z
    BY <1>2 DEF Error, DisableLog
  <2>2. /\ d \in ScreenType /\ d.logOn = FALSE /\ d.cells = s.cells /\ d.log = s.log /\ d.y = s.y
        /\ d.cur = s.cur /\ d.limX = s.limX /\ d.limY = s.limY /\ d.fence = s.fence
    BY <1>1 DEF ScreenType
  <2> HIDE DEF d
  <2>3. Good(d, Height - 1, b)
    BY <2>2 DEF Good, InOrder
  <2> DEFINE no == FALSE
  <2>no. no \in BOOLEAN /\ ~no
    OBVIOUS
  <2> HIDE DEF no
  <2>4. Good(a, Height - 1, b) /\ Keeps(d, a, no) /\ a.logOn = FALSE
    BY <2>2, <2>3, <2>no, PrintLineGood
  <2> HIDE DEF a
  <2>5. Good(z, Height - 1, b) /\ Keeps(a, z, no) /\ z.logOn = FALSE
    BY <2>4, <2>no, PrintLineGood
  <2> HIDE DEF z
  <2>6. a \in ScreenType /\ z \in ScreenType
    BY <2>4, <2>5 DEF Good, InOrder
  <2>7. Keeps(d, z, no)
    BY <2>2, <2>4, <2>5, <2>6, <2>no, KeepsTrans
  <2>8. z.log = s.log /\ z.cur = s.cur
    BY <2>2, <2>7 DEF Keeps, Same
  <2>9. Keeps(s, z, past)
    BY <1>1, <1>2, <2>2, <2>5, <2>7 DEF Keeps, Same, History, Fenced
  <2>. QED
    BY <1>2, <2>1, <2>5, <2>8, <2>9
<1>3. CASE ~(~ready /\ s.logOn)
  <2> DEFINE t == PrintLine(s)
  <2>1. Error(s, ready) = t
    BY <1>3 DEF Error
  <2>2. Good(t, Height - 1, b) /\ Keeps(s, t, past) /\ t.logOn = s.logOn
    BY PrintLineGood
  <2> HIDE DEF t
  <2>3. t \in ScreenType
    BY <2>2 DEF Good, InOrder
  <2>4. t.logOn => t.cur + PageCells <= Len(t.log)
    BY <2>2, <2>3, LastPageIs DEF Good
  <2>5. ~t.logOn => t.log = s.log /\ t.cur = s.cur
    BY <2>2 DEF Keeps, Same
  <2>. QED
    BY <2>1, <2>2, <2>4, <2>5
<1>. QED
  BY <1>2, <1>3

\* put, whatever malloc is doing, of anything but a backspace.
LEMMA PutGood ==
    ASSUME NEW b \in BOOLEAN, NEW past \in BOOLEAN, NEW s, Good(s, Height - 1, b),
           NEW c \in ScreenChars, c # BKSP, NEW ready \in BOOLEAN, past => s.x >= 0
    PROVE  LET t == Put(s, c, ready)
           IN  Good(t, Height - 1, b) /\ Keeps(s, t, past)
<1> DEFINE e == ToEnd(s)
           p == PutChar(e, c)
           n == NewLinesDue(p)
<1>1. Put(s, c, ready) = IF ready \/ ~s.logOn \/ n <= 0 THEN PutReady(s, c)
                         ELSE Error([ShiftUp(p, n) EXCEPT !.logOn = FALSE], ready)
  BY DEF Put
<1>2. /\ Good(e, Height - 1, b) /\ AtEnd(e) /\ Keeps(s, e, past) /\ e.logOn = s.logOn
      /\ e.x = s.x
  BY ToEndGood
<1> HIDE DEF e
<1>3. Good(p, Height, b) /\ AtEnd(p) /\ Keeps(e, p, past) /\ p.logOn = e.logOn
  BY <1>2, PutCharGood
<1> HIDE DEF p
<1>4. CASE ready \/ ~s.logOn \/ n <= 0
  BY <1>1, <1>4, PutReadyGood
<1>5. CASE ~(ready \/ ~s.logOn \/ n <= 0)
  <2>1. p.y = Height /\ n = 1
    BY <1>3, <1>5, OneLine
  <2> DEFINE u == [ShiftUp(p, 1) EXCEPT !.logOn = FALSE]
             t == Error(u, ready)
             no == FALSE
  <2>2. Put(s, c, ready) = t
    BY <1>1, <1>5, <2>1
  <2>no. no \in BOOLEAN /\ ~no
    OBVIOUS
  <2>3. Good(u, Height - 1, b) /\ Keeps(p, u, past) /\ ~u.logOn
    BY <1>2, <1>3, <1>5, <2>1, LogGivenUp
  <2> HIDE DEF u, no
  <2>4. Good(t, Height - 1, b) /\ Keeps(u, t, no)
    BY <2>3, <2>no, ErrorGood
  <2> HIDE DEF t
  <2>5. /\ s \in ScreenType /\ e \in ScreenType /\ p \in ScreenType
        /\ u \in ScreenType /\ t \in ScreenType
    BY <1>2, <1>3, <2>3, <2>4 DEF Good, InOrder
  <2>6. Keeps(s, p, past)
    BY <1>2, <1>3, <2>5, KeepsTrans
  <2>7. Keeps(s, u, past)
    BY <2>3, <2>5, <2>6, KeepsTrans
  <2>8. Keeps(u, t, past)
    <3>1. ~t.logOn
      BY <2>3, <2>4 DEF Keeps, Same
    <3>. QED
      BY <2>4, <2>no, <3>1, KeepsOff
  <2>9. Keeps(s, t, past)
    BY <2>5, <2>7, <2>8, KeepsTrans
  <2>. QED
    BY <2>2, <2>4, <2>9
<1>. QED
  BY <1>4, <1>5

\* put of a backspace, which adds no line.
LEMMA PutBackspace ==
    ASSUME NEW b \in BOOLEAN, NEW s, Good(s, Height - 1, b), NEW ready \in BOOLEAN
    PROVE  LET t == Put(s, BKSP, ready)
           IN  /\ Good(t, Height - 1, b)
               /\ s.x >= 0 => History(s, t)
               /\ s.limX >= 0 => Fenced(s, t)
<1> DEFINE e == ToEnd(s)
           p == PutChar(e, BKSP)
           past == TRUE
<1>1. past \in BOOLEAN /\ past
  OBVIOUS
<1> HIDE DEF past
<1>2. /\ Good(e, Height - 1, b) /\ AtEnd(e) /\ Keeps(s, e, past) /\ e.x = s.x /\ e.limX = s.limX
  BY <1>1, ToEndGood
<1> HIDE DEF e
<1>3. s \in ScreenType /\ e \in ScreenType /\ BKSP \in ScreenChars
  BY <1>2 DEF Good, InOrder, ScreenChars
<1>4. /\ Good(p, Height - 1, b) /\ Same(e, p)
      /\ e.x >= 0 => History(e, p)
      /\ e.limX >= 0 => Fenced(e, p)
  <2>1. p = IF MayRubout(e) THEN Rubout(e) ELSE e
    BY <1>3, PutCharIs
  <2>2. CASE MayRubout(e)
    BY <1>2, <2>1, <2>2, RuboutGood
  <2>3. CASE ~MayRubout(e)
    <3>1. p = e
      BY <2>1, <2>3
    <3>2. Keeps(e, e, past)
      BY <1>1, <1>3, KeepsRefl
    <3> HIDE DEF p
    <3>. QED
      BY <1>1, <1>2, <3>1, <3>2 DEF Keeps
  <2>. QED
    BY <2>2, <2>3
<1> HIDE DEF p
<1>5. Put(s, BKSP, ready) = p
  <2>1. p.y \in Nat /\ p.y <= Height - 1 /\ Height \in Nat
    BY <1>4, ScreenSizes DEF Good, InOrder, ScreenType
  <2>2. NewLinesDue(p) <= 0
    BY <2>1 DEF NewLinesDue
  <2>. QED
    BY <2>2 DEF Put, PutReady, p, e
<1>6. p \in ScreenType
  BY <1>4 DEF Good, InOrder
<1>7. Same(s, e) /\ History(s, e) /\ Fenced(s, e) /\ (e.logOn => Len(s.log) <= Len(e.log))
  BY <1>1, <1>2 DEF Keeps
<1>8. s.x >= 0 => History(s, p)
  BY <1>2, <1>3, <1>4, <1>6, <1>7, HistoryTrans
<1>9. s.limX >= 0 => Fenced(s, p)
  BY <1>2, <1>3, <1>4, <1>6, <1>7, FencedTrans
<1>. QED
  BY <1>4, <1>5, <1>8, <1>9

\* enableLog(true): the log begins with what is on the screen.
LEMMA EnableLogGood ==
    ASSUME NEW b \in BOOLEAN, NEW s, Good(s, Height - 1, b)
    PROVE  LET t == EnableLog(s, TRUE)
           IN  Good(t, Height - 1, b) /\ (s.logOn => t = s) /\ (t.logOn \/ s.logOn)
<1>1. CASE s.logOn
  BY <1>1 DEF EnableLog
<1>2. CASE ~s.logOn
  <2> DEFINE t == [s EXCEPT !.logOn = TRUE, !.log = s.cells, !.cur = 0, !.unlogged = FALSE]
  <2>1. EnableLog(s, TRUE) = t
    BY <1>2 DEF EnableLog
  <2>2. /\ s \in ScreenType /\ s.cells \in Seq(ScreenCells) /\ Len(s.cells) = PageCells
    BY DEF Good, InOrder, ScreenType
  <2>3. /\ t \in ScreenType /\ t.logOn = TRUE /\ t.cells = s.cells /\ t.log = s.cells /\ t.y = s.y
        /\ t.cur = 0 /\ t.limX = s.limX /\ t.limY = s.limY /\ t.fence = s.fence
    BY <2>2 DEF ScreenType
  <2> HIDE DEF t
  <2>4. \E k \in Nat : Len(t.log) = k * Width
    BY <2>2, <2>3, ScreenSizes, PageLines
  <2>5. Shows(t, b)
    BY <2>2, <2>3, ScreenSizes DEF Shows, LastPage
  <2>6. InOrder(t, Height - 1)
    BY <2>2, <2>3, <2>4 DEF Good, InOrder
  <2>. QED
    BY <1>2, <2>1, <2>3, <2>5, <2>6 DEF Good
<1>. QED
  BY <1>1, <1>2

\* scroll(-1) and scroll(1).
LEMMA ScrollGood ==
    ASSUME NEW b \in BOOLEAN, NEW past \in BOOLEAN, NEW s, Good(s, Height - 1, b), NEW ready \in BOOLEAN,
           past => s.x >= 0
    PROVE  /\ Good(ScrollUp1(s, ready), Height - 1, b) /\ Keeps(s, ScrollUp1(s, ready), past)
           /\ Good(ScrollDown1(s, ready), Height - 1, b) /\ Keeps(s, ScrollDown1(s, ready), past)
<1>1. /\ s \in ScreenType /\ s.cur \in Nat /\ Len(s.log) \in Nat
      /\ Width \in Nat \ {0} /\ PageCells \in Nat
  BY LenProperties, ScreenSizes DEF Good, InOrder, ScreenType
<1>2. CASE ~s.logOn
  BY <1>2, ErrorGood DEF ScrollUp1, ScrollDown1
<1>3. CASE s.logOn
  <2>1. /\ LastPage(s.log) \in Nat /\ LastPage(s.log) + PageCells = Len(s.log)
        /\ s.cur + PageCells <= Len(s.log)
    BY <1>1, <1>3, LastPageIs DEF Good
  <2>2. ASSUME NEW c \in Nat, c + PageCells <= Len(s.log)
        PROVE  LET t == [s EXCEPT !.cur = c]
               IN  /\ t \in ScreenType /\ InOrder(t, Height - 1) /\ t.cur + PageCells <= Len(t.log)
                   /\ t.cells = s.cells /\ t.cur = c /\ t.x = s.x /\ t.logOn = s.logOn
                   /\ t.log = s.log /\ t.limX = s.limX /\ t.limY = s.limY /\ t.fence = s.fence
    <3> DEFINE t == [s EXCEPT !.cur = c]
    <3>1. /\ t \in ScreenType /\ t.cells = s.cells /\ t.cur = c /\ t.x = s.x /\ t.y = s.y
          /\ t.logOn = s.logOn
          /\ t.log = s.log /\ t.limX = s.limX /\ t.limY = s.limY /\ t.fence = s.fence
      BY <1>1, <2>2 DEF ScreenType
    <3> HIDE DEF t
    <3>2. InOrder(t, Height - 1)
      BY <3>1 DEF Good, InOrder
    <3>. QED
      BY <2>2, <3>1, <3>2 DEF t
  <2>3. ASSUME NEW c \in Nat, c + PageCells <= Len(s.log)
        PROVE  /\ Good(Render([s EXCEPT !.cur = c]), Height - 1, b)
               /\ Keeps(s, Render([s EXCEPT !.cur = c]), past)
    <3> DEFINE t == [s EXCEPT !.cur = c]
               u == Render(t)
    <3>1. /\ t \in ScreenType /\ InOrder(t, Height - 1) /\ t.cur + PageCells <= Len(t.log)
          /\ t.logOn = s.logOn /\ t.log = s.log
          /\ t.limX = s.limX /\ t.limY = s.limY /\ t.fence = s.fence
      BY <2>2, <2>3
    <3> HIDE DEF t
    <3>2. /\ Good(u, Height - 1, b) /\ u.logOn = t.logOn /\ u.log = t.log
          /\ u.limX = t.limX /\ u.limY = t.limY /\ u.fence = t.fence
      BY <3>1, RenderGood
    <3> HIDE DEF u
    <3>3. Keeps(s, u, past)
      BY <1>1, <1>3, <3>1, <3>2, KeepsSame
    <3>. QED
      BY <3>2, <3>3 DEF u, t
  <2>4. Good(ScrollUp1(s, ready), Height - 1, b) /\ Keeps(s, ScrollUp1(s, ready), past)
    <3>1. CASE s.cur = 0
      BY <1>1, <1>3, <3>1, KeepsRefl DEF ScrollUp1
    <3>2. CASE s.cur # 0
      <4> DEFINE c == IF s.cur < Width THEN 0 ELSE s.cur - Width
      <4>1. ScrollUp1(s, ready) = Render([s EXCEPT !.cur = c])
        BY <1>3, <3>2 DEF ScrollUp1
      <4>2. c \in Nat /\ c + PageCells <= Len(s.log)
        BY <1>1, <2>1
      <4> HIDE DEF c
      <4>. QED
        BY <2>3, <4>1, <4>2
    <3>. QED
      BY <3>1, <3>2
  <2>5. Good(ScrollDown1(s, ready), Height - 1, b) /\ Keeps(s, ScrollDown1(s, ready), past)
    <3> DEFINE c == s.cur + Width
               l == LastPage(s.log)
               t == [s EXCEPT !.cur = l]
               v == ShowCursor(t, ready)
    <3>1. ScrollDown1(s, ready) = IF c >= l THEN Render(v) ELSE Render([s EXCEPT !.cur = c])
      BY <1>3 DEF ScrollDown1
    <3>2. l \in Nat /\ l + PageCells <= Len(s.log) /\ c \in Nat
      BY <1>1, <2>1
    <3>3. CASE ~(c >= l)
      <4>1. c + PageCells <= Len(s.log)
        BY <1>1, <2>1, <3>2, <3>3
      <4>2. ScrollDown1(s, ready) = Render([s EXCEPT !.cur = c])
        BY <3>1, <3>3
      <4> HIDE DEF c
      <4>. QED
        BY <2>3, <3>2, <4>1, <4>2
    <3>4. CASE c >= l /\ ~(s.x < 0 \/ s.x > Width)
      <4> HIDE DEF l
      <4>1. t.x = s.x
        BY <2>2, <3>2
      <4>2. v = t
        BY <3>4, <4>1 DEF ShowCursor
      <4>. QED
        BY <2>3, <3>1, <3>2, <3>4, <4>2
    <3>5. CASE c >= l /\ (s.x < 0 \/ s.x > Width)
      <4> HIDE DEF l
      <4>1. /\ t \in ScreenType /\ InOrder(t, Height - 1) /\ t.cur + PageCells <= Len(t.log)
            /\ t.x = s.x /\ t.logOn = s.logOn /\ t.log = s.log
            /\ t.limX = s.limX /\ t.limY = s.limY /\ t.fence = s.fence
        BY <2>2, <3>2
      <4>2. v = Error(t, ready)
        BY <3>5, <4>1 DEF ShowCursor
      <4>3. Keeps(s, t, past)
        BY <1>1, <1>3, <4>1, KeepsSame
      <4> HIDE DEF t
      <4>4. Good(t, Height - 1, FALSE)
        <5>1. t.cur \in Nat
          BY <4>1 DEF ScreenType
        <5>2. t.cur <= LastPage(t.log)
          BY <1>1, <4>1, <5>1 DEF LastPage
        <5>. QED
          BY <4>1, <5>2 DEF Good, Shows
      <4>5. Good(v, Height - 1, FALSE) /\ Keeps(t, v, past) /\ v.cur + PageCells <= Len(v.log)
        BY <4>1, <4>2, <4>4, ErrorGood
      <4> HIDE DEF v
      <4>6. InOrder(v, Height - 1) /\ v \in ScreenType
        BY <4>5 DEF Good, InOrder
      <4>7. Keeps(s, v, past)
        BY <1>1, <4>1, <4>3, <4>5, <4>6, KeepsTrans
      <4> DEFINE u == Render(v)
      <4>8. /\ Good(u, Height - 1, b) /\ u.logOn = v.logOn /\ u.log = v.log
            /\ u.limX = v.limX /\ u.limY = v.limY /\ u.fence = v.fence
        BY <4>5, <4>6, RenderGood
      <4>9. ScrollDown1(s, ready) = u
        BY <3>1, <3>5
      <4> HIDE DEF u
      <4>10. u \in ScreenType
        BY <4>8 DEF Good, InOrder
      <4>11. Keeps(s, u, past)
        <5>1. CASE v.logOn
          BY <1>1, <4>6, <4>7, <4>8, <4>10, <5>1, KeepsSame, KeepsTrans
        <5>2. CASE ~v.logOn
          BY <1>3, <4>6, <4>7, <4>8, <5>2 DEF Keeps, Same, History, Fenced
        <5>. QED
          BY <5>1, <5>2
      <4>. QED
        BY <4>8, <4>9, <4>11
    <3>. QED
      BY <3>3, <3>4, <3>5
  <2>. QED
    BY <2>4, <2>5
<1>. QED
  BY <1>2, <1>3

-----------------------------------------------------------------------------
(***************************************************************************)
(* The steps.                                                              *)
(***************************************************************************)

\* A step keeps the history, unless a character is stored with a negative column,
\* and what is before the fence of a limit with a column of 0 or more, or it
\* switches the log on or off, or it leaves screen and log alone.
Stays(s, t) ==
    \/ (s.x >= 0 => History(s, t)) /\ (s.limX >= 0 => Fenced(s, t))
    \/ t.logOn # s.logOn
    \/ t.logOn = s.logOn /\ t.log = s.log /\ t.cells = s.cells

LEMMA InitGood == ScreenInit => ScreenInv
<1> SUFFICES ASSUME ScreenInit
             PROVE  ScreenInv
  OBVIOUS
<1> DEFINE c == Blanks(PageCells)
           e == <<>>
<1>1. c \in Seq(ScreenCells) /\ Len(c) = PageCells
  BY BlanksAre, ScreenSizes
<1>2. e \in Seq(ScreenCells) /\ Len(e) = 0
  BY EmptySeq
<1>3. scr = [cells |-> c, x |-> 0, y |-> 0, logOn |-> FALSE, log |-> e, cur |-> 0,
             limX |-> 0, limY |-> 0, fence |-> 0, unlogged |-> FALSE]
  BY DEF ScreenInit
<1> HIDE DEF c, e
<1>4. /\ scr \in ScreenType /\ scr.cells = c /\ scr.log = e /\ scr.y = 0 /\ scr.x = 0
      /\ scr.limX = 0 /\ scr.limY = 0 /\ scr.fence = 0 /\ scr.logOn = FALSE
  BY <1>1, <1>2, <1>3, XRange DEF ScreenType
<1>5. 0 = 0 * Width /\ scr.y <= Height - 1 /\ scr.fence <= scr.limX + Width * scr.limY
  BY <1>4, ScreenSizes
<1>6. \E k \in Nat : Len(scr.log) = k * Width
  BY <1>2, <1>4, <1>5
<1>7. InOrder(scr, Height - 1)
  BY <1>1, <1>4, <1>5, <1>6 DEF InOrder
<1>8. Good(scr, Height - 1, TRUE)
  BY <1>4, <1>7 DEF Good
<1>9. mallocReady \in BOOLEAN
  BY DEF ScreenInit
<1>. QED
  BY <1>8, <1>9 DEF ScreenInv

LEMMA LimitGood ==
    ASSUME NEW s, Good(s, Height - 1, TRUE), NEW x \in Int, NEW y \in Nat, NEW f \in Nat,
           x >= 0 => f <= x + Width * y
    PROVE  LET t == [s EXCEPT !.limX = x, !.limY = y, !.fence = f]
           IN  Good(t, Height - 1, TRUE) /\ Stays(s, t)
<1> DEFINE t == [s EXCEPT !.limX = x, !.limY = y, !.fence = f]
<1>1. s \in ScreenType
  BY DEF Good, InOrder
<1>2. /\ t \in ScreenType /\ t.cells = s.cells /\ t.log = s.log /\ t.y = s.y /\ t.cur = s.cur
      /\ t.limX = x /\ t.limY = y /\ t.fence = f /\ t.logOn = s.logOn /\ t.unlogged = s.unlogged
  BY <1>1 DEF ScreenType
<1> HIDE DEF t
<1>3. InOrder(t, Height - 1)
  BY <1>2 DEF Good, InOrder
<1>4. Good(t, Height - 1, TRUE) /\ Stays(s, t)
  BY <1>2, <1>3 DEF Good, Shows, Stays
<1>. QED
  BY <1>4 DEF t

LEMMA KeepsStays ==
    ASSUME NEW past \in BOOLEAN, NEW s, NEW t, Keeps(s, t, past), s.x >= 0 => past
    PROVE  Stays(s, t)
  BY DEF Keeps, Stays

LEMMA StepGood == ScreenInv /\ [ScreenNext]_screenVars => ScreenInv' /\ Stays(scr, scr')
<1> SUFFICES ASSUME ScreenInv, [ScreenNext]_screenVars
             PROVE  ScreenInv' /\ Stays(scr, scr')
  OBVIOUS
<1> DEFINE past == scr.x >= 0
<1>1. /\ Good(scr, Height - 1, TRUE) /\ mallocReady \in BOOLEAN
      /\ scr \in ScreenType /\ TRUE \in BOOLEAN /\ past \in BOOLEAN
  <2>1. past \in BOOLEAN
    OBVIOUS
  <2> HIDE DEF past
  <2>. QED
    BY <2>1 DEF ScreenInv, Good, InOrder
<1>past. (past => scr.x >= 0) /\ (scr.x >= 0 => past)
  OBVIOUS
<1> HIDE DEF past
<1>2. ASSUME NEW t, Become(t), Good(t, Height - 1, TRUE), mallocReady' \in BOOLEAN, Stays(scr, t)
      PROVE  ScreenInv' /\ Stays(scr, scr')
  <2>1. scr' = t
    BY <1>2 DEF Become
  <2>. QED
    BY <1>2, <2>1 DEF ScreenInv
<1>3. CASE DoPut
  <2>1. PICK c \in ScreenChars : Become(Put(scr, c, mallocReady))
    BY <1>3 DEF DoPut
  <2>2. Good(Put(scr, c, mallocReady), Height - 1, TRUE) /\ Stays(scr, Put(scr, c, mallocReady))
    <3>1. CASE c # BKSP
      <4>1. Good(Put(scr, c, mallocReady), Height - 1, TRUE) /\ Keeps(scr, Put(scr, c, mallocReady), past)
        BY <1>1, <1>past, <3>1, PutGood
      <4>. QED
        BY <1>1, <1>past, <4>1, KeepsStays
    <3>2. CASE c = BKSP
      BY <1>1, <3>2, PutBackspace DEF Stays
    <3>. QED
      BY <3>1, <3>2
  <2>3. mallocReady' \in BOOLEAN
    BY <1>1, <1>3 DEF DoPut
  <2>. QED
    BY <1>2, <2>1, <2>2, <2>3
<1>4. CASE DoError
  <2>1. Good(Error(scr, mallocReady), Height - 1, TRUE) /\ Keeps(scr, Error(scr, mallocReady), past)
    BY <1>1, <1>past, ErrorGood
  <2>2. Become(Error(scr, mallocReady)) /\ mallocReady' \in BOOLEAN
    BY <1>1, <1>4 DEF DoError
  <2>. QED
    BY <1>1, <1>2, <1>past, <2>1, <2>2, KeepsStays
<1>5. CASE DoEnableLog
  <2> DEFINE t == EnableLog(scr, TRUE)
  <2>1. Good(t, Height - 1, TRUE) /\ (scr.logOn => t = scr) /\ (t.logOn \/ scr.logOn)
    BY <1>1, EnableLogGood
  <2>2. Become(t) /\ mallocReady' \in BOOLEAN
    BY <1>5 DEF DoEnableLog
  <2> HIDE DEF t
  <2>3. Stays(scr, t)
    BY <2>1 DEF Stays
  <2>. QED
    BY <1>2, <2>1, <2>2, <2>3
<1>6. CASE DoScroll
  <2>1. /\ Good(ScrollUp1(scr, mallocReady), Height - 1, TRUE)
        /\ Keeps(scr, ScrollUp1(scr, mallocReady), past)
        /\ Good(ScrollDown1(scr, mallocReady), Height - 1, TRUE)
        /\ Keeps(scr, ScrollDown1(scr, mallocReady), past)
    BY <1>1, <1>past, ScrollGood
  <2>2. /\ Become(ScrollUp1(scr, mallocReady)) \/ Become(ScrollDown1(scr, mallocReady))
        /\ mallocReady' \in BOOLEAN
    BY <1>1, <1>6 DEF DoScroll
  <2>. QED
    BY <1>1, <1>2, <1>past, <2>1, <2>2, KeepsStays
<1>7. CASE SetRuboutLimit
  <2>1. scr.x \in Int /\ scr.y \in Nat /\ Width \in Nat /\ Width * scr.y \in Nat
    <3>1. scr.x \in XS /\ scr.y \in Nat
      BY <1>1 DEF ScreenType
    <3>2. XS \subseteq Int /\ Width \in Nat
      BY XRange, ScreenSizes
    <3>3. scr.x \in Int
      BY <3>1, <3>2, Zenon
    <3> DEFINE y == scr.y
    <3>4. y \in Nat
      BY <3>1
    <3> HIDE DEF y
    <3>5. Width * y \in Nat
      BY <3>2, <3>4
    <3>. QED
      BY <3>2, <3>3, <3>4, <3>5 DEF y
  <2>2. Before(scr) \in Nat /\ (scr.x >= 0 => Before(scr) <= scr.x + Width * scr.y)
    BY <2>1 DEF Before, Offset
  <2>3. 0 \in Int /\ 0 \in Nat /\ (0 >= 0 => 0 <= 0 + Width * 0)
    BY <2>1
  <2> DEFINE t == [scr EXCEPT !.limX = scr.x, !.limY = scr.y, !.fence = Before(scr)]
             u == [scr EXCEPT !.limX = 0, !.limY = 0, !.fence = 0]
  <2>4. Good(t, Height - 1, TRUE) /\ Stays(scr, t)
    BY <1>1, <2>1, <2>2, LimitGood
  <2>5. Good(u, Height - 1, TRUE) /\ Stays(scr, u)
    BY <1>1, <2>3, LimitGood
  <2>6. (Become(t) \/ Become(u)) /\ mallocReady' \in BOOLEAN
    BY <1>1, <1>7 DEF SetRuboutLimit
  <2> HIDE DEF t, u
  <2>. QED
    BY <1>2, <2>4, <2>5, <2>6
<1>8. CASE MallocBegin \/ MallocEnd \/ UNCHANGED screenVars
  <2>1. scr' = scr /\ mallocReady' \in BOOLEAN
    BY <1>1, <1>8 DEF MallocBegin, MallocEnd, screenVars
  <2>. QED
    BY <1>1, <2>1 DEF ScreenInv, Stays
<1>. QED
  BY <1>3, <1>4, <1>5, <1>6, <1>7, <1>8 DEF ScreenNext

LEMMA Inductive == ScreenSpec => []ScreenInv
<1>1. ScreenInit => ScreenInv
  BY InitGood
<1>2. ScreenInv /\ [ScreenNext]_screenVars => ScreenInv'
  BY StepGood
<1>. QED
  BY <1>1, <1>2, PTL DEF ScreenSpec

-----------------------------------------------------------------------------
(***************************************************************************)
(* The theorems.                                                           *)
(***************************************************************************)

\* After every operation of the screen its members have their types, the column is
\* that of an i8 and may have become negative, the cursor's row is on the screen, the log consists of whole lines, and what is shown of it
\* lies inside of it, whatever was printed, erased and scrolled.
THEOREM ScreenTypeCorrect == ScreenSpec => []ScreenTypeOK
<1>1. ScreenInv => ScreenTypeOK
  <2> SUFFICES ASSUME ScreenInv
               PROVE  ScreenTypeOK
    OBVIOUS
  <2>1. Good(scr, Height - 1, TRUE) /\ InOrder(scr, Height - 1)
    BY DEF ScreenInv, Good
  <2>2. /\ scr.cells \in Seq(ScreenCells) /\ scr.log \in Seq(ScreenCells) /\ Len(scr.cells) = PageCells
        /\ scr.x \in XS /\ scr.y \in Nat /\ scr.y <= Height - 1 /\ scr.cur \in Nat
        /\ Height \in Nat /\ Width \in Nat \ {0} /\ Len(scr.log) \in Nat
    BY <2>1, ScreenSizes, LenProperties DEF InOrder, ScreenType
  <2>3. Len(scr.log) % Width = 0
    <3>1. PICK k \in Nat : Len(scr.log) = k * Width
      BY <2>1 DEF InOrder
    <3>. QED
      BY <2>2, <3>1, WholeLines
  <2>4. scr.logOn => scr.cur \in 0 .. LastPage(scr.log)
    <3>1. PageCells \in Nat
      BY ScreenSizes
    <3>. QED
      BY <2>1, <2>2, <3>1 DEF Good, Shows, LastPage
  <2>5. scr.x \in -(MaxX + 1) .. MaxX /\ scr.y \in 0 .. Height - 1
    BY <2>1, <2>2 DEF XS
  <2>. QED
    BY <2>2, <2>3, <2>4, <2>5 DEF ScreenTypeOK
<1>. QED
  BY <1>1, Inductive, PTL

\* "When true, write to the log and screen" (vgatext.h): with the log on, the screen
\* shows the part of the log it claims to show, wherever tabs take the column, unless
\* a backspace in column 0 or before it, with a limit before that, has erased a cell on
\* the screen only since the screen was rendered.
THEOREM ScreenIsTheLog == ScreenSpec => []ScreenShowsLog
<1>1. ScreenInv => ScreenShowsLog
  <2> SUFFICES ASSUME ScreenInv, scr.logOn, ~scr.unlogged
               PROVE  scr.cells = Window(scr.log, scr.cur)
    BY DEF ScreenShowsLog
  <2>1. /\ scr \in ScreenType /\ Shows(scr, TRUE) /\ Len(scr.cells) = PageCells
        /\ scr.cells \in Seq(ScreenCells) /\ scr.log \in Seq(ScreenCells) /\ scr.cur \in Nat
    BY DEF ScreenInv, Good, InOrder, ScreenType
  <2>2. scr.cur + PageCells <= Len(scr.log)
    BY <2>1, LastPageIs
  <2> DEFINE w == Window(scr.log, scr.cur)
  <2>3. /\ w \in Seq(ScreenCells) /\ Len(w) = PageCells
        /\ \A i \in 1 .. PageCells : w[i] = scr.log[scr.cur + i]
    BY <2>1, <2>2, WindowIs
  <2> HIDE DEF w
  <2>4. \A i \in 1 .. Len(scr.cells) : scr.cells[i] = w[i]
    BY <2>1, <2>3 DEF Shows
  <2>5. scr.cells = w
    BY <2>1, <2>3, <2>4, SeqEqual
  <2>. QED
    BY <2>5 DEF w
<1>. QED
  BY <1>1, Inductive, PTL

\* As long as the log stays on, no step that starts with a column of 0 or more changes
\* a line of it that has left the screen at its upper edge.
THEOREM HistoryIsKept == ScreenSpec => LogKeepsHistory
<1>1. ScreenInv /\ ScreenInv' /\ [ScreenNext]_screenVars =>
        [scr.logOn /\ scr'.logOn /\ scr.x >= 0 =>
            SubSeq(scr'.log, 1, LastPage(scr.log)) = SubSeq(scr.log, 1, LastPage(scr.log))]_screenVars
  <2> SUFFICES ASSUME ScreenInv, ScreenInv', [ScreenNext]_screenVars, scr.logOn, scr'.logOn,
                      scr.x >= 0
               PROVE  SubSeq(scr'.log, 1, LastPage(scr.log)) = SubSeq(scr.log, 1, LastPage(scr.log))
    OBVIOUS
  <2> DEFINE s == scr.log
             t == scr'.log
             n == LastPage(scr.log)
  <2>1. scr \in ScreenType /\ Shows(scr, TRUE) /\ scr' \in ScreenType
    BY DEF ScreenInv, Good, InOrder
  <2>2. s \in Seq(ScreenCells) /\ t \in Seq(ScreenCells) /\ Len(s) \in Nat /\ Len(t) \in Nat
    BY <2>1, LenProperties DEF ScreenType
  <2>3. n \in Nat /\ n <= Len(s)
    <3>1. TRUE \in BOOLEAN /\ PageCells \in Nat
      BY ScreenSizes
    <3>2. n \in Nat /\ n + PageCells = Len(s)
      BY <2>1, <3>1, LastPageIs
    <3>. QED
      BY <2>2, <3>1, <3>2
  <2>4. \A i \in 1 .. n : t[i] = s[i]
    <3>1. Stays(scr, scr')
      BY StepGood
    <3>2. CASE scr.x >= 0 => History(scr, scr')
      BY <3>2 DEF History
    <3>3. CASE scr'.log = scr.log
      BY <2>2, <3>3
    <3>4. CASE scr'.logOn # scr.logOn
      BY <2>1, <3>4 DEF ScreenType
    <3>. QED
      BY <3>1, <3>2, <3>3, <3>4 DEF Stays
  <2> HIDE DEF s, t, n
  <2>5. \A i \in 1 .. n : s[i] \in ScreenCells /\ t[i] \in ScreenCells
    <3>1. \A i \in 1 .. n : s[i] \in ScreenCells
      BY <2>2, <2>3, ElementOfSeq
    <3>. QED
      BY <2>4, <3>1
  <2>6. /\ SubSeq(s, 1, n) \in Seq(ScreenCells)
        /\ Len(SubSeq(s, 1, n)) = IF 1 <= n THEN n - 1 + 1 ELSE 0
        /\ \A i \in 1 .. n - 1 + 1 : SubSeq(s, 1, n)[i] = s[1 + i - 1]
    BY <2>3, <2>5, SubSeqProperties
  <2>7. /\ SubSeq(t, 1, n) \in Seq(ScreenCells)
        /\ Len(SubSeq(t, 1, n)) = IF 1 <= n THEN n - 1 + 1 ELSE 0
        /\ \A i \in 1 .. n - 1 + 1 : SubSeq(t, 1, n)[i] = t[1 + i - 1]
    BY <2>3, <2>5, SubSeqProperties
  <2>8. \A i \in 1 .. n : i \in 1 .. n - 1 + 1 /\ 1 + i - 1 = i
    BY <2>3
  <2>9. Len(SubSeq(s, 1, n)) = n /\ Len(SubSeq(t, 1, n)) = n
    BY <2>3, <2>6, <2>7
  <2>10. \A i \in 1 .. n : SubSeq(t, 1, n)[i] = SubSeq(s, 1, n)[i]
    BY <2>4, <2>6, <2>7, <2>8
  <2>11. SubSeq(t, 1, n) = SubSeq(s, 1, n)
    BY <2>6, <2>7, <2>9, <2>10, SeqEqual
  <2>. QED
    BY <2>11 DEF s, t, n
<1>. QED
  BY <1>1, Inductive, PTL DEF ScreenSpec, LogKeepsHistory

\* "Block erasing characters before the limit" (vgatext.h): no step erases what was
\* on the screen before the rubout limit was set, if that was in a column of 0 or more.
THEOREM RuboutIsFenced == ScreenSpec => RuboutStopsAtLimit
<1>1. ScreenInv /\ ScreenInv' /\ [ScreenNext]_screenVars =>
        [scr.logOn = scr'.logOn /\ scr.fence = scr'.fence /\ scr.limX >= 0 =>
            \A i \in 1 .. PageCells :
                i <= scr.fence /\ Page(scr)[i] # Blank => Page(scr')[i] # Blank]_screenVars
  <2> SUFFICES ASSUME ScreenInv, [ScreenNext]_screenVars, scr.logOn = scr'.logOn, scr.fence = scr'.fence,
                      scr.limX >= 0, NEW i \in 1 .. PageCells, i <= scr.fence, Page(scr)[i] # Blank
               PROVE  Page(scr')[i] # Blank
    OBVIOUS
  <2>1. Stays(scr, scr')
    BY StepGood
  <2>2. CASE scr.limX >= 0 => Fenced(scr, scr')
    BY <2>2 DEF Fenced
  <2>3. CASE scr'.log = scr.log /\ scr'.cells = scr.cells
    <3>1. Page(scr') = Page(scr)
      BY <2>3 DEF Page
    <3>. QED
      BY <3>1
  <2>. QED
    BY <2>1, <2>2, <2>3 DEF Stays
<1>. QED
  BY <1>1, Inductive, PTL DEF ScreenSpec, RuboutStopsAtLimit

=============================================================================
