-------------------------------- MODULE Heap --------------------------------
(***************************************************************************)
(* The kernel heap, kernel/mm/malloc.cpp: one list of chunks that tiles    *)
(* the addresses from firstChunk to endOfChunks.  Pages that somebody else *)
(* mapped where the heap wants to grow (kernel stacks, which loadTask maps *)
(* at the first unmapped address) are wrapped in a chunk marked notOurs,   *)
(* and taken over once they are unmapped.                                  *)
(*                                                                         *)
(* System calls that allocate can be preempted: malloc is one step per     *)
(* round of its loops, and between two of them exitTask may unmap a stack. *)
(* mallocReady keeps a second call of malloc or free out, which is told    *)
(* nothing but an error message; its test and its clearing are one step    *)
(* here.  Addresses are counted from firstChunk, in units that the header  *)
(* size gives a scale.                                                     *)
(*                                                                         *)
(* There are five places where the code writes a header that has no room   *)
(* there, or leaves one out.  The history variable broken remembers that   *)
(* it has come to one; the code goes on, and so do the actions, with the   *)
(* list as it is then, for some more calls.  A page fault of the kernel in *)
(* a system call ends the task that made it, and mallocReady stays false.  *)
(***************************************************************************)
EXTENDS Integers, FiniteSets, FiniteSetsExt, Functions

CONSTANTS
    PAGESIZE,
    HSIZE,              \* sizeof(ChunkHeader)
    MALLOC_MINSIZE,
    SizeRange,          \* the 2^48 values of a header's size
    Sizes,              \* the sizes that callers ask for
    MaxPages,           \* the physical pages there are for heap and stacks
    MaxStacks,          \* bound on the kernel stacks at one time
    MaxUsed,            \* bound on the chunks in use at one time
    MaxLost,            \* bound on the chunks that a refused free loses
    MaxFollowed         \* bound on the calls in a list that is not whole

ASSUME HeapAssumption ==
    /\ {PAGESIZE, HSIZE, MALLOC_MINSIZE, SizeRange,
         MaxPages, MaxStacks, MaxUsed, MaxLost, MaxFollowed} \subseteq Nat \ {0}
    /\ HSIZE <= MALLOC_MINSIZE
    /\ MALLOC_MINSIZE + HSIZE < PAGESIZE
    /\ Sizes \subseteq Nat \ {0}

VARIABLES
    chunks,             \* the headers of the list, by address
    endOfChunks,
    totalMemAllocated,
    mapped,             \* the kernel pages that are mapped, from firstChunk's on
    stacks,             \* the mapped pages that are kernel stacks
    held,               \* what callers hold: the size they asked for, by address
    call,               \* the locals of the malloc in progress
    move,               \* the realloc that mallocs, copies and frees, if there is one
    cpu,                \* "halt" after fatalError or halt, "fault" after an exception that
                        \* no task can be ended for
    broken              \* history: 0 as long as no header has been written where there is
                        \* no room for it and none has been left out; then 1, and 1 more
                        \* for every call that follows

memVars == <<mapped, stacks>>
vars    == <<chunks, endOfChunks, totalMemAllocated, memVars, held, call, move, cpu, broken>>

firstChunk == 0
NoChunk    == -1

Header == [size : Nat, used : BOOLEAN, notOurs : BOOLEAN]

Chunk(size)   == [size |-> size, used |-> FALSE, notOurs |-> FALSE]
Wrapper(size) == [size |-> size, used |-> TRUE, notOurs |-> TRUE]

\* What may be where no header was written: something that stops whoever reads it,
\* for its magic or its size, or something that passes for a large free chunk.
Junk == {[Chunk(0) EXCEPT !.used = TRUE], Chunk(SizeRange \div 2)}

Idle == [pc |-> "idle", size |-> 0, chunk |-> firstChunk, other |-> NoChunk,
         nextUnmapped |-> 0, oldEnd |-> 0, needToAlloc |-> 0, totalAlloced |-> 0]

NoMove == [pc |-> "none", from |-> NoChunk, size |-> 0]

UsedChunks == {c \in DOMAIN chunks : chunks[c].used /\ ~chunks[c].notOurs}

mallocReady == call.pc = "idle"
Running     == cpu = "run"
intact      == broken = 0

\* A page fault of the kernel that ends a task leaves its malloc at this pc.
Dead == call.pc = "dead"

Init ==
    /\ chunks = [c \in {firstChunk} |-> Chunk(PAGESIZE - HSIZE)]
    /\ endOfChunks = firstChunk + PAGESIZE - HSIZE
    /\ totalMemAllocated = 0
    /\ mapped = {0} /\ stacks = {}
    /\ held = [a \in {} |-> 0]
    /\ call = Idle
    /\ move = NoMove
    /\ cpu = "run"
    /\ broken = 0

\* What a step of malloc, and what a call, does to broken: whole says whether every
\* header that it writes has its room, and every chunk its header.
Keeps(whole) == broken' = IF intact /\ ~whole THEN 1 ELSE broken

Called(whole) ==
    /\ broken <= MaxFollowed
    /\ broken' = IF intact THEN IF whole THEN 0 ELSE 1 ELSE broken + 1

-----------------------------------------------------------------------------
(***************************************************************************)
(* Paging, as malloc uses it.  Page p has the addresses from p * PAGESIZE. *)
(***************************************************************************)
PageOf(addr) == addr \div PAGESIZE

getUnmappedVAddr(pages) == Min((0 .. MaxPages) \ pages)

FreeFrame == Cardinality(mapped) < MaxPages

\* mapPage(vaddr) returns vaddr: it is not mapped, and there is a free frame.
CanMap(p) == p \notin mapped /\ FreeFrame

\* The stack of a new task.  loadTask has allocated with new just before.
StackMap ==
    LET p == getUnmappedVAddr(mapped)
    IN  /\ Running /\ mallocReady
        /\ Cardinality(stacks) < MaxStacks
        /\ CanMap(p)
        /\ mapped' = mapped \cup {p}
        /\ stacks' = stacks \cup {p}
        /\ UNCHANGED <<chunks, endOfChunks, totalMemAllocated, held, call, move, cpu, broken>>

\* The stack of a task that exits.
StackUnmap(p) ==
    /\ Running
    /\ mapped' = mapped \ {p}
    /\ stacks' = stacks \ {p}
    /\ UNCHANGED <<chunks, endOfChunks, totalMemAllocated, held, call, move, cpu, broken>>

-----------------------------------------------------------------------------
(***************************************************************************)
(* malloc.                                                                 *)
(***************************************************************************)

\* A page fault in malloc ends the task, or the kernel when it is the kernel's own;
\* the realloc that called malloc, if one did, ends with it.
Faults ==
    /\ \/ /\ call' = [call EXCEPT !.pc = "dead"]
          /\ move' = IF move.pc = "malloc" THEN NoMove ELSE move
          /\ UNCHANGED cpu
       \/ cpu' = "fault" /\ UNCHANGED <<call, move>>
    /\ UNCHANGED <<endOfChunks, totalMemAllocated, memVars, held, broken>>

\* Mutant of RealSize: the header is not counted.
RealSizeBare(n) == Max({n, MALLOC_MINSIZE})

\* realsize
RealSize(n) == Max({HSIZE + n, MALLOC_MINSIZE})

malloc(n) ==
    /\ Running /\ mallocReady
    /\ Cardinality(UsedChunks) < MaxUsed
    /\ call' = [Idle EXCEPT !.pc = "walk", !.size = n,
                            !.nextUnmapped = getUnmappedVAddr(mapped)]
    /\ Called(TRUE)
    /\ UNCHANGED <<chunks, endOfChunks, totalMemAllocated, memVars, held, move, cpu>>

\* malloc while another task is in malloc, or has ended in it: an error message.
mallocRefused == Running /\ ~mallocReady /\ UNCHANGED vars

Fits(c) == c \in DOMAIN chunks /\ ~chunks[c].used /\ chunks[c].size >= RealSize(call.size)

\* There is a header at c, and it leads to another.
Readable(c) == c \in DOMAIN chunks /\ chunks[c].size # 0

Mergeable ==
    call.other # NoChunk /\ ~chunks[call.other].used /\ ~chunks[call.chunk].used

\* A chunk around pages that are not malloc's, and its first page, as far as the
\* walk knows, is not mapped any more.
Reclaimable ==
    /\ chunks[call.chunk].notOurs
    /\ call.chunk + HSIZE = call.nextUnmapped * PAGESIZE

Walking ==
    /\ Running /\ call.pc = "walk"
    /\ ~Fits(call.chunk) /\ Readable(call.chunk)

\* "Chunk with bad magic", "Corrupted chunk with null size"
WalkNull ==
    /\ Running /\ call.pc = "walk"
    /\ ~Fits(call.chunk) /\ ~Readable(call.chunk)
    /\ cpu' = "halt"
    /\ UNCHANGED <<chunks, endOfChunks, totalMemAllocated, memVars, held, call, move, broken>>

\* Mutant of WalkMerge: the size is not added.
WalkMergeForgets ==
    /\ Walking /\ Mergeable
    /\ call' = [call EXCEPT !.chunk = call.other, !.other = NoChunk]
    /\ UNCHANGED <<chunks, endOfChunks, totalMemAllocated, memVars, held, move, cpu, broken>>

\* A free chunk joins the free chunk before it.
WalkMerge ==
    /\ Walking /\ Mergeable
    /\ chunks' = [x \in DOMAIN chunks \ {call.chunk} |->
                    IF x = call.other
                    THEN [chunks[x] EXCEPT !.size = @ + chunks[call.chunk].size]
                    ELSE chunks[x]]
    /\ call' = [call EXCEPT !.chunk = call.other, !.other = NoChunk]
    /\ UNCHANGED <<endOfChunks, totalMemAllocated, memVars, held, move, cpu, broken>>

\* On to the next chunk, which is at the end of the list where more pages are
\* fetched, and must not be behind it.  free says whether the chunk that is left
\* behind is free.
Advance(free) ==
    LET size == chunks[call.chunk].size
        next == call.chunk + size
        want == HSIZE + call.size
    IN  IF next > endOfChunks
        THEN [call EXCEPT !.pc = "past", !.chunk = next, !.other = call.chunk]
        ELSE IF next # endOfChunks
        THEN [call EXCEPT !.chunk = next, !.other = call.chunk]
        ELSE [call EXCEPT !.pc = "grow", !.chunk = next, !.other = call.chunk,
                          !.oldEnd = endOfChunks, !.totalAlloced = 0,
                          !.needToAlloc = want - IF free THEN Min({want, size}) ELSE 0]

WalkNext ==
    /\ Walking /\ ~Mergeable /\ ~Reclaimable
    /\ call' = Advance(~chunks[call.chunk].used)
    /\ UNCHANGED <<chunks, endOfChunks, totalMemAllocated, memVars, held, move, cpu, broken>>

\* "chunk at 0x%x while end of malloc chunks is at 0x%x !"
WalkPast ==
    /\ Running /\ call.pc = "past"
    /\ cpu' = "halt"
    /\ UNCHANGED <<chunks, endOfChunks, totalMemAllocated, memVars, held, call, move, broken>>

\* Mutant of WalkReclaim: the page is not mapped.
WalkReclaimUnmapped ==
    /\ Walking /\ ~Mergeable /\ Reclaimable
    /\ chunks[call.chunk].size = PAGESIZE + HSIZE
    /\ chunks' = [chunks EXCEPT ![call.chunk] = Chunk(@.size)]
    /\ call' = [Advance(TRUE) EXCEPT !.nextUnmapped = getUnmappedVAddr(mapped)]
    /\ UNCHANGED <<endOfChunks, totalMemAllocated, memVars, held, move, cpu, broken>>

\* A page that has become free is mapped, and its chunk is malloc's.
WalkReclaim ==
    /\ Walking /\ ~Mergeable /\ Reclaimable
    /\ chunks[call.chunk].size = PAGESIZE + HSIZE
    /\ LET p == call.nextUnmapped
           got == CanMap(p)
       IN  /\ mapped' = IF got THEN mapped \cup {p} ELSE mapped
           /\ chunks' = IF got THEN [chunks EXCEPT ![call.chunk] = Chunk(@.size)]
                        ELSE chunks
           /\ call' = [Advance(got) EXCEPT !.nextUnmapped = getUnmappedVAddr(mapped')]
    /\ UNCHANGED <<endOfChunks, totalMemAllocated, stacks, held, move, cpu, broken>>

\* "Reclaiming more than a page at a time not implemented"
WalkPanic ==
    /\ Walking /\ ~Mergeable /\ Reclaimable
    /\ chunks[call.chunk].size # PAGESIZE + HSIZE
    /\ cpu' = "halt"
    /\ UNCHANGED <<chunks, endOfChunks, totalMemAllocated, memVars, held, call, move, broken>>

Growing == Running /\ call.pc = "grow" /\ call.needToAlloc > 0

\* Mutant of GrowPage: the decrement has no lower bound.
GrowPageUnderflows ==
    /\ Growing
    /\ CanMap(PageOf(endOfChunks + HSIZE))
    /\ mapped' = mapped \cup {PageOf(endOfChunks + HSIZE)}
    /\ chunks' = IF chunks[call.other].used THEN chunks
                 ELSE [chunks EXCEPT ![call.other].size = @ + PAGESIZE]
    /\ endOfChunks' = endOfChunks + PAGESIZE
    /\ call' = [call EXCEPT !.totalAlloced = @ + PAGESIZE, !.needToAlloc = @ - PAGESIZE]
    /\ UNCHANGED <<totalMemAllocated, stacks, held, move, cpu, broken>>

\* The page behind endOfChunks is mapped.
GrowPage ==
    /\ Growing
    /\ CanMap(PageOf(endOfChunks + HSIZE))
    /\ mapped' = mapped \cup {PageOf(endOfChunks + HSIZE)}
    /\ chunks' = IF chunks[call.other].used THEN chunks
                 ELSE [chunks EXCEPT ![call.other].size = @ + PAGESIZE]
    /\ endOfChunks' = endOfChunks + PAGESIZE
    /\ call' = [call EXCEPT !.totalAlloced = @ + PAGESIZE,
                            !.needToAlloc = @ - Min({@, PAGESIZE})]
    /\ UNCHANGED <<totalMemAllocated, stacks, held, move, cpu, broken>>

\* The pages from there to the first unmapped one, which may lie before it.
Diff == getUnmappedVAddr(mapped) - PageOf(endOfChunks + HSIZE)

\* A difference of sizes, as the size field of a header keeps it.
Unsigned(n) == IF n < 0 THEN n % SizeRange ELSE n

\* The page is somebody else's: a chunk is wrapped around it and the ones that
\* follow, the first unmapped page is mapped if it can be, and the count starts
\* again.  No header is written for the pages that this malloc has mapped before,
\* unless they are part of the last chunk; and when the first unmapped page lies
\* before endOfChunks, which then moves back, the wrapper's size wraps around.
GrowWrap ==
    /\ Growing
    /\ ~CanMap(PageOf(endOfChunks + HSIZE))
    /\ PageOf(endOfChunks) \in mapped
    /\ LET size == Unsigned(PAGESIZE * Diff + HSIZE)
           want == HSIZE + call.size
           lost == IF chunks[call.other].used /\ call.totalAlloced > 0
                   THEN {call.oldEnd} ELSE {}
       IN  /\ \E junk \in Junk :
                 chunks' = [x \in DOMAIN chunks \cup {endOfChunks} \cup lost |->
                              CASE x = endOfChunks -> Wrapper(size)
                                [] x \in lost -> junk
                                [] OTHER -> chunks[x]]
           /\ call' = [call EXCEPT !.other = endOfChunks,
                                   !.oldEnd = endOfChunks + size,
                                   !.totalAlloced = PAGESIZE - HSIZE,
                                   !.needToAlloc = want - Min({want, PAGESIZE})]
           /\ Keeps(lost = {} /\ Diff >= 0)
    /\ mapped' = IF FreeFrame THEN mapped \cup {getUnmappedVAddr(mapped)} ELSE mapped
    /\ endOfChunks' = endOfChunks + PAGESIZE * Diff + PAGESIZE
    /\ UNCHANGED <<totalMemAllocated, stacks, held, move, cpu>>

Grown == Running /\ call.pc = "grow" /\ call.needToAlloc = 0

\* The last chunk was free and has grown.
GrowTakesOther ==
    /\ Grown
    /\ ~chunks[call.other].used
    /\ chunks[call.other].size >= RealSize(call.size)
    /\ call' = [call EXCEPT !.pc = "take", !.chunk = call.other]
    /\ UNCHANGED <<chunks, endOfChunks, totalMemAllocated, memVars, held, move, cpu, broken>>

\* "The previous chunk is still too small after we're done growing it!"
GrowPanic ==
    /\ Grown
    /\ ~chunks[call.other].used
    /\ chunks[call.other].size < RealSize(call.size)
    /\ cpu' = "halt"
    /\ UNCHANGED <<chunks, endOfChunks, totalMemAllocated, memVars, held, call, move, broken>>

\* The pages that were mapped become a chunk.
GrowTakesNew ==
    /\ Grown
    /\ chunks[call.other].used
    /\ PageOf(call.oldEnd) \in mapped
    /\ chunks' = [x \in DOMAIN chunks \cup {call.oldEnd} |->
                    IF x = call.oldEnd THEN Chunk(call.totalAlloced) ELSE chunks[x]]
    /\ call' = [call EXCEPT !.pc = "take", !.chunk = call.oldEnd]
    /\ UNCHANGED <<endOfChunks, totalMemAllocated, memVars, held, move, cpu, broken>>

\* The header of a wrapper, or that of the new chunk, is written to a page that is
\* not mapped, because there was no frame for it, or to no address at all.
GrowFaults ==
    \/ /\ Growing
       /\ ~CanMap(PageOf(endOfChunks + HSIZE)) /\ PageOf(endOfChunks) \notin mapped
       /\ UNCHANGED chunks /\ Faults
    \/ /\ Grown
       /\ chunks[call.other].used /\ PageOf(call.oldEnd) \notin mapped
       /\ IF call.oldEnd < SizeRange THEN UNCHANGED chunks /\ Faults
          ELSE /\ cpu' = "fault"
               /\ UNCHANGED <<chunks, endOfChunks, totalMemAllocated, memVars, held, call,
                              move, broken>>

Found == Running /\ (call.pc = "take" \/ (call.pc = "walk" /\ Fits(call.chunk)))

\* Mutant of Left: the header is not counted.
LeftBare == Unsigned(chunks[call.chunk].size - call.size)

\* What is left of the chunk that malloc has found.  Behind a wrapper there is room
\* for a header less than malloc has counted with; the difference wraps around.
Left == Unsigned(chunks[call.chunk].size - RealSize(call.size))

\* The last address of the header of what is left.
LeftEnd == call.chunk + RealSize(call.size) + HSIZE - 1

\* The chunk is used, what is left of it is split off when it can be a chunk,
\* and malloc returns.
Take ==
    LET c == call.chunk
        rest == c + RealSize(call.size)
        split == Left >= MALLOC_MINSIZE
        left == IF split THEN {rest} ELSE {}
        mine == IF split THEN RealSize(call.size) ELSE chunks[c].size
    IN  /\ Found /\ (split => PageOf(LeftEnd) \in mapped)
        /\ chunks' = [x \in DOMAIN chunks \cup left |->
                        CASE x = c -> [chunks[c] EXCEPT !.used = TRUE, !.size = mine]
                          [] x \in left -> Chunk(Left)
                          [] OTHER -> chunks[x]]
        /\ totalMemAllocated' = totalMemAllocated + mine - HSIZE
        /\ held' = [a \in DOMAIN held \cup {c + HSIZE} |->
                      IF a = c + HSIZE THEN call.size ELSE held[a]]
        /\ call' = Idle
        /\ move' = IF move.pc = "malloc" THEN [move EXCEPT !.pc = "free"] ELSE move
        /\ Keeps(chunks[c].size >= RealSize(call.size))
        /\ UNCHANGED <<endOfChunks, memVars, cpu>>

\* The header of what is left is written across the end of the heap's last page,
\* and the next one is not mapped.
TakeFaults ==
    /\ Found /\ Left >= MALLOC_MINSIZE /\ PageOf(LeftEnd) \notin mapped
    /\ chunks' = [chunks EXCEPT ![call.chunk].used = TRUE]
    /\ Faults

-----------------------------------------------------------------------------
(***************************************************************************)
(* free, called with what malloc returned.                                 *)
(***************************************************************************)

\* Where the free chunks that follow c end, when the list is whole.
FreeRunEnd(c) ==
    Min({x \in DOMAIN chunks : x > c /\ chunks[x].used} \cup {endOfChunks})

\* The chunk at c and the free ones that follow it.
FreeRun(c) == {x \in DOMAIN chunks : c <= x /\ x < FreeRunEnd(c)}

\* Those of them, in a list that is not whole, that end behind endOfChunks.
RunsPast(c) == {x \in FreeRun(c) : x + chunks[x].size > endOfChunks}

\* The header at c, if there is one, says that the chunk is in use.
InUse(c) == c \in DOMAIN chunks /\ chunks[c].used

\* A free chunk of that size, if it is one, has room for its header.
RoomFor(size) == size = 0 \/ size >= HSIZE

Freeing(a) ==
    LET c == a - HSIZE
    IN  /\ Running /\ mallocReady
        /\ InUse(c)
        /\ \A x \in FreeRun(c) : chunks[x].size # 0
        /\ totalMemAllocated' = totalMemAllocated - (chunks[c].size - HSIZE)
        /\ held' = Restrict(held, DOMAIN held \ {a})
        /\ UNCHANGED <<stacks, call, cpu>>

\* The chunk joins the free chunks that follow; whole pages at the end of the
\* list are unmapped.  A chunk of which nothing is left is the end of the list.
free(a) ==
    LET c == a - HSIZE
        stop == FreeRunEnd(c)
        nPages == IF stop = endOfChunks THEN (stop - c) \div PAGESIZE ELSE 0
        size == stop - c - nPages * PAGESIZE
        gone == {x \in DOMAIN chunks : c < x /\ x < stop}
                  \cup IF size = 0 THEN {c} ELSE {}
    IN  /\ Freeing(a) /\ RunsPast(c) = {}
        /\ chunks' = [x \in DOMAIN chunks \ gone |->
                        IF x = c THEN Chunk(size) ELSE chunks[x]]
        /\ endOfChunks' = endOfChunks - nPages * PAGESIZE
        /\ mapped' = mapped \ {PageOf(endOfChunks' + HSIZE) + i : i \in 0 .. nPages - 1}
        /\ Called(RoomFor(size))

\* The last of the chunks that are joined ends behind endOfChunks.
freePast(a) ==
    LET c == a - HSIZE
        last == Min(RunsPast(c))
    IN  /\ Freeing(a) /\ RunsPast(c) # {}
        /\ chunks' = [x \in {y \in DOMAIN chunks : ~(c < y /\ y <= last)} |->
                        IF x = c THEN Chunk(last + chunks[last].size - c) ELSE chunks[x]]
        /\ Called(TRUE)
        /\ UNCHANGED <<endOfChunks, mapped>>

\* "Chunk with bad magic", "it's not used!", "Corrupted chunk with null size !"
freePanic(a) ==
    LET c == a - HSIZE
    IN  /\ Running /\ mallocReady
        /\ InUse(c) => \E x \in FreeRun(c) : chunks[x].size = 0
        /\ cpu' = "halt"
        /\ Called(TRUE)
        /\ UNCHANGED <<chunks, endOfChunks, totalMemAllocated, memVars, held, call>>

\* free while another task is in malloc: an error message, and the chunk is lost.
freeRefused(a) ==
    /\ Running /\ ~mallocReady
    /\ Cardinality(UsedChunks) - Cardinality(DOMAIN held) < MaxLost
    /\ held' = Restrict(held, DOMAIN held \ {a})
    /\ UNCHANGED <<chunks, endOfChunks, totalMemAllocated, memVars, call, cpu, broken>>

release(a) == free(a) \/ freePast(a) \/ freePanic(a) \/ freeRefused(a)

-----------------------------------------------------------------------------
(***************************************************************************)
(* realloc.  All but its last way are loops over the list that change it   *)
(* at most once, and are one step as free is.                              *)
(***************************************************************************)
\* What callers may still pass to free and realloc.
Held == DOMAIN held \ {move.from}

Resizing(c) == Running /\ mallocReady /\ InUse(c)

\* The result of a realloc that leaves the headers list behind, has the caller's
\* chunk at c and changes its size by grown.
Resized(a, c, n, list, grown) ==
    /\ chunks' = list
    /\ totalMemAllocated' = totalMemAllocated + grown
    /\ held' = [x \in (DOMAIN held \ {a}) \cup {c + HSIZE} |->
                  IF x = c + HSIZE THEN n ELSE held[x]]
    /\ UNCHANGED <<endOfChunks, memVars, call, move, cpu>>

\* The chunks without those of the set gone, with a chunk of size s in use at c
\* and, when there is a rest, a free chunk of that size behind it.
Split(gone, c, s, rest) ==
    [x \in (DOMAIN chunks \ gone) \cup {c} \cup (IF rest > 0 THEN {c + s} ELSE {}) |->
        CASE x = c -> [Chunk(s) EXCEPT !.used = TRUE]
          [] x = c + s /\ rest > 0 -> Chunk(rest)
          [] OTHER -> chunks[x]]

FreeNext(c) ==
    LET next == c + chunks[c].size 
    IN  next < endOfChunks /\ next \in DOMAIN chunks /\ ~chunks[next].used

\* The same size, or less: what is too much joins a free chunk that follows, is a
\* chunk of its own if it can be one, or else stays.
reallocShrink(a, n) ==
    LET c == a - HSIZE
        next == c + chunks[c].size
        diff == chunks[c].size - RealSize(n)
        joined == IF chunks[next].size = 0 THEN {} ELSE {next}
    IN  /\ Resizing(c)
        /\ diff >= 0
        /\ Called(TRUE)
        /\ IF diff > 0 /\ FreeNext(c)
           THEN Resized(a, c, n, Split(joined, c, RealSize(n), chunks[next].size + diff), 0 - diff)
           ELSE IF diff >= MALLOC_MINSIZE
           THEN Resized(a, c, n, Split({}, c, RealSize(n), diff), 0 - diff)
           ELSE Resized(a, c, n, chunks, 0)

\* Enough room with the free chunk that follows.
GrowsIntoNext(c, n) ==
    FreeNext(c) /\ chunks[c].size + chunks[c + chunks[c].size].size >= RealSize(n)

reallocNext(a, n) ==
    LET c == a - HSIZE
        next == c + chunks[c].size
        rest == chunks[c].size + chunks[next].size - RealSize(n)
    IN  /\ Resizing(c)
        /\ chunks[c].size < RealSize(n) /\ GrowsIntoNext(c, n)
        /\ Resized(a, c, n, Split({next}, c, RealSize(n), rest), RealSize(n) - chunks[c].size)
        /\ Called(RoomFor(rest))

\* The chunk before c, for which realloc follows the list from its beginning.
Previous(c) == CHOOSE x \in DOMAIN chunks : x + chunks[x].size = c

FindsPrevious(c) ==
    /\ \E x \in DOMAIN chunks : x + chunks[x].size = c
    /\ \A x \in DOMAIN chunks : x < c => chunks[x].size # 0

GrowsIntoPrevious(c, n) ==
    /\ c # firstChunk
    /\ ~chunks[Previous(c)].used
    /\ chunks[c].size + chunks[Previous(c)].size >= RealSize(n)

\* The header that realloc writes behind the chunk, that of an empty chunk in an
\* exact fit, is not over the header of the next chunk.
PreviousFits(c, n) ==
    \/ chunks[c].size + chunks[Previous(c)].size > RealSize(n)
    \/ c + chunks[c].size >= endOfChunks

\* realloc looks at the chunk before, as the one that follows is no help.
LooksBack(c, n) ==
    /\ Resizing(c)
    /\ chunks[c].size < RealSize(n) /\ ~GrowsIntoNext(c, n)
    /\ c # firstChunk => FindsPrevious(c)

\* Enough room with the free chunk before: what the caller holds moves there.
reallocPrevious(a, n) ==
    LET c == a - HSIZE
        p == Previous(c)
        rest == chunks[c].size + chunks[p].size - RealSize(n)
    IN  /\ LooksBack(c, n) /\ GrowsIntoPrevious(c, n) /\ PreviousFits(c, n)
        /\ Resized(a, p, n, Split({c}, p, RealSize(n), rest), RealSize(n) - chunks[c].size)
        /\ Called(RoomFor(rest))

\* An exact fit in the middle of the list: the next chunk, whoever's it is, now is
\* a free one of size 0.
reallocSmashes(a, n) ==
    LET c == a - HSIZE
        p == Previous(c)
        next == c + chunks[c].size
        list == Split({c}, p, RealSize(n), 0)
    IN  /\ LooksBack(c, n) /\ GrowsIntoPrevious(c, n) /\ ~PreviousFits(c, n)
        /\ Resized(a, p, n, [list EXCEPT ![next] = Chunk(0)], RealSize(n) - chunks[c].size)
        /\ Called(FALSE)

\* No room on either side: realloc is ready again before it calls malloc.
reallocMove(a, n) ==
    LET c == a - HSIZE
    IN  /\ LooksBack(c, n) /\ ~GrowsIntoPrevious(c, n)
        /\ move = NoMove
        /\ Cardinality(UsedChunks) < MaxUsed
        /\ move' = [pc |-> "begin", from |-> a, size |-> n]
        /\ Called(TRUE)
        /\ UNCHANGED <<chunks, endOfChunks, totalMemAllocated, memVars, held, call, cpu>>

\* In a list that is not whole: the search for the previous chunk stays at a chunk
\* of size 0 for ever, or leaves the list, and mallocReady stays false.
reallocLost(a, n) ==
    LET c == a - HSIZE
    IN  /\ Resizing(c)
        /\ chunks[c].size < RealSize(n) /\ ~GrowsIntoNext(c, n)
        /\ c # firstChunk /\ ~FindsPrevious(c)
        /\ broken <= MaxFollowed
        /\ Faults
        /\ UNCHANGED chunks

\* "Trying to realloc a free chunk"
reallocPanic(a) ==
    /\ Running /\ mallocReady /\ ~InUse(a - HSIZE)
    /\ cpu' = "halt"
    /\ Called(TRUE)
    /\ UNCHANGED <<chunks, endOfChunks, totalMemAllocated, memVars, held, call, move>>

\* The malloc of a realloc.  Its nullptr, when another task is in malloc by now, is
\* copied to: page 0 is not mapped, and the task ends, or the kernel when it is the
\* kernel's own.
moveMalloc ==
    /\ Running /\ move.pc = "begin"
    /\ IF mallocReady
       THEN /\ call' = [Idle EXCEPT !.pc = "walk", !.size = move.size,
                                    !.nextUnmapped = getUnmappedVAddr(mapped)]
            /\ move' = [move EXCEPT !.pc = "malloc"]
            /\ UNCHANGED cpu
       ELSE /\ \/ move' = NoMove /\ UNCHANGED cpu
               \/ cpu' = "fault" /\ UNCHANGED move
            /\ UNCHANGED call
    /\ UNCHANGED <<chunks, endOfChunks, totalMemAllocated, memVars, held, broken>>

\* The free at the end of a realloc.
moveFree ==
    /\ move.pc = "free"
    /\ release(move.from)
    /\ move' = NoMove

realloc(a, n) ==
    \/ reallocShrink(a, n) \/ reallocNext(a, n)
    \/ reallocPrevious(a, n) \/ reallocSmashes(a, n)
    \/ reallocMove(a, n) \/ reallocLost(a, n) \/ reallocPanic(a)

-----------------------------------------------------------------------------
\* fatalError, halt and the kernel's own exceptions stop the kernel.
Halt == ~Running /\ UNCHANGED vars

\* The bound on the calls in a list that is not whole.
Unfollowed == broken > MaxFollowed /\ UNCHANGED vars

\* One round of a loop of malloc, or what follows its loops.
MallocStep ==
    \/ WalkNull \/ WalkMerge \/ WalkNext \/ WalkReclaim \/ WalkPanic \/ WalkPast
    \/ GrowPage \/ GrowWrap \/ GrowTakesOther \/ GrowPanic \/ GrowTakesNew \/ GrowFaults
    \/ Take \/ TakeFaults

Next ==
    \/ \E n \in Sizes : malloc(n)
    \/ mallocRefused
    \/ MallocStep
    \/ \E a \in Held : release(a) /\ UNCHANGED move
    \/ \E a \in Held, n \in Sizes : realloc(a, n)
    \/ moveMalloc
    \/ moveFree
    \/ StackMap
    \/ \E p \in stacks : StackUnmap(p)
    \/ Halt
    \/ Unfollowed

\* A preempted malloc runs on: the scheduler comes back to its task.
Fairness == WF_vars(MallocStep)

Spec == Init /\ [][Next]_vars /\ Fairness

-----------------------------------------------------------------------------
(***************************************************************************)
(* Properties.                                                             *)
(***************************************************************************)

\* The types of the heap's state.  In a list that is whole, no size, no address and
\* no count that malloc keeps has wrapped around.
TypeOK ==
    /\ call.pc \in {"idle", "walk", "past", "grow", "take", "dead"}
    /\ move.pc \in {"none", "begin", "malloc", "free"}
    /\ cpu \in {"run", "halt", "fault"} /\ broken \in Nat
    /\ intact =>
          /\ DOMAIN chunks \subseteq Nat
          /\ \A c \in DOMAIN chunks : chunks[c] \in Header
          /\ {endOfChunks, call.size, call.needToAlloc, call.totalAlloced} \subseteq Nat
          /\ totalMemAllocated \in Int
          /\ stacks \subseteq mapped /\ mapped \subseteq Nat
          /\ DOMAIN held \subseteq Nat

\* As long as the code has not come to one of the five places: following the sizes
\* from firstChunk leads over every header to endOfChunks, which leaves room for one
\* more header on its page, so that the list that malloc and free walk is whole,
\* however a preempted malloc that meets stacks and grows several times, the frees
\* and the stacks that come and go are interleaved.
ListTilesHeap ==
    intact /\ Running /\ mallocReady =>
        /\ endOfChunks % PAGESIZE = PAGESIZE - HSIZE
        /\ firstChunk \in DOMAIN chunks
        /\ \A c \in DOMAIN chunks :
              /\ chunks[c].size >= HSIZE
              /\ c + chunks[c].size \in DOMAIN chunks \cup {endOfChunks}
              /\ \A x \in DOMAIN chunks : ~(c < x /\ x < c + chunks[c].size)

\* The pages with addresses from a to b - 1.
PagesOf(a, b) == PageOf(a) .. PageOf(b - 1)

\* The pages that malloc itself uses: those of its chunks, of the headers of the
\* chunks around other pages, and of the spare header at endOfChunks.
HeapPages ==
    PagesOf(endOfChunks, endOfChunks + HSIZE) \cup
    UNION {PagesOf(c, c + IF chunks[c].notOurs THEN HSIZE ELSE chunks[c].size) :
             c \in DOMAIN chunks}

\* As long as the list is whole, malloc has mapped the pages that it uses and no
\* others, and never uses, unmaps or takes over a page that is a kernel stack.
HeapOwnsItsPages == intact /\ Running /\ mallocReady => HeapPages = mapped \ stacks

\* As long as the list is whole, what a caller holds is the inside of a used chunk of
\* at least the size that it asked for, also while another malloc is under way or has
\* ended in a page fault: with ListTilesHeap, no two callers share memory, and no
\* merge, split or trim touches what is still in use.
HeldIsAllocated ==
    intact =>
    \A a \in DOMAIN held :
        /\ a - HSIZE \in DOMAIN chunks
        /\ LET c == chunks[a - HSIZE]
           IN  c.used /\ ~c.notOurs /\ c.size >= HSIZE + held[a]

\* Every malloc ends, in a list of any shape: it returns, stops the kernel, or takes
\* its task with it in a page fault and leaves mallocReady false, though the count
\* of what it needs starts again each time it meets somebody else's page.
MallocReturns == (Running /\ ~mallocReady) ~> (~Running \/ mallocReady \/ Dead)

\* The assertions of malloc, "Corrupted chunk at 0x%x with null size" among them:
\* no sequence of calls makes one fail or leaves a list on which one will.
NoPanic == cpu # "halt" /\ \A c \in DOMAIN chunks : chunks[c].size # 0

=============================================================================
