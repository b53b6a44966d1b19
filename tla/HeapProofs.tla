----------------------------- MODULE HeapProofs -----------------------------
(***************************************************************************)
(* Proofs about the kernel heap, for every size of a page and of a header, *)
(* every size that is asked for, and every number of pages, stacks and     *)
(* chunks, as long as the code has not come to one of the five places that *)
(* leave a list that is not whole.                                         *)
(***************************************************************************)
EXTENDS Heap, FiniteSetTheorems, TLAPS

-----------------------------------------------------------------------------
(***************************************************************************)
(* The inductive invariant.                                                *)
(***************************************************************************)

\* The chunks of ch have sizes, and lie one behind the other from 0 to end.
Tiles(ch, end) ==
    /\ DOMAIN ch \subseteq Nat /\ end \in Nat
    /\ \A c \in DOMAIN ch : ch[c].size \in Nat \ {0} /\ c + ch[c].size <= end
    /\ \A x \in 0 .. end - 1 : \E c \in DOMAIN ch : c <= x /\ x < c + ch[c].size
    /\ \A c, x \in DOMAIN ch : ~(c < x /\ x < c + ch[c].size)

\* Where the list ends: the pages that malloc has mapped behind a chunk in use
\* become a chunk when it has enough of them.
ListEnd == IF call.pc = "grow" /\ chunks[call.other].used THEN call.oldEnd ELSE endOfChunks

HeadersOK ==
    /\ DOMAIN chunks \subseteq Nat
    /\ \A c \in DOMAIN chunks : /\ chunks[c] \in Header /\ chunks[c].size >= HSIZE
                                /\ chunks[c].notOurs => chunks[c].used

EndOK == endOfChunks \in Nat /\ \E k \in Nat : endOfChunks + HSIZE = k * PAGESIZE

\* The locals of malloc.
CallType ==
    [pc : {"idle", "walk", "grow", "take", "dead"}, size : Nat, chunk : Nat,
     other : Nat \cup {NoChunk}, nextUnmapped : Nat, oldEnd : Nat, needToAlloc : Nat,
     totalAlloced : Nat]

CallOK ==
    /\ call.pc = "walk" =>
          /\ call.chunk \in DOMAIN chunks
          /\ call.other # NoChunk =>
                call.other \in DOMAIN chunks /\ call.other + chunks[call.other].size = call.chunk
    /\ call.pc = "grow" =>
          /\ call.other \in DOMAIN chunks /\ call.other + chunks[call.other].size = ListEnd
          /\ chunks[call.other].used =>
                /\ call.oldEnd + call.totalAlloced = endOfChunks
                /\ call.needToAlloc = 0 => call.totalAlloced # 0
                /\ call.totalAlloced # 0 => call.totalAlloced >= HSIZE
    /\ call.pc = "take" => call.chunk \in DOMAIN chunks /\ ~chunks[call.chunk].used

MapOK ==
    /\ mapped \subseteq Nat /\ stacks \subseteq mapped
    /\ IsFiniteSet(mapped) /\ Cardinality(mapped) <= MaxPages

Holds ==
    \A a \in DOMAIN held :
        /\ a - HSIZE \in DOMAIN chunks
        /\ chunks[a - HSIZE].used /\ ~chunks[a - HSIZE].notOurs
        /\ chunks[a - HSIZE].size >= HSIZE + held[a]

Moves == [pc : {"none", "begin", "malloc", "free"}, from : Nat \cup {NoChunk}, size : Nat]

HeldOK ==
    /\ DOMAIN held \subseteq Nat
    /\ Holds
    /\ move \in Moves
    /\ move.pc = "none" => move.from = NoChunk
    /\ move.pc # "none" => move.from \in DOMAIN held

\* The addresses that are malloc's: all up to the spare header, but for the pages
\* that are wrapped.
Mine(x) ==
    /\ x < endOfChunks + HSIZE
    /\ \A w \in DOMAIN chunks :
          chunks[w].notOurs => ~(w + HSIZE <= x /\ x < w + chunks[w].size)

PagesOK == \A p \in Nat : p \in mapped \ stacks <=> \E x \in Nat : Mine(x) /\ PageOf(x) = p

\* What holds in any case.
Base ==
    /\ HeadersOK /\ EndOK /\ MapOK /\ HeldOK
    /\ call \in CallType
    /\ totalMemAllocated \in Int

\* The list is whole, and malloc knows where it is in it.
Whole == Tiles(chunks, ListEnd) /\ CallOK /\ PagesOK

\* There was no frame for the page behind a wrapper: malloc goes on to map pages, and
\* ends in a page fault when it writes the header of the new chunk to that page.
Doomed ==
    /\ call.pc = "grow" /\ call.totalAlloced # 0
    /\ call.other \in DOMAIN chunks /\ chunks[call.other].used
    /\ \E u \in Nat \ mapped :
          call.oldEnd = u * PAGESIZE /\ u * PAGESIZE + PAGESIZE <= endOfChunks + HSIZE

IInv == Base /\ (Running => Whole \/ Doomed \/ Dead)

\* What holds of a list of any shape.
Controls ==
    /\ "pc" \in DOMAIN call /\ "pc" \in DOMAIN move
    /\ call.pc \in {"idle", "walk", "past", "grow", "take", "dead"}
    /\ move.pc \in {"none", "begin", "malloc", "free"}
    /\ cpu \in {"run", "halt", "fault"} /\ broken \in Nat

Inv == Controls /\ (intact => IInv)

-----------------------------------------------------------------------------
(***************************************************************************)
(* Numbers and pages.                                                      *)
(***************************************************************************)
LEMMA Scales ==
    /\ PAGESIZE \in Nat \ {0} /\ HSIZE \in Nat \ {0} /\ MALLOC_MINSIZE \in Nat \ {0}
    /\ MaxPages \in Nat \ {0}
    /\ HSIZE <= MALLOC_MINSIZE /\ MALLOC_MINSIZE + HSIZE < PAGESIZE
    /\ \A n \in Sizes : n \in Nat /\ n # 0
  BY HeapAssumption

\* A set of naturals with a member has a least one.
LEMMA LeastIs ==
    ASSUME NEW S \in SUBSET Nat, S # {}
    PROVE  Min(S) \in S /\ \A q \in S : Min(S) <= q
<1>1. PICK m \in S : \A n \in S : ~(<<n, m>> \in OpToRel(<, Nat))
  BY NatLessThanWellFounded, WFMin
<1>2. ASSUME NEW n \in S PROVE m <= n
  <2>1. m \in Nat /\ n \in Nat
    OBVIOUS
  <2>2. ~(n < m)
    BY <1>1, <2>1 DEF OpToRel
  <2>. QED
    BY <2>1, <2>2
<1>3. \E p \in S : \A q \in S : p <= q
  BY <1>2
<1>. QED
  BY <1>3 DEF Min

\* The lesser and the greater of two sizes.
LEMMA TwoSizes ==
    ASSUME NEW m \in Nat, NEW n \in Nat
    PROVE  /\ Min({m, n}) = IF m <= n THEN m ELSE n
           /\ Max({m, n}) = IF m >= n THEN m ELSE n
<1>1. Min({m, n}) \in {m, n} /\ \A q \in {m, n} : Min({m, n}) <= q
  BY LeastIs
<1>2. Min({m, n}) = IF m <= n THEN m ELSE n
  BY <1>1
<1>3. \E p \in {m, n} : \A q \in {m, n} : p >= q
  OBVIOUS
<1>4. Max({m, n}) \in {m, n} /\ \A q \in {m, n} : Max({m, n}) >= q
  BY <1>3 DEF Max
<1>. QED
  BY <1>2, <1>4

LEMMA RealSizeIs ==
    ASSUME NEW n \in Nat
    PROVE  /\ RealSize(n) \in Nat \ {0}
           /\ RealSize(n) >= HSIZE + n /\ RealSize(n) >= MALLOC_MINSIZE
<1>1. HSIZE + n \in Nat /\ MALLOC_MINSIZE \in Nat \ {0} /\ HSIZE \in Nat \ {0}
  BY Scales
<1>2. RealSize(n) = IF HSIZE + n >= MALLOC_MINSIZE THEN HSIZE + n ELSE MALLOC_MINSIZE
  BY <1>1, TwoSizes DEF RealSize
<1>. QED
  BY <1>1, <1>2

\* Two pages are a page apart at least.
LEMMA PagesApart ==
    ASSUME NEW p \in Nat, NEW q \in Nat, p < q
    PROVE  p * PAGESIZE \in Nat /\ p * PAGESIZE + PAGESIZE <= q * PAGESIZE
<1>1. PICK d \in Nat : q = p + 1 + d
  <2>1. q - p - 1 \in Nat
    OBVIOUS
  <2>. QED
    BY <2>1
<1>2. PAGESIZE \in Nat
  BY Scales
<1>3. q * PAGESIZE = p * PAGESIZE + PAGESIZE + d * PAGESIZE /\ d * PAGESIZE \in Nat
  BY <1>1, <1>2
<1>. QED
  BY <1>2, <1>3

\* The page of an address.
LEMMA PageIs ==
    ASSUME NEW x \in Nat, NEW p \in Nat
    PROVE  /\ PageOf(x) \in Nat
           /\ PageOf(x) = p <=> p * PAGESIZE <= x /\ x < p * PAGESIZE + PAGESIZE
<1> DEFINE q == PageOf(x)
           a == p * PAGESIZE
           b == q * PAGESIZE
<1>1. PAGESIZE \in Nat \ {0}
  BY Scales
<1>2. q \in Nat /\ x = PAGESIZE * q + (x % PAGESIZE) /\ x % PAGESIZE \in 0 .. PAGESIZE - 1
  BY <1>1 DEF PageOf
<1>3. a \in Nat /\ b \in Nat /\ b = PAGESIZE * q
  BY <1>1, <1>2
<1> HIDE DEF q
<1>4. b <= x /\ x < b + PAGESIZE
  BY <1>1, <1>2, <1>3
<1>5. q < p => b + PAGESIZE <= a
  BY <1>2, PagesApart
<1>6. p < q => a + PAGESIZE <= b
  BY <1>2, PagesApart
<1> HIDE DEF a, b
<1>7. q = p <=> a <= x /\ x < a + PAGESIZE
  <2>1. CASE q = p
    BY <1>4, <2>1 DEF a, b
  <2>2. CASE q < p
    BY <1>1, <1>2, <1>3, <1>4, <1>5, <2>2
  <2>3. CASE p < q
    BY <1>1, <1>2, <1>3, <1>4, <1>6, <2>3
  <2>. QED
    BY <1>2, <2>1, <2>2, <2>3
<1>. QED
  BY <1>2, <1>7 DEF q, a

\* An address that is malloc's is in one of its pages.
LEMMA PageBounds ==
    ASSUME NEW x \in Nat
    PROVE  /\ PageOf(x) * PAGESIZE \in Nat
           /\ PageOf(x) * PAGESIZE <= x /\ x < PageOf(x) * PAGESIZE + PAGESIZE
<1>1. PageOf(x) \in Nat
  BY PageIs
<1>. QED
  BY <1>1, PageIs, Scales
-----------------------------------------------------------------------------
(***************************************************************************)
(* Lists of chunks.                                                        *)
(***************************************************************************)

\* What lies at the two ends of a chunk, and that chunks do not overlap.
LEMMA Neighbours ==
    ASSUME NEW ch, NEW end, Tiles(ch, end), NEW c \in DOMAIN ch
    PROVE  /\ c + ch[c].size \in DOMAIN ch \cup {end}
           /\ c # 0 => \E x \in DOMAIN ch : x + ch[x].size = c
           /\ \A x \in DOMAIN ch : x < c => x + ch[x].size <= c
           /\ \A x \in DOMAIN ch : c < x => c + ch[c].size <= x
<1>1. /\ DOMAIN ch \subseteq Nat /\ end \in Nat /\ c \in Nat
      /\ \A x \in DOMAIN ch : x \in Nat /\ ch[x].size \in Nat /\ ch[x].size # 0 /\ x + ch[x].size <= end
  BY DEF Tiles
<1>2. \A x \in 0 .. end - 1 : \E d \in DOMAIN ch : d <= x /\ x < d + ch[d].size
  BY DEF Tiles
<1>3. \A d, x \in DOMAIN ch : ~(d < x /\ x < d + ch[d].size)
  BY DEF Tiles
<1>4. c + ch[c].size \in DOMAIN ch \cup {end}
  <2> DEFINE e == c + ch[c].size
  <2> SUFFICES ASSUME e # end
               PROVE  e \in DOMAIN ch
    OBVIOUS
  <2>1. e \in 0 .. end - 1 /\ e \in Nat /\ c < e
    BY <1>1
  <2>2. PICK d \in DOMAIN ch : d <= e /\ e < d + ch[d].size
    BY <1>2, <2>1
  <2>3. d \in Nat /\ ch[d].size \in Nat
    BY <1>1
  <2> HIDE DEF e
  <2>4. d = e
    <3>1. CASE d < c
      <4>1. c < d + ch[d].size
        BY <1>1, <2>1, <2>2, <2>3, <3>1
      <4>. QED
        BY <1>3, <3>1, <4>1
    <3>2. CASE d = c
      BY <1>1, <2>2, <3>2 DEF e
    <3>3. CASE c < d /\ d < e
      BY <1>3, <3>3 DEF e
    <3>. QED
      BY <1>1, <2>1, <2>2, <2>3, <3>1, <3>2, <3>3
  <2>. QED
    BY <2>4
<1>5. ASSUME c # 0
      PROVE  \E x \in DOMAIN ch : x + ch[x].size = c
  <2>1. c - 1 \in 0 .. end - 1
    BY <1>1, <1>5
  <2>2. PICK d \in DOMAIN ch : d <= c - 1 /\ c - 1 < d + ch[d].size
    BY <1>2, <2>1
  <2>3. d \in Nat /\ ch[d].size \in Nat /\ d < c /\ c <= d + ch[d].size
    BY <1>1, <2>2
  <2>4. ~(c < d + ch[d].size)
    BY <1>3, <2>3
  <2>. QED
    BY <1>1, <2>3, <2>4
<1>6. ASSUME NEW x \in DOMAIN ch, x < c
      PROVE  x + ch[x].size <= c
  BY <1>1, <1>3, <1>6
<1>7. ASSUME NEW x \in DOMAIN ch, c < x
      PROVE  c + ch[c].size <= x
  BY <1>1, <1>3, <1>7
<1>. QED
  BY <1>4, <1>5, <1>6, <1>7

\* A chunk of a list.
LEMMA PlaceIs ==
    ASSUME NEW ch, NEW end, Tiles(ch, end), NEW c \in DOMAIN ch
    PROVE  /\ DOMAIN ch \subseteq Nat /\ end \in Nat /\ c \in Nat
           /\ ch[c].size \in Nat /\ ch[c].size # 0
           /\ c + ch[c].size \in Nat /\ c < c + ch[c].size /\ c + ch[c].size <= end
           /\ c + ch[c].size \in DOMAIN ch \cup {end}
<1>1. /\ DOMAIN ch \subseteq Nat /\ end \in Nat /\ c \in Nat
      /\ ch[c].size \in Nat /\ ch[c].size # 0 /\ c + ch[c].size <= end
  BY DEF Tiles
<1>. QED
  BY <1>1, Neighbours

\* A list that is not empty starts at 0.
LEMMA FirstIsThere ==
    ASSUME NEW ch, NEW end, Tiles(ch, end), end # 0
    PROVE  0 \in DOMAIN ch
<1>1. end \in Nat /\ 0 \in 0 .. end - 1
  BY DEF Tiles
<1>2. PICK d \in DOMAIN ch : d <= 0
  BY <1>1 DEF Tiles
<1>. QED
  BY <1>2 DEF Tiles

\* Only sizes and places matter.
LEMMA SameTiles ==
    ASSUME NEW ch, NEW new, NEW end, Tiles(ch, end), DOMAIN new = DOMAIN ch,
           \A c \in DOMAIN ch : new[c].size = ch[c].size
    PROVE  Tiles(new, end)
  BY DEF Tiles

\* The chunks from lo to hi are replaced by one that ends at mid, and one behind it
\* unless mid is hi.
LEMMA Replace ==
    ASSUME NEW ch, NEW new, NEW end, Tiles(ch, end),
           NEW lo \in DOMAIN ch, NEW hi \in DOMAIN ch \cup {end}, NEW mid \in Nat,
           lo < mid, mid <= hi,
           \A x : x \in DOMAIN new <=>
                    (x \in DOMAIN ch /\ ~(lo < x /\ x < hi)) \/ (x = mid /\ mid < hi),
           new[lo].size = mid - lo,
           mid < hi => new[mid].size = hi - mid,
           \A x \in DOMAIN ch : x < lo \/ hi <= x => new[x].size = ch[x].size
    PROVE  Tiles(new, end)
<1>1. /\ DOMAIN ch \subseteq Nat /\ end \in Nat /\ lo \in Nat /\ hi \in Nat /\ hi <= end
      /\ \A x \in DOMAIN ch : x \in Nat /\ ch[x].size \in Nat /\ ch[x].size # 0 /\ x + ch[x].size <= end
  <2>1. /\ DOMAIN ch \subseteq Nat /\ end \in Nat
        /\ \A x \in DOMAIN ch : x \in Nat /\ ch[x].size \in Nat /\ ch[x].size # 0 /\ x + ch[x].size <= end
    BY DEF Tiles
  <2>. QED
    BY <2>1
<1>2. \A x \in 0 .. end - 1 : \E d \in DOMAIN ch : d <= x /\ x < d + ch[d].size
  BY DEF Tiles
<1>3. \A d, x \in DOMAIN ch : ~(d < x /\ x < d + ch[d].size)
  BY DEF Tiles
<1>4. ASSUME NEW x \in DOMAIN new
      PROVE  \/ x = lo /\ new[x].size = mid - lo
             \/ x = mid /\ mid < hi /\ new[x].size = hi - mid
             \/ x \in DOMAIN ch /\ (x < lo \/ hi <= x) /\ new[x].size = ch[x].size
  BY <1>1, <1>4
<1>5. DOMAIN new \subseteq Nat /\ lo \in DOMAIN new
  BY <1>1, <1>4
<1>6. ASSUME NEW x \in DOMAIN ch, x < lo
      PROVE  x + ch[x].size <= lo
  BY <1>1, <1>3, <1>6
<1>7. ASSUME NEW x \in DOMAIN new
      PROVE  new[x].size \in Nat \ {0} /\ x + new[x].size <= end
  BY <1>1, <1>4, <1>7
<1>8. ASSUME NEW x \in 0 .. end - 1
      PROVE  \E d \in DOMAIN new : d <= x /\ x < d + new[d].size
  <2>1. x \in Nat
    BY <1>1
  <2>2. CASE lo <= x /\ x < mid
    BY <1>1, <1>5, <2>1, <2>2
  <2>3. CASE mid <= x /\ x < hi
    <3>1. mid \in DOMAIN new /\ new[mid].size = hi - mid
      BY <1>1, <2>1, <2>3
    <3>. QED
      BY <1>1, <2>1, <2>3, <3>1
  <2>4. CASE x < lo \/ hi <= x
    <3>1. PICK d \in DOMAIN ch : d <= x /\ x < d + ch[d].size
      BY <1>2
    <3>2. d < lo \/ hi <= d
      <4>1. CASE x < lo
        BY <1>1, <2>1, <3>1, <4>1
      <4>2. CASE hi <= x /\ d < hi
        <5>1. hi \in DOMAIN ch
          BY <1>1, <2>1, <4>2
        <5>2. hi < d + ch[d].size
          BY <1>1, <2>1, <3>1, <4>2
        <5>. QED
          BY <1>3, <4>2, <5>1, <5>2
      <4>. QED
        BY <1>1, <2>4, <4>1, <4>2
    <3>3. d \in DOMAIN new /\ new[d].size = ch[d].size
      BY <1>1, <3>2
    <3>. QED
      BY <3>1, <3>3
  <2>. QED
    BY <1>1, <2>1, <2>2, <2>3, <2>4
<1>9. ASSUME NEW c \in DOMAIN new, NEW x \in DOMAIN new, c < x, x < c + new[c].size
      PROVE  FALSE
  <2>1. c \in Nat /\ x \in Nat
    BY <1>5
  <2>2. CASE c = lo
    BY <1>1, <1>4, <1>9, <2>1, <2>2
  <2>3. CASE c = mid /\ mid < hi
    BY <1>1, <1>4, <1>9, <2>1, <2>3
  <2>4. CASE c \in DOMAIN ch /\ c < lo
    <3>1. new[c].size = ch[c].size /\ c + ch[c].size <= lo
      BY <1>6, <2>4
    <3>2. x < lo
      BY <1>1, <1>9, <2>1, <3>1
    <3>3. x \in DOMAIN ch
      BY <1>1, <1>4, <2>1, <3>2
    <3>. QED
      BY <1>3, <1>9, <2>4, <3>1, <3>3
  <2>5. CASE c \in DOMAIN ch /\ hi <= c
    <3>1. new[c].size = ch[c].size /\ x > hi
      BY <1>1, <1>9, <2>1, <2>5
    <3>2. x \in DOMAIN ch
      BY <1>1, <1>4, <2>1, <3>1
    <3>. QED
      BY <1>3, <1>9, <2>5, <3>1, <3>2
  <2>. QED
    BY <1>4, <2>2, <2>3, <2>4, <2>5
<1>. QED
  BY <1>1, <1>5, <1>7, <1>8, <1>9 DEF Tiles

\* The last chunk grows or shrinks, and the list with it.
LEMMA ResizeLast ==
    ASSUME NEW ch, NEW new, NEW end, Tiles(ch, end), NEW to \in Nat,
           NEW c \in DOMAIN ch, c + ch[c].size = end, c < to,
           DOMAIN new = DOMAIN ch, new[c].size = to - c,
           \A x \in DOMAIN ch : x # c => new[x].size = ch[x].size
    PROVE  Tiles(new, to)
<1>1. /\ DOMAIN ch \subseteq Nat /\ end \in Nat /\ c \in Nat
      /\ \A x \in DOMAIN ch : x \in Nat /\ ch[x].size \in Nat /\ ch[x].size # 0 /\ x + ch[x].size <= end
  BY DEF Tiles
<1>2. \A x \in 0 .. end - 1 : \E d \in DOMAIN ch : d <= x /\ x < d + ch[d].size
  BY DEF Tiles
<1>3. \A d, x \in DOMAIN ch : ~(d < x /\ x < d + ch[d].size)
  BY DEF Tiles
<1>4. ASSUME NEW x \in DOMAIN ch, x # c
      PROVE  x + ch[x].size <= c
  BY <1>1, <1>3, <1>4
<1>5. ASSUME NEW x \in DOMAIN ch
      PROVE  new[x].size \in Nat \ {0} /\ x + new[x].size <= to
  BY <1>1, <1>4, <1>5
<1>6. ASSUME NEW x \in 0 .. to - 1
      PROVE  \E d \in DOMAIN ch : d <= x /\ x < d + new[d].size
  <2>1. CASE c <= x
    BY <1>1, <2>1
  <2>2. CASE x < c
    <3>1. PICK d \in DOMAIN ch : d <= x /\ x < d + ch[d].size
      BY <1>1, <1>2, <2>2
    <3>. QED
      BY <1>1, <2>2, <3>1
  <2>. QED
    BY <1>1, <2>1, <2>2
<1>7. ASSUME NEW d \in DOMAIN ch, NEW x \in DOMAIN ch, d < x, x < d + new[d].size
      PROVE  FALSE
  <2>1. CASE d = c
    BY <1>1, <1>4, <1>7, <2>1
  <2>2. CASE d # c
    BY <1>3, <1>7, <2>2
  <2>. QED
    BY <2>1, <2>2
<1>. QED
  BY <1>1, <1>5, <1>6, <1>7 DEF Tiles

\* The last chunk leaves the list.
LEMMA DropLast ==
    ASSUME NEW ch, NEW new, NEW end, Tiles(ch, end), NEW c \in DOMAIN ch,
           c + ch[c].size = end, DOMAIN new = DOMAIN ch \ {c},
           \A x \in DOMAIN new : new[x].size = ch[x].size
    PROVE  Tiles(new, c)
<1>1. /\ DOMAIN ch \subseteq Nat /\ end \in Nat /\ c \in Nat
      /\ \A x \in DOMAIN ch : x \in Nat /\ ch[x].size \in Nat /\ ch[x].size # 0 /\ x + ch[x].size <= end
  BY DEF Tiles
<1>2. \A x \in 0 .. end - 1 : \E d \in DOMAIN ch : d <= x /\ x < d + ch[d].size
  BY DEF Tiles
<1>3. \A d, x \in DOMAIN ch : ~(d < x /\ x < d + ch[d].size)
  BY DEF Tiles
<1>4. ASSUME NEW x \in DOMAIN new
      PROVE  new[x].size \in Nat \ {0} /\ x + new[x].size <= c
  BY <1>1, <1>3
<1>5. ASSUME NEW x \in 0 .. c - 1
      PROVE  \E d \in DOMAIN new : d <= x /\ x < d + new[d].size
  <2>1. PICK d \in DOMAIN ch : d <= x /\ x < d + ch[d].size
    BY <1>1, <1>2
  <2>2. d # c
    BY <1>1, <2>1
  <2>. QED
    BY <2>1, <2>2
<1>. QED
  BY <1>1, <1>3, <1>4, <1>5 DEF Tiles

\* A chunk is put at the end of the list.
LEMMA AppendChunk ==
    ASSUME NEW ch, NEW new, NEW end, Tiles(ch, end), NEW s \in Nat \ {0},
           DOMAIN new = DOMAIN ch \cup {end}, new[end].size = s,
           \A x \in DOMAIN ch : new[x].size = ch[x].size
    PROVE  Tiles(new, end + s) /\ end \notin DOMAIN ch
<1>1. /\ DOMAIN ch \subseteq Nat /\ end \in Nat
      /\ \A x \in DOMAIN ch : x \in Nat /\ ch[x].size \in Nat /\ ch[x].size # 0 /\ x + ch[x].size <= end
  BY DEF Tiles
<1>2. \A x \in 0 .. end - 1 : \E d \in DOMAIN ch : d <= x /\ x < d + ch[d].size
  BY DEF Tiles
<1>3. \A d, x \in DOMAIN ch : ~(d < x /\ x < d + ch[d].size)
  BY DEF Tiles
<1>4. end \notin DOMAIN ch
  BY <1>1
<1>5. ASSUME NEW x \in DOMAIN new
      PROVE  new[x].size \in Nat \ {0} /\ x + new[x].size <= end + s
  BY <1>1, <1>5
<1>6. ASSUME NEW x \in 0 .. end + s - 1
      PROVE  \E d \in DOMAIN new : d <= x /\ x < d + new[d].size
  <2>1. CASE end <= x
    BY <1>1, <2>1
  <2>2. CASE x < end
    <3>1. PICK d \in DOMAIN ch : d <= x /\ x < d + ch[d].size
      BY <1>1, <1>2, <2>2
    <3>. QED
      BY <3>1
  <2>. QED
    BY <1>1, <2>1, <2>2
<1>7. ASSUME NEW d \in DOMAIN new, NEW x \in DOMAIN new, d < x, x < d + new[d].size
      PROVE  FALSE
  <2>1. CASE d = end
    BY <1>1, <1>7, <2>1
  <2>2. CASE d # end /\ x = end
    BY <1>1, <1>7, <2>2
  <2>3. CASE d # end /\ x # end
    BY <1>3, <1>7, <2>3
  <2>. QED
    BY <2>1, <2>2, <2>3
<1>. QED
  BY <1>1, <1>4, <1>5, <1>6, <1>7 DEF Tiles

-----------------------------------------------------------------------------
(***************************************************************************)
(* What the steps have in common.                                          *)
(***************************************************************************)

\* getUnmappedVAddr finds a page, and it is not mapped.
LEMMA UnmappedIs ==
    ASSUME NEW m, IsFiniteSet(m), Cardinality(m) <= MaxPages
    PROVE  getUnmappedVAddr(m) \in Nat /\ getUnmappedVAddr(m) \notin m
<1> DEFINE S == (0 .. MaxPages) \ m
<1>1. MaxPages \in Nat
  BY Scales
<1>2. Cardinality(m) \in Nat
  BY FS_CardinalityType
<1>3. Cardinality(0 .. MaxPages) = MaxPages + 1
  BY <1>1, FS_Interval
<1>4. S # {}
  <2> SUFFICES ASSUME 0 .. MaxPages \in SUBSET m
               PROVE  FALSE
    OBVIOUS
  <2>1. Cardinality(0 .. MaxPages) <= Cardinality(m)
    BY FS_Subset
  <2>. QED
    BY <1>1, <1>2, <1>3, <2>1
<1>5. S \in SUBSET Nat
  BY <1>1
<1>6. Min(S) \in S
  BY <1>4, <1>5, LeastIs
<1>. QED
  BY <1>5, <1>6 DEF getUnmappedVAddr

\* One page more.
LEMMA MapsOne ==
    ASSUME MapOK, NEW p \in Nat, CanMap(p), mapped' = mapped \cup {p}, stacks' \subseteq mapped'
    PROVE  MapOK'
<1>1. IsFiniteSet(mapped) /\ Cardinality(mapped) \in Nat /\ MaxPages \in Nat
  BY Scales, FS_CardinalityType DEF MapOK
<1>2. IsFiniteSet(mapped \cup {p}) /\ Cardinality(mapped \cup {p}) = Cardinality(mapped) + 1
  BY <1>1, FS_AddElement DEF CanMap
<1>. QED
  BY <1>1, <1>2 DEF MapOK, CanMap, FreeFrame

\* Fewer pages.
LEMMA UnmapsSome ==
    ASSUME MapOK, mapped' \subseteq mapped, stacks' \subseteq mapped'
    PROVE  MapOK'
<1>1. IsFiniteSet(mapped) /\ Cardinality(mapped) \in Nat /\ MaxPages \in Nat
  BY Scales, FS_CardinalityType DEF MapOK
<1>2. IsFiniteSet(mapped') /\ Cardinality(mapped') <= Cardinality(mapped)
  BY <1>1, FS_Subset
<1>3. Cardinality(mapped') \in Nat
  BY <1>2, FS_CardinalityType
<1>. QED
  BY <1>1, <1>2, <1>3 DEF MapOK

\* The pages that are malloc's stay the same when the chunks around others' pages
\* and the end of the heap do.
LEMMA SamePages ==
    ASSUME PagesOK, UNCHANGED <<endOfChunks, mapped, stacks>>,
           \A w \in DOMAIN chunks' : chunks'[w].notOurs =>
               w \in DOMAIN chunks /\ chunks[w].notOurs /\ chunks[w].size = chunks'[w].size,
           \A w \in DOMAIN chunks : chunks[w].notOurs =>
               w \in DOMAIN chunks' /\ chunks'[w].notOurs /\ chunks'[w].size = chunks[w].size
    PROVE  PagesOK'
<1>1. \A x \in Nat : Mine(x)' <=> Mine(x)
  BY DEF Mine
<1>. QED
  BY <1>1 DEF PagesOK, PageOf

\* A page more that is malloc's.
LEMMA OnePageMore ==
    ASSUME PagesOK, NEW p \in Nat, p \notin mapped, mapped' = mapped \cup {p},
           stacks' = stacks, stacks \subseteq mapped,
           \A x \in Nat : Mine(x)' <=> Mine(x) \/ PageOf(x) = p
    PROVE  PagesOK'
<1>1. \E x \in Nat : PageOf(x) = p
  <2>1. p * PAGESIZE \in Nat /\ PAGESIZE \in Nat \ {0}
    BY Scales
  <2>2. PageOf(p * PAGESIZE) = p
    BY <2>1, PageIs
  <2>. QED
    BY <2>1, <2>2
<1> SUFFICES ASSUME NEW q \in Nat
             PROVE  q \in mapped' \ stacks' <=> \E x \in Nat : Mine(x)' /\ PageOf(x) = q
  BY DEF PagesOK, PageOf
<1>2. q \in mapped \ stacks <=> \E x \in Nat : Mine(x) /\ PageOf(x) = q
  BY DEF PagesOK
<1>3. q \in mapped' \ stacks' <=> q \in mapped \ stacks \/ q = p
  OBVIOUS
<1>. QED
  BY <1>1, <1>2, <1>3

\* The end of the heap leaves room for a header.
LEMMA EndIs ==
    ASSUME EndOK
    PROVE  /\ HSIZE \in Nat \ {0} /\ PAGESIZE \in Nat /\ PAGESIZE > 2 * HSIZE /\ endOfChunks \in Nat
           /\ endOfChunks # 0 /\ PageOf(endOfChunks + HSIZE) \in Nat
           /\ endOfChunks + HSIZE = PageOf(endOfChunks + HSIZE) * PAGESIZE
<1>1. HSIZE \in Nat \ {0} /\ PAGESIZE \in Nat /\ PAGESIZE > 2 * HSIZE /\ endOfChunks \in Nat
  BY Scales DEF EndOK
<1>2. PICK k \in Nat : endOfChunks + HSIZE = k * PAGESIZE
  BY DEF EndOK
<1>3. endOfChunks + HSIZE \in Nat
  BY <1>1
<1>4. PageOf(endOfChunks + HSIZE) = k
  BY <1>1, <1>2, <1>3, PageIs
<1>5. k # 0 => 0 * PAGESIZE + PAGESIZE <= k * PAGESIZE
  BY PagesApart
<1>6. 0 * PAGESIZE = 0
  BY <1>1
<1> DEFINE m == k * PAGESIZE
<1>7. endOfChunks # 0
  <2>1. endOfChunks + HSIZE = m /\ (k # 0 => 0 + PAGESIZE <= m) /\ (k = 0 => m = 0)
    BY <1>2, <1>5, <1>6
  <2> HIDE DEF m
  <2>. QED
    BY <1>1, <2>1
<1>. QED
  BY <1>1, <1>2, <1>4, <1>7

\* malloc(n) starts at the first chunk.
LEMMA CallBegins ==
    ASSUME Base, Whole, mallocReady, NEW n \in Nat,
           call' = [Idle EXCEPT !.pc = "walk", !.size = n,
                                !.nextUnmapped = getUnmappedVAddr(mapped)],
           UNCHANGED <<chunks, endOfChunks>>
    PROVE  call' \in CallType /\ CallOK' /\ Tiles(chunks, ListEnd)'
<1> DEFINE u == getUnmappedVAddr(mapped)
<1>1. u \in Nat
  BY UnmappedIs DEF Base, MapOK
<1> HIDE DEF u
<1>2. call' = [pc |-> "walk", size |-> n, chunk |-> 0, other |-> -1, nextUnmapped |-> u,
               oldEnd |-> 0, needToAlloc |-> 0, totalAlloced |-> 0]
  BY DEF Idle, firstChunk, NoChunk, u
<1>3. /\ call' \in CallType /\ call'.pc = "walk" /\ call'.size = n /\ call'.chunk = 0
      /\ call'.other = NoChunk
  BY ONLY <1>1, <1>2, n \in Nat DEF CallType, NoChunk
<1>4. Tiles(chunks, endOfChunks) /\ endOfChunks # 0
  BY EndIs DEF Base, Whole, ListEnd, mallocReady
<1>5. 0 \in DOMAIN chunks
  BY <1>4, FirstIsThere
<1>6. ListEnd' = endOfChunks'
  BY <1>3 DEF ListEnd
<1>. QED
  BY <1>3, <1>4, <1>5, <1>6 DEF CallOK

LEMMA IdleIs == Idle \in CallType /\ Idle.pc = "idle" /\ Idle.size = 0
  BY DEF Idle, CallType, firstChunk, NoChunk

\* What callers hold stays theirs when the chunks in use do.
LEMMA SameHeld ==
    ASSUME HeldOK, UNCHANGED <<held, move>>,
           \A c \in DOMAIN chunks : chunks[c].used /\ ~chunks[c].notOurs =>
               c \in DOMAIN chunks' /\ chunks'[c] = chunks[c]
    PROVE  HeldOK'
  BY DEF HeldOK, Holds

\* The heap after Malloc::init.
LEMMA InitHeap == ASSUME Init PROVE Base /\ Whole
<1> DEFINE s == PAGESIZE - HSIZE
<1>1. HSIZE \in Nat \ {0} /\ PAGESIZE \in Nat /\ PAGESIZE > 2 * HSIZE /\ s \in Nat \ {0} /\ MaxPages >= 1
  BY Scales
<1>2. /\ DOMAIN chunks = {0} /\ chunks[0] = Chunk(s) /\ endOfChunks = s
      /\ call = Idle /\ mapped = {0} /\ stacks = {}
      /\ DOMAIN held = {} /\ move = NoMove /\ cpu = "run" /\ totalMemAllocated = 0
  BY <1>1 DEF Init, firstChunk
<1> HIDE DEF s
<1>3. chunks[0] \in Header /\ chunks[0].size = s /\ ~chunks[0].notOurs /\ s >= HSIZE
  BY <1>1, <1>2 DEF Chunk, Header, s
<1>4. HeadersOK
  BY <1>2, <1>3 DEF HeadersOK
<1>5. ListEnd = s
  BY <1>2, IdleIs DEF ListEnd
<1>6. Tiles(chunks, ListEnd)
  BY <1>1, <1>2, <1>3, <1>5 DEF Tiles
<1>7. EndOK
  <2>1. s + HSIZE = 1 * PAGESIZE
    BY <1>1 DEF s
  <2>. QED
    BY <1>1, <1>2, <2>1 DEF EndOK
<1>8. CallOK
  BY <1>1, <1>2, IdleIs DEF CallOK
<1>9. MapOK
  <2>1. IsFiniteSet({0}) /\ Cardinality({0}) = 1
    BY FS_Singleton
  <2>. QED
    BY <1>1, <1>2, <2>1 DEF MapOK
<1>10. HeldOK
  <2>1. /\ NoMove \in Moves
        /\ NoMove.pc = "none" /\ NoMove.from = NoChunk
    BY DEF Moves, NoMove, NoChunk
  <2>. QED
    BY <1>2, <2>1 DEF HeldOK, Holds
<1>11. PagesOK
  <2>1. \A x \in Nat : Mine(x) <=> x < PAGESIZE
    BY <1>1, <1>2, <1>3 DEF Mine, s
  <2>2. \A x \in Nat : PageOf(x) = 0 <=> x < PAGESIZE
    <3> SUFFICES ASSUME NEW x \in Nat
                 PROVE  PageOf(x) = 0 <=> x < PAGESIZE
      OBVIOUS
    <3>1. PageOf(x) = 0 <=> 0 * PAGESIZE <= x /\ x < 0 * PAGESIZE + PAGESIZE
      BY PageIs
    <3>2. 0 * PAGESIZE = 0
      BY <1>1
    <3>. QED
      BY <1>1, <3>1, <3>2
  <2>3. 0 \in Nat /\ 0 < PAGESIZE
    BY <1>1
  <2>. QED
    BY <1>2, <2>1, <2>2, <2>3 DEF PagesOK
<1>. QED
  BY <1>2, <1>4, <1>6, <1>7, <1>8, <1>9, <1>10, <1>11, IdleIs DEF Base, Whole

-----------------------------------------------------------------------------
(***************************************************************************)
(* malloc, one lemma per step.                                             *)
(***************************************************************************)

\* A free chunk that joins the one before it.
LEMMA WalkMergeOK == ASSUME Base, Whole, WalkMerge PROVE Base' /\ Whole'
<1> DEFINE c == call.chunk
           o == call.other
           hi == c + chunks[c].size
           D == DOMAIN chunks
<1>1. /\ call \in CallType /\ call.pc = "walk" /\ c \in D /\ o \in D /\ o + chunks[o].size = c
      /\ ~chunks[o].used /\ ~chunks[c].used /\ o # NoChunk
  BY DEF WalkMerge, Walking, Mergeable, Base, Whole, CallOK
<1>2. Tiles(chunks, endOfChunks)
  BY <1>1 DEF Base, Whole, ListEnd
<1>3. /\ D \subseteq Nat /\ o \in Nat /\ c \in Nat /\ hi \in Nat
      /\ chunks[o].size \in Nat \ {0} /\ chunks[c].size \in Nat \ {0} /\ o < c /\ c < hi
      /\ hi \in D \cup {endOfChunks}
      /\ \A x \in D : x \in Nat /\ (o < x => c <= x) /\ (c < x => hi <= x)
  <2>1. /\ D \subseteq Nat /\ o \in Nat /\ chunks[o].size \in Nat /\ chunks[o].size # 0 /\ o < c
    BY <1>1, <1>2, PlaceIs
  <2>2. /\ c \in Nat /\ hi \in Nat /\ chunks[c].size \in Nat /\ chunks[c].size # 0 /\ c < hi
        /\ hi \in D \cup {endOfChunks}
    BY <1>1, <1>2, PlaceIs
  <2>3. \A x \in D : (o < x => c <= x) /\ (c < x => hi <= x)
    BY <1>1, <1>2, Neighbours
  <2>. QED
    BY <2>1, <2>2, <2>3
<1>4. /\ chunks[o] \in Header /\ chunks[c] \in Header
      /\ \A x \in D : /\ chunks[x] \in Header /\ chunks[x].size >= HSIZE
                       /\ (chunks[x].notOurs => chunks[x].used)
  BY <1>1 DEF Base, HeadersOK
<1> DEFINE s == chunks[o].size + chunks[c].size
<1>5. /\ chunks' = [x \in D \ {c} |-> IF x = o THEN [chunks[o] EXCEPT !.size = s] ELSE chunks[x]]
      /\ call' = [call EXCEPT !.chunk = o, !.other = NoChunk]
  BY DEF WalkMerge
<1>6. s \in Nat /\ o + s = hi /\ s >= HSIZE
  BY <1>1, <1>3, <1>4, Scales
<1> HIDE DEF s
<1>7. /\ DOMAIN chunks' = D \ {c} /\ chunks'[o].size = s /\ chunks'[o] \in Header
      /\ chunks'[o].used = chunks[o].used /\ chunks'[o].notOurs = chunks[o].notOurs
      /\ \A x \in D \ {c, o} : chunks'[x] = chunks[x]
  <2>1. /\ DOMAIN chunks' = D \ {c} /\ chunks'[o] = [chunks[o] EXCEPT !.size = s]
        /\ \A x \in D \ {c, o} : chunks'[x] = chunks[x]
    BY <1>1, <1>3, <1>5
  <2>. QED
    BY <1>4, <1>6, <2>1 DEF Header
<1>8. /\ call' \in CallType /\ call'.pc = "walk" /\ call'.size = call.size /\ call'.chunk = o
      /\ call'.other = NoChunk
  BY <1>1, <1>3, <1>5 DEF CallType
<1> HIDE DEF c, o, D, hi
<1>9. ListEnd' = endOfChunks /\ UNCHANGED <<endOfChunks, totalMemAllocated, mapped, stacks, held, move, cpu>>
  BY <1>8 DEF ListEnd, WalkMerge, memVars
<1>10. Tiles(chunks', endOfChunks)
  <2>1. \A x : x \in DOMAIN chunks' <=> (x \in D /\ ~(o < x /\ x < hi)) \/ (x = hi /\ hi < hi)
    <3>1. \A x \in D : o < x /\ x < hi <=> x = c
      BY <1>1, <1>3
    <3>2. ~(hi < hi)
      BY <1>3
    <3>. QED
      BY <1>7, <3>1, <3>2
  <2>2. \A x \in D : x < o \/ hi <= x => chunks'[x].size = chunks[x].size
    BY <1>1, <1>3, <1>7
  <2>3. o < hi /\ hi <= hi /\ chunks'[o].size = hi - o /\ ~(hi < hi)
    BY <1>1, <1>3, <1>6, <1>7
  <2>. QED
    BY <1>1, <1>2, <1>3, <2>1, <2>2, <2>3, Replace, SMTT(30) DEF D
<1>11. HeadersOK'
  BY <1>1, <1>3, <1>4, <1>6, <1>7 DEF HeadersOK
<1>12. CallOK'
  BY <1>1, <1>3, <1>7, <1>8 DEF CallOK, Base, Whole
<1>13. HeldOK'
  BY <1>1, <1>7, <1>9, SameHeld DEF Base, Whole, D
<1>14. PagesOK'
  BY <1>1, <1>4, <1>7, <1>9, SamePages DEF Base, Whole, D
<1>. QED
  BY <1>8, <1>9, <1>10, <1>11, <1>12, <1>13, <1>14 DEF Base, Whole, EndOK, MapOK

\* On to the next chunk, or to the end of the list; f says whether the chunk that is
\* left behind is free.
LEMMA AdvanceIs ==
    ASSUME Base, Whole, Walking, NEW f \in BOOLEAN
    PROVE  LET a == Advance(f)
           IN  /\ a \in CallType /\ a.size = call.size /\ a.other = call.chunk
               /\ \/ a.pc = "walk" /\ a.chunk \in DOMAIN chunks
                  \/ a.pc = "grow" /\ a.chunk = endOfChunks
               /\ a.chunk = call.chunk + chunks[call.chunk].size
               /\ a.pc = "grow" =>
                     /\ a.oldEnd = endOfChunks /\ a.totalAlloced = 0
                     /\ ~f => a.needToAlloc # 0
<1> DEFINE c == call.chunk
           next == c + chunks[c].size
           want == HSIZE + call.size
           need == want - IF f THEN Min({want, chunks[c].size}) ELSE 0
           a == Advance(f)
<1>1. /\ call \in CallType /\ call.pc = "walk" /\ c \in DOMAIN chunks
      /\ HSIZE \in Nat \ {0} /\ PAGESIZE \in Nat /\ endOfChunks \in Nat
  BY EndIs DEF Walking, Base, Whole, CallOK
<1>2. Tiles(chunks, endOfChunks)
  BY <1>1 DEF Whole, ListEnd
<1>3. /\ c \in Nat /\ chunks[c].size \in Nat /\ next \in Nat /\ next \in DOMAIN chunks \cup {endOfChunks}
      /\ next <= endOfChunks
  BY <1>1, <1>2, PlaceIs
<1>4. want \in Nat /\ want # 0
  BY <1>1 DEF CallType
<1>5. need \in Nat /\ (~f => need # 0)
  <2>1. Min({want, chunks[c].size}) = IF want <= chunks[c].size THEN want ELSE chunks[c].size
    BY <1>3, <1>4, TwoSizes
  <2> DEFINE m == Min({want, chunks[c].size})
  <2>2. m \in Nat /\ m <= want
    BY <1>3, <1>4, <2>1
  <2> HIDE DEF m, want
  <2>. QED
    BY <1>1, <1>4, <2>2 DEF m
<1>6. a = IF next > endOfChunks
          THEN [call EXCEPT !.pc = "past", !.chunk = next, !.other = c]
          ELSE IF next # endOfChunks
          THEN [call EXCEPT !.chunk = next, !.other = c]
          ELSE [call EXCEPT !.pc = "grow", !.chunk = next, !.other = c,
                            !.oldEnd = endOfChunks, !.totalAlloced = 0, !.needToAlloc = need]
  BY DEF Advance
<1> HIDE DEF a, need, next, want, c
<1>7. ~(next > endOfChunks)
  BY <1>1, <1>3
<1>8. CASE next # endOfChunks
  <2>1. a = [call EXCEPT !.chunk = next, !.other = c]
    BY <1>6, <1>7, <1>8
  <2>2. a \in CallType /\ a.pc = "walk" /\ a.size = call.size /\ a.other = c /\ a.chunk = next
    BY <1>1, <1>3, <2>1 DEF CallType
  <2>. QED
    BY <1>3, <1>8, <2>2 DEF a, c, next
<1>9. CASE next = endOfChunks
  <2>1. a = [call EXCEPT !.pc = "grow", !.chunk = next, !.other = c,
                         !.oldEnd = endOfChunks, !.totalAlloced = 0, !.needToAlloc = need]
    BY <1>6, <1>7, <1>9
  <2>2. /\ a \in CallType /\ a.pc = "grow" /\ a.size = call.size /\ a.other = c /\ a.chunk = next
        /\ a.oldEnd = endOfChunks /\ a.totalAlloced = 0 /\ a.needToAlloc = need
    BY <1>1, <1>3, <1>5, <2>1 DEF CallType
  <2>. QED
    BY <1>3, <1>5, <1>9, <2>2 DEF a, c, next
<1>. QED
  BY <1>8, <1>9

\* The same for the call that malloc goes on with, when the chunks have kept their
\* places.
LEMMA AdvancedOK ==
    ASSUME Base, Whole, Walking, NEW f \in BOOLEAN, NEW u \in Nat,
           call' = [Advance(f) EXCEPT !.nextUnmapped = u] \/ call' = Advance(f),
           endOfChunks' = endOfChunks, DOMAIN chunks' = DOMAIN chunks,
           \A x \in DOMAIN chunks : chunks'[x].size = chunks[x].size,
           f <=> ~chunks'[call.chunk].used
    PROVE  call' \in CallType /\ CallOK' /\ Tiles(chunks, ListEnd)'
<1> DEFINE a == Advance(f)
           c == call.chunk
<1>1. /\ a \in CallType /\ a.size = call.size /\ a.other = c
      /\ \/ a.pc = "walk" /\ a.chunk \in DOMAIN chunks
         \/ a.pc = "grow" /\ a.chunk = endOfChunks
      /\ a.chunk = c + chunks[c].size
      /\ a.pc = "grow" =>
            /\ a.oldEnd = endOfChunks /\ a.totalAlloced = 0
            /\ ~f => a.needToAlloc # 0
  BY AdvanceIs
<1> HIDE DEF a
<1>2. /\ call' \in CallType /\ call'.pc = a.pc /\ call'.size = a.size /\ call'.other = a.other
      /\ call'.chunk = a.chunk /\ call'.oldEnd = a.oldEnd /\ call'.totalAlloced = a.totalAlloced
      /\ call'.needToAlloc = a.needToAlloc
  <2>1. CASE call' = a
    BY <1>1, <2>1
  <2>2. CASE call' = [a EXCEPT !.nextUnmapped = u]
    BY <1>1, <2>2 DEF CallType
  <2>. QED
    BY <2>1, <2>2 DEF a
<1>3. /\ call \in CallType /\ call.pc = "walk" /\ c \in DOMAIN chunks
      /\ endOfChunks \in Nat
  BY DEF Walking, Base, Whole, CallOK, EndOK
<1>4. Tiles(chunks, endOfChunks)
  BY <1>3 DEF Base, Whole, ListEnd
<1>5. ListEnd' = endOfChunks
  BY <1>1, <1>2 DEF ListEnd
<1>6. Tiles(chunks', endOfChunks)
  BY <1>4, SameTiles
<1>7. c # NoChunk
  BY <1>3, <1>4, PlaceIs DEF NoChunk
<1>8. CallOK'
  <2>1. a.pc = "grow" => a.needToAlloc \in Nat /\ a.totalAlloced \in Nat
    BY <1>1 DEF CallType
  <2>2. CASE a.pc = "walk"
    BY <1>1, <1>2, <1>3, <2>2 DEF CallOK
  <2>3. CASE a.pc = "grow"
    <3>1. call'.other \in DOMAIN chunks' /\ call'.other + chunks'[call'.other].size = ListEnd'
      BY <1>1, <1>2, <1>3, <1>5, <2>3
    <3>2. chunks'[call'.other].used =>
             /\ call'.oldEnd + call'.totalAlloced = endOfChunks'
             /\ call'.needToAlloc = 0 => call'.totalAlloced # 0
             /\ call'.totalAlloced # 0 => call'.totalAlloced >= HSIZE
      BY <1>1, <1>2, <1>3, <2>1, <2>3
    <3>. QED
      BY <1>1, <1>2, <1>3, <2>3, <3>1, <3>2 DEF CallOK
  <2>. QED
    BY <1>1, <2>2, <2>3
<1>. QED
  BY <1>1, <1>2, <1>5, <1>6, <1>8

LEMMA WalkNextOK == ASSUME Base, Whole, WalkNext PROVE Base' /\ Whole'
<1> DEFINE f == ~chunks[call.chunk].used
<1>1. /\ Walking /\ call' = Advance(f)
      /\ UNCHANGED <<chunks, endOfChunks, totalMemAllocated, mapped, stacks, held, move, cpu>>
  BY DEF WalkNext, memVars
<1>2. f \in BOOLEAN
  OBVIOUS
<1>3. call' \in CallType /\ CallOK' /\ Tiles(chunks, ListEnd)'
  <2>1. 0 \in Nat /\ (f <=> ~chunks'[call.chunk].used)
    BY <1>1
  <2> HIDE DEF f
  <2>. QED
    BY <1>1, <1>2, <2>1, AdvancedOK
<1>4. HeldOK' /\ PagesOK' /\ MapOK' /\ EndOK' /\ HeadersOK'
  BY <1>1, SameHeld, SamePages DEF Base, Whole, MapOK, EndOK, HeadersOK
<1>. QED
  BY <1>1, <1>3, <1>4 DEF Base, Whole

\* A page that its owner has unmapped becomes malloc's, and its chunk with it.
LEMMA WalkReclaimOK == ASSUME Base, Whole, WalkReclaim PROVE Base' /\ Whole'
<1> DEFINE p == call.nextUnmapped
           got == CanMap(p)
           c == call.chunk
           u == getUnmappedVAddr(mapped')
           D == DOMAIN chunks
<1>1. /\ Walking /\ chunks[c].notOurs /\ c + HSIZE = p * PAGESIZE
      /\ chunks[c].size = PAGESIZE + HSIZE
      /\ mapped' = IF got THEN mapped \cup {p} ELSE mapped
      /\ chunks' = IF got THEN [chunks EXCEPT ![c] = Chunk(chunks[c].size)] ELSE chunks
      /\ call' = [Advance(got) EXCEPT !.nextUnmapped = u]
      /\ UNCHANGED <<endOfChunks, totalMemAllocated, stacks, held, move, cpu>>
  BY DEF WalkReclaim, Reclaimable
<1>2. /\ call \in CallType /\ call.pc = "walk" /\ c \in D /\ p \in Nat /\ got \in BOOLEAN
      /\ HSIZE \in Nat \ {0} /\ PAGESIZE \in Nat /\ PAGESIZE > 2 * HSIZE /\ endOfChunks \in Nat
  BY <1>1, EndIs DEF Walking, Base, Whole, CallOK, CallType, CanMap
<1>3. Tiles(chunks, endOfChunks)
  BY <1>2 DEF Base, Whole, ListEnd
<1>4. /\ D \subseteq Nat /\ c \in Nat /\ c + chunks[c].size <= endOfChunks
      /\ \A x \in D : x \in Nat /\ chunks[x].size \in Nat
  BY <1>2, <1>3, PlaceIs
<1>5. MapOK'
  BY <1>1, <1>2, MapsOne DEF Base, Whole, MapOK
<1>6. u \in Nat
  BY <1>5, UnmappedIs DEF MapOK
<1>7. /\ \A x \in D : /\ chunks[x] \in Header /\ chunks[x].size >= HSIZE
                       /\ (chunks[x].notOurs => chunks[x].used)
      /\ chunks[c] \in Header /\ chunks[c].used
  BY <1>1, <1>2 DEF Base, Whole, HeadersOK
<1>8. /\ DOMAIN chunks' = D /\ \A x \in D : x # c => chunks'[x] = chunks[x]
      /\ chunks'[c] \in Header /\ chunks'[c].size = chunks[c].size
      /\ (got <=> ~chunks'[c].used) /\ (got <=> ~chunks'[c].notOurs)
  <2>1. CASE got
    <3>1. DOMAIN chunks' = D /\ (\A x \in D : x # c => chunks'[x] = chunks[x])
          /\ chunks'[c] = Chunk(chunks[c].size)
      BY <1>1, <1>2, <2>1
    <3>2. chunks[c].size \in Nat
      BY <1>2, <1>4
    <3>. QED
      BY <2>1, <3>1, <3>2 DEF Chunk, Header
  <2>2. CASE ~got
    BY <1>1, <1>7, <2>2
  <2>. QED
    BY <2>1, <2>2
<1>9. call' \in CallType /\ CallOK' /\ Tiles(chunks, ListEnd)'
  <2>1. \A x \in DOMAIN chunks : chunks'[x].size = chunks[x].size
    BY <1>8
  <2> HIDE DEF got, u
  <2>. QED
    BY <1>1, <1>2, <1>6, <1>8, <2>1, AdvancedOK
<1>10. HeadersOK'
  BY <1>2, <1>4, <1>7, <1>8 DEF HeadersOK
<1>11. HeldOK'
  BY <1>1, <1>7, <1>8, SameHeld DEF Base, Whole
<1>12. PagesOK'
  <2>1. CASE ~got
    <3>1. chunks' = chunks /\ mapped' = mapped
      BY <1>1, <2>1
    <3>. QED
      BY <1>1, <3>1, SamePages DEF Base, Whole
  <2>2. CASE got
    <3>1. p \notin mapped /\ mapped' = mapped \cup {p} /\ stacks \subseteq mapped /\ stacks' = stacks
      BY <1>1, <2>2 DEF CanMap, Base, Whole, MapOK
    <3>2. \A x \in Nat : PageOf(x) = p <=> c + HSIZE <= x /\ x < c + chunks[c].size
      <4> SUFFICES ASSUME NEW x \in Nat
                   PROVE  PageOf(x) = p <=> c + HSIZE <= x /\ x < c + chunks[c].size
        OBVIOUS
      <4> DEFINE m == p * PAGESIZE
      <4>1. PageOf(x) = p <=> m <= x /\ x < m + PAGESIZE
        BY <1>2, PageIs
      <4>2. m = c + HSIZE
        BY <1>1, <1>2
      <4> HIDE DEF m
      <4>. QED
        BY <1>1, <1>2, <1>4, <4>1, <4>2
    <3>3. \A w \in D : w # c => \A x \in Nat :
             ~(w + HSIZE <= x /\ x < w + chunks[w].size /\ c + HSIZE <= x /\ x < c + chunks[c].size)
      <4> SUFFICES ASSUME NEW w \in D, w # c, NEW x \in Nat, w + HSIZE <= x,
                          x < w + chunks[w].size, c + HSIZE <= x, x < c + chunks[c].size
                   PROVE  FALSE
        OBVIOUS
      <4>1. w \in Nat /\ c \in Nat /\ chunks[w].size \in Nat /\ chunks[c].size \in Nat
        BY <1>2, <1>4
      <4>2. (w < c => w + chunks[w].size <= c) /\ (c < w => c + chunks[c].size <= w)
        BY <1>2, <1>3, Neighbours
      <4>. QED
        BY <1>2, <4>1, <4>2
    <3>4. \A x \in Nat : Mine(x)' <=> Mine(x) \/ PageOf(x) = p
      <4> SUFFICES ASSUME NEW x \in Nat
                   PROVE  Mine(x)' <=> Mine(x) \/ PageOf(x) = p
        OBVIOUS
      <4>1. Mine(x)' <=> /\ x < endOfChunks + HSIZE
                         /\ \A w \in D : w # c /\ chunks[w].notOurs =>
                                ~(w + HSIZE <= x /\ x < w + chunks[w].size)
        BY <1>1, <1>8, <2>2 DEF Mine
      <4>2. Mine(x) <=> /\ x < endOfChunks + HSIZE
                        /\ \A w \in D : w # c /\ chunks[w].notOurs =>
                               ~(w + HSIZE <= x /\ x < w + chunks[w].size)
                        /\ ~(c + HSIZE <= x /\ x < c + chunks[c].size)
        BY <1>1, <1>2 DEF Mine
      <4>3. PageOf(x) = p => x < endOfChunks + HSIZE
        BY <1>2, <1>4, <3>2
      <4>4. PageOf(x) = p => \A w \in D : w # c => ~(w + HSIZE <= x /\ x < w + chunks[w].size)
        BY <3>2, <3>3
      <4>. QED
        BY <3>2, <4>1, <4>2, <4>3, <4>4
    <3>. QED
      BY <1>2, <3>1, <3>4, OnePageMore DEF Base, Whole
  <2>. QED
    BY <2>1, <2>2
<1>. QED
  BY <1>1, <1>5, <1>9, <1>10, <1>11, <1>12 DEF Base, Whole, EndOK

\* The page behind the heap is mapped.
LEMMA GrowPageOK == ASSUME Base, Whole, GrowPage PROVE Base' /\ Whole'
<1> DEFINE o == call.other
           k == PageOf(endOfChunks + HSIZE)
           D == DOMAIN chunks
           E == endOfChunks
           F == E + PAGESIZE
           need == call.needToAlloc - Min({call.needToAlloc, PAGESIZE})
           total == call.totalAlloced + PAGESIZE
           s == chunks[o].size + PAGESIZE
<1>1. /\ call.pc = "grow" /\ CanMap(k)
      /\ mapped' = mapped \cup {k}
      /\ chunks' = IF chunks[o].used THEN chunks
                   ELSE [chunks EXCEPT ![o] = [chunks[o] EXCEPT !.size = s]]
      /\ endOfChunks' = F
      /\ call' = [call EXCEPT !.totalAlloced = total, !.needToAlloc = need]
      /\ UNCHANGED <<totalMemAllocated, stacks, held, move, cpu>>
  BY DEF GrowPage, Growing
<1>2. /\ HSIZE \in Nat \ {0} /\ PAGESIZE \in Nat /\ PAGESIZE > 2 * HSIZE /\ E \in Nat /\ k \in Nat
      /\ E + HSIZE = k * PAGESIZE
  BY EndIs DEF Base
<1>3. /\ call \in CallType /\ o \in D /\ o + chunks[o].size = ListEnd
      /\ call.needToAlloc \in Nat /\ call.totalAlloced \in Nat /\ call.oldEnd \in Nat
      /\ chunks[o].used => call.oldEnd + call.totalAlloced = E
  BY <1>1 DEF Base, Whole, CallOK, CallType
<1>4. need \in Nat /\ total \in Nat /\ total >= HSIZE
  <2>1. Min({call.needToAlloc, PAGESIZE}) \in Nat
        /\ Min({call.needToAlloc, PAGESIZE}) <= call.needToAlloc
    BY <1>2, <1>3, TwoSizes
  <2>. QED
    BY <1>2, <1>3, <2>1
<1>5. ListEnd \in Nat /\ ListEnd <= E /\ Tiles(chunks, ListEnd)
      /\ (~chunks[o].used => ListEnd = E) /\ (chunks[o].used => ListEnd = call.oldEnd)
  <2>1. CASE chunks[o].used
    BY <1>1, <1>2, <1>3, <2>1 DEF ListEnd, Whole
  <2>2. CASE ~chunks[o].used
    BY <1>1, <1>2, <2>2 DEF ListEnd, Whole
  <2>. QED
    BY <2>1, <2>2
<1>6. /\ D \subseteq Nat /\ o \in Nat /\ chunks[o].size \in Nat /\ chunks[o].size # 0
      /\ \A x \in D : x \in Nat /\ chunks[x].size \in Nat /\ x + chunks[x].size <= E
  <2>1. \A x \in D : x \in Nat /\ chunks[x].size \in Nat /\ chunks[x].size # 0
                     /\ x + chunks[x].size <= ListEnd
    BY <1>5, PlaceIs
  <2>. QED
    BY <1>2, <1>3, <1>5, <2>1
<1>7. /\ \A x \in D : /\ chunks[x] \in Header /\ chunks[x].size >= HSIZE
                      /\ (chunks[x].notOurs => chunks[x].used)
      /\ chunks[o] \in Header
  BY <1>3 DEF Base, HeadersOK
<1>8. s \in Nat /\ s >= HSIZE /\ F \in Nat /\ o < F /\ (~chunks[o].used => s = F - o)
  <2>1. ~chunks[o].used => o + chunks[o].size = E
    BY <1>3, <1>5
  <2>2. o + chunks[o].size <= E /\ o \in Nat /\ chunks[o].size \in Nat /\ chunks[o].size # 0
    BY <1>3, <1>6
  <2>. QED
    BY <1>2, <2>1, <2>2
<1> HIDE DEF need, total, s, F
<1>9. /\ call' \in CallType /\ call'.pc = "grow" /\ call'.size = call.size /\ call'.other = o
      /\ call'.oldEnd = call.oldEnd /\ call'.totalAlloced = total /\ call'.needToAlloc = need
  BY <1>1, <1>3, <1>4 DEF CallType
<1>10. /\ DOMAIN chunks' = D /\ \A x \in D : x # o => chunks'[x] = chunks[x]
       /\ chunks[o].used => chunks'[o] = chunks[o]
       /\ ~chunks[o].used => chunks'[o].size = s /\ chunks'[o] \in Header
       /\ chunks'[o].used = chunks[o].used /\ chunks'[o].notOurs = chunks[o].notOurs
  <2>1. CASE chunks[o].used
    BY <1>1, <2>1
  <2>2. CASE ~chunks[o].used
    <3>1. /\ DOMAIN chunks' = D /\ \A x \in D : x # o => chunks'[x] = chunks[x]
          /\ chunks'[o] = [chunks[o] EXCEPT !.size = s]
      BY <1>1, <1>3, <2>2
    <3>. QED
      BY <1>7, <1>8, <2>2, <3>1 DEF Header
  <2>. QED
    BY <2>1, <2>2
<1> HIDE DEF o, D
<1>11. Tiles(chunks, ListEnd)' /\ o + chunks'[o].size = ListEnd'
  <2>1. CASE chunks[o].used
    <3>1. ListEnd' = ListEnd /\ chunks' = chunks
      BY <1>1, <1>5, <1>9, <1>10, <2>1 DEF ListEnd
    <3>. QED
      BY <1>3, <1>5, <3>1 DEF o
  <2>2. CASE ~chunks[o].used
    <3>1. ListEnd' = F
      BY <1>1, <1>9, <1>10, <2>2 DEF ListEnd
    <3>2. /\ chunks'[o].size = F - o /\ DOMAIN chunks' = DOMAIN chunks
          /\ o \in DOMAIN chunks /\ \A x \in DOMAIN chunks : x # o => chunks'[x].size = chunks[x].size
      BY <1>3, <1>8, <1>10, <2>2 DEF D
    <3>3. Tiles(chunks, E) /\ o + chunks[o].size = E
      BY <1>3, <1>5, <2>2 DEF o
    <3>4. Tiles(chunks', F)
      BY <1>8, <3>2, <3>3, ResizeLast
    <3>5. o + chunks'[o].size = F
      BY ONLY <1>6, <1>8, <3>2
    <3>. QED
      BY <3>1, <3>4, <3>5
  <2>. QED
    BY <2>1, <2>2
<1>12. CallOK'
  <2>1. chunks[o].used => call'.oldEnd + call'.totalAlloced = endOfChunks'
    BY <1>1, <1>2, <1>3, <1>9 DEF total, F
  <2>2. call'.totalAlloced # 0 /\ call'.totalAlloced >= HSIZE
    BY <1>2, <1>4, <1>9
  <2>3. o \in DOMAIN chunks' /\ chunks'[o].used = chunks[o].used
    BY <1>3, <1>10
  <2>. QED
    BY <1>9, <1>11, <2>1, <2>2, <2>3 DEF CallOK
<1>13. HeadersOK'
  BY <1>3, <1>6, <1>7, <1>8, <1>10 DEF HeadersOK
<1>14. EndOK'
  <2>1. k + 1 \in Nat /\ (k + 1) * PAGESIZE = k * PAGESIZE + PAGESIZE
    BY <1>2
  <2>2. endOfChunks' + HSIZE = (k + 1) * PAGESIZE /\ endOfChunks' \in Nat
    BY <1>1, <1>2, <2>1 DEF F
  <2>. QED
    BY <2>1, <2>2 DEF EndOK
<1>15. MapOK'
  BY <1>1, <1>2, MapsOne DEF Base, MapOK
<1>16. HeldOK'
  BY <1>1, <1>10, SameHeld DEF Base, D
<1>17. PagesOK'
  <2>1. k \notin mapped /\ stacks \subseteq mapped
    BY <1>1 DEF CanMap, Base, MapOK
  <2>2. \A x \in Nat : Mine(x)' <=> Mine(x) \/ PageOf(x) = k
    <3> SUFFICES ASSUME NEW x \in Nat
                 PROVE  Mine(x)' <=> Mine(x) \/ PageOf(x) = k
      OBVIOUS
    <3> DEFINE Wrapped == \E w \in D : chunks[w].notOurs /\ w + HSIZE <= x /\ x < w + chunks[w].size
    <3>1. PageOf(x) = k <=> E + HSIZE <= x /\ x < E + HSIZE + PAGESIZE
      <4> DEFINE m == k * PAGESIZE
      <4>1. PageOf(x) = k <=> m <= x /\ x < m + PAGESIZE
        BY <1>2, PageIs
      <4>2. m = E + HSIZE
        BY <1>2
      <4> HIDE DEF m
      <4>. QED
        BY <1>2, <4>1, <4>2
    <3>2. Mine(x) <=> x < E + HSIZE /\ ~Wrapped
      BY DEF Mine, D
    <3>3. Mine(x)' <=> x < endOfChunks' + HSIZE /\ ~Wrapped
      <4>1. \A w \in D : chunks'[w].notOurs = chunks[w].notOurs
        BY <1>10
      <4>2. \A w \in D : chunks[w].notOurs => chunks'[w].size = chunks[w].size
        BY <1>7, <1>10
      <4>. QED
        BY <1>10, <4>1, <4>2 DEF Mine, D
    <3>4. Wrapped => x < E
      <4> SUFFICES ASSUME NEW w \in D, x < w + chunks[w].size
                   PROVE  x < E
        OBVIOUS
      <4>. QED
        BY <1>2, <1>6
    <3>5. endOfChunks' + HSIZE = E + HSIZE + PAGESIZE
      BY <1>1, <1>2 DEF F
    <3> HIDE DEF Wrapped
    <3>. QED
      BY <1>2, <3>1, <3>2, <3>3, <3>4, <3>5
  <2>. QED
    BY <1>1, <1>2, <2>1, <2>2, OnePageMore DEF Whole
<1>. QED
  BY <1>1, <1>9, <1>11, <1>12, <1>13, <1>14, <1>15, <1>16, <1>17 DEF Base, Whole

\* Somebody else's pages are wrapped, and the page behind them is mapped.
LEMMA GrowWrapOK ==
    ASSUME Base, Whole, GrowWrap, intact, intact'
    PROVE  Base' /\ (Whole' \/ Doomed')
<1> DEFINE k == PageOf(endOfChunks + HSIZE)
           u == getUnmappedVAddr(mapped)
           D == DOMAIN chunks
           E == endOfChunks
           up == PAGESIZE * Diff
           size == Unsigned(up + HSIZE)
           lost == IF chunks[call.other].used /\ call.totalAlloced > 0 THEN {call.oldEnd} ELSE {}
           want == HSIZE + call.size
           need == want - Min({want, PAGESIZE})
           end == E + size
           total == PAGESIZE - HSIZE
<1>1. /\ call.pc = "grow"
      /\ \E junk \in Junk :
            chunks' = [x \in D \cup {E} \cup lost |->
                         CASE x = E -> Wrapper(size) [] x \in lost -> junk [] OTHER -> chunks[x]]
      /\ mapped' = IF FreeFrame THEN mapped \cup {u} ELSE mapped
      /\ endOfChunks' = E + up + PAGESIZE
      /\ call' = [call EXCEPT !.other = E, !.oldEnd = end, !.totalAlloced = total,
                              !.needToAlloc = need]
      /\ Keeps(lost = {} /\ Diff >= 0)
      /\ UNCHANGED <<totalMemAllocated, stacks, held, move, cpu>>
  BY DEF GrowWrap, Growing
<1>2. lost = {} /\ Diff >= 0
  <2> HIDE DEF lost
  <2>. QED
    BY <1>1 DEF Keeps, intact
<1>3. /\ HSIZE \in Nat \ {0} /\ PAGESIZE \in Nat /\ PAGESIZE > 2 * HSIZE /\ E \in Nat /\ k \in Nat
      /\ E + HSIZE = k * PAGESIZE
  BY EndIs DEF Base
<1>4. u \in Nat /\ u \notin mapped
  BY UnmappedIs DEF Base, MapOK
<1> DEFINE top == u * PAGESIZE
<1>5. Diff = u - k /\ Diff \in Nat /\ up = top - k * PAGESIZE /\ top \in Nat /\ up \in Nat
  <2>1. Diff = u - k
    BY DEF Diff
  <2> HIDE DEF u, k
  <2>2. Diff \in Nat
    BY <1>2, <1>3, <1>4, <2>1
  <2>3. PAGESIZE * (u - k) = u * PAGESIZE - k * PAGESIZE
    BY <1>3, <1>4
  <2>4. PAGESIZE * Diff \in Nat
    BY <1>3, <2>2
  <2>5. u * PAGESIZE \in Nat
    BY <1>3, <1>4
  <2>. QED
    BY <2>1, <2>2, <2>3, <2>4, <2>5
<1>6. /\ size = up + HSIZE /\ size \in Nat /\ end = top /\ E + HSIZE <= top
      /\ endOfChunks' + HSIZE = top + PAGESIZE /\ endOfChunks' \in Nat
  <2> DEFINE m == k * PAGESIZE
  <2>1. m = E + HSIZE /\ up = top - m
    BY <1>3, <1>5
  <2>2. size = up + HSIZE
    <3> HIDE DEF up
    <3>1. ~(up + HSIZE < 0)
      BY <1>3, <1>5
    <3>. QED
      BY <3>1 DEF Unsigned
  <2>3. end = E + size /\ endOfChunks' = E + up + PAGESIZE
    BY <1>1
  <2> HIDE DEF m, top, size, end, up
  <2>. QED
    BY <1>3, <1>5, <2>1, <2>2, <2>3
<1>7. need \in Nat /\ total \in Nat /\ total # 0 /\ total >= HSIZE
  <2>1. want \in Nat
    BY <1>3 DEF Base, CallType
  <2>2. Min({want, PAGESIZE}) \in Nat /\ Min({want, PAGESIZE}) <= want
    BY <1>3, <2>1, TwoSizes
  <2> HIDE DEF want
  <2>. QED
    BY <1>3, <2>1, <2>2
<1>8. /\ call \in CallType /\ call.other \in D
      /\ call.totalAlloced \in Nat /\ call.oldEnd \in Nat
      /\ chunks[call.other].used => call.oldEnd + call.totalAlloced = E
  BY <1>1 DEF Base, Whole, CallOK, CallType
<1>9. ListEnd = E
  <2>1. chunks[call.other].used => call.totalAlloced = 0
    BY <1>2, <1>8
  <2>. QED
    BY <1>1, <1>3, <1>8, <2>1 DEF ListEnd
<1>10. Tiles(chunks, E)
  BY <1>9 DEF Whole
<1>11. /\ D \subseteq Nat /\ E \notin D
       /\ \A x \in D : x \in Nat /\ chunks[x].size \in Nat /\ x + chunks[x].size <= E
  BY <1>10, PlaceIs
<1>12. /\ DOMAIN chunks' = D \cup {E} /\ \A x \in D : chunks'[x] = chunks[x]
       /\ chunks'[E] = Wrapper(size)
  <2> HIDE DEF lost, size
  <2>1. PICK junk \in Junk :
            chunks' = [x \in D \cup {E} \cup lost |->
                         CASE x = E -> Wrapper(size) [] x \in lost -> junk [] OTHER -> chunks[x]]
    BY <1>1
  <2>2. chunks' = [x \in D \cup {E} |->
                     CASE x = E -> Wrapper(size) [] x \in {} -> junk [] OTHER -> chunks[x]]
    <3>1. D \cup {E} \cup lost = D \cup {E}
      BY <1>2
    <3>. QED
      BY <1>2, <2>1, <3>1, Zenon
  <2>3. \A x \in D : x # E /\ x \notin {}
    BY <1>11
  <2>. QED
    BY <2>2, <2>3, Zenon
<1> HIDE DEF k, u, up, size, want, need, end, total, top, lost
<1>13. /\ chunks'[E] \in Header /\ chunks'[E].size = size /\ chunks'[E].used /\ chunks'[E].notOurs
  BY <1>6, <1>12 DEF Wrapper, Header
<1>14. /\ call' \in CallType /\ call'.pc = "grow" /\ call'.other = E
       /\ call'.oldEnd = end /\ call'.totalAlloced = total /\ call'.needToAlloc = need
  BY <1>1, <1>3, <1>5, <1>6, <1>7, <1>8 DEF CallType
<1>15. ListEnd' = end
  BY <1>13, <1>14 DEF ListEnd
<1>16. E + size = end /\ size \in Nat \ {0} /\ size >= HSIZE
  <2>1. E + size = end
    BY DEF end
  <2>. QED
    BY <1>3, <1>5, <1>6, <2>1
<1>17. Tiles(chunks', end)
  <2>1. \A x \in D : chunks'[x].size = chunks[x].size
    BY <1>12
  <2>2. Tiles(chunks', E + size)
    BY <1>10, <1>12, <1>13, <1>16, <2>1, AppendChunk
  <2>. QED
    BY <1>16, <2>2
<1>18. CallOK'
  <2>1. E \in DOMAIN chunks' /\ E + chunks'[E].size = ListEnd'
    BY <1>12, <1>13, <1>15, <1>16
  <2>2. call'.oldEnd + call'.totalAlloced = endOfChunks'
    <3>1. total = PAGESIZE - HSIZE
      BY DEF total
    <3>2. end = top /\ top \in Nat /\ endOfChunks' + HSIZE = top + PAGESIZE /\ endOfChunks' \in Nat
      BY <1>5, <1>6
    <3>3. ASSUME NEW e \in Nat, e + HSIZE = top + PAGESIZE
          PROVE  top + total = e
      BY ONLY <1>3, <3>1, <3>2, <3>3
    <3>. QED
      BY <1>14, <3>2, <3>3
  <2>3. call'.totalAlloced # 0 /\ call'.totalAlloced >= HSIZE
    BY <1>7, <1>14
  <2>. QED
    BY <1>14, <2>1, <2>2, <2>3 DEF CallOK
<1>19. HeadersOK'
  BY <1>3, <1>11, <1>12, <1>13, <1>16 DEF HeadersOK, Base
<1>20. EndOK'
  <2>1. u + 1 \in Nat /\ (u + 1) * PAGESIZE = top + PAGESIZE
    BY <1>3, <1>4 DEF top
  <2>. QED
    BY <1>6, <2>1 DEF EndOK
<1>21. HeldOK'
  BY <1>1, <1>12, SameHeld DEF Base
<1>22. CASE FreeFrame
  <2>1. mapped' = mapped \cup {u} /\ CanMap(u)
    BY <1>1, <1>4, <1>22 DEF CanMap
  <2>2. MapOK'
    BY <1>1, <1>4, <2>1, MapsOne DEF Base, MapOK
  <2>3. stacks \subseteq mapped
    BY DEF Base, MapOK
  <2>4. \A x \in Nat : Mine(x)' <=> Mine(x) \/ PageOf(x) = u
    <3> SUFFICES ASSUME NEW x \in Nat
                 PROVE  Mine(x)' <=> Mine(x) \/ PageOf(x) = u
      OBVIOUS
    <3> DEFINE Wrapped == \E w \in D : chunks[w].notOurs /\ w + HSIZE <= x /\ x < w + chunks[w].size
    <3>1. PageOf(x) = u <=> top <= x /\ x < top + PAGESIZE
      BY <1>4, PageIs DEF top
    <3>2. Mine(x) <=> x < E + HSIZE /\ ~Wrapped
      BY DEF Mine
    <3>3. Mine(x)' <=> x < endOfChunks' + HSIZE /\ ~Wrapped /\ ~(E + HSIZE <= x /\ x < E + size)
      BY <1>12, <1>13 DEF Mine
    <3>4. Wrapped => x < E
      <4> SUFFICES ASSUME NEW w \in D, x < w + chunks[w].size
                   PROVE  x < E
        OBVIOUS
      <4>. QED
        BY <1>3, <1>11
    <3>5. Mine(x)' <=> x < top + PAGESIZE /\ ~Wrapped /\ ~(E + HSIZE <= x /\ x < top)
      BY <1>6, <1>16, <3>3
    <3> HIDE DEF Wrapped
    <3>. QED
      BY ONLY x \in Nat, <1>3, <1>5, <1>6, <3>1, <3>2, <3>4, <3>5
  <2>5. PagesOK'
    BY <1>1, <1>4, <2>1, <2>3, <2>4, OnePageMore DEF Whole
  <2>. QED
    BY <1>1, <1>14, <1>15, <1>17, <1>18, <1>19, <1>20, <1>21, <2>2, <2>5 DEF Base, Whole
<1>23. CASE ~FreeFrame
  <2>1. mapped' = mapped
    BY <1>1, <1>23
  <2>2. MapOK'
    BY <1>1, <2>1 DEF Base, MapOK
  <2>3. Doomed'
    <3>1. end = u * PAGESIZE /\ u * PAGESIZE + PAGESIZE <= endOfChunks' + HSIZE
      BY <1>3, <1>5, <1>6 DEF top
    <3>2. E \in DOMAIN chunks' /\ u \in Nat \ mapped'
      BY <1>4, <1>12, <2>1
    <3>. QED
      BY <1>7, <1>13, <1>14, <3>1, <3>2 DEF Doomed
  <2>. QED
    BY <1>1, <1>14, <1>19, <1>20, <1>21, <2>2, <2>3 DEF Base
<1>. QED
  BY <1>22, <1>23

\* The last chunk has grown enough.
LEMMA GrowTakesOtherOK == ASSUME Base, Whole, GrowTakesOther PROVE Base' /\ Whole'
<1> DEFINE o == call.other
<1>1. /\ call.pc = "grow" /\ ~chunks[o].used /\ call' = [call EXCEPT !.pc = "take", !.chunk = o]
      /\ UNCHANGED <<chunks, endOfChunks, totalMemAllocated, mapped, stacks, held, move, cpu>>
  BY DEF GrowTakesOther, Grown, memVars
<1>2. call \in CallType /\ o \in DOMAIN chunks
  BY <1>1 DEF Base, Whole, CallOK
<1>3. ListEnd = endOfChunks
  BY <1>1 DEF ListEnd
<1>4. Tiles(chunks, endOfChunks) /\ o \in Nat
  BY <1>2, <1>3, PlaceIs DEF Base, Whole
<1> HIDE DEF o
<1>5. call' \in CallType /\ call'.pc = "take" /\ call'.size = call.size /\ call'.chunk = o
  BY <1>1, <1>2, <1>4 DEF CallType
<1>6. CallOK'
  BY <1>1, <1>2, <1>5 DEF CallOK
<1>7. Tiles(chunks, ListEnd)'
  BY <1>1, <1>4, <1>5 DEF ListEnd
<1>8. HeldOK' /\ PagesOK' /\ MapOK' /\ EndOK' /\ HeadersOK'
  BY <1>1, SameHeld, SamePages DEF Base, Whole, MapOK, EndOK, HeadersOK
<1>. QED
  BY <1>1, <1>5, <1>6, <1>7, <1>8 DEF Base, Whole

\* The pages behind the last chunk become one.
LEMMA GrowTakesNewOK == ASSUME Base, Whole, GrowTakesNew PROVE Base' /\ Whole'
<1> DEFINE o == call.other
           e == call.oldEnd
           s == call.totalAlloced
           D == DOMAIN chunks
<1>1. /\ call.pc = "grow" /\ call.needToAlloc = 0 /\ chunks[o].used
      /\ chunks' = [x \in D \cup {e} |-> IF x = e THEN Chunk(s) ELSE chunks[x]]
      /\ call' = [call EXCEPT !.pc = "take", !.chunk = e]
      /\ UNCHANGED <<endOfChunks, totalMemAllocated, mapped, stacks, held, move, cpu>>
  BY DEF GrowTakesNew, Grown, memVars
<1>2. /\ call \in CallType /\ o \in D
      /\ e \in Nat /\ s \in Nat /\ s # 0 /\ s >= HSIZE /\ e + s = endOfChunks
  <2>1. call \in CallType /\ o \in D
        /\ e + s = endOfChunks /\ s # 0 /\ s >= HSIZE
    BY <1>1 DEF Base, Whole, CallOK
  <2>2. e \in Nat /\ s \in Nat
    BY <2>1 DEF CallType
  <2>. QED
    BY <1>1, <2>1, <2>2
<1>3. Tiles(chunks, e)
  BY <1>1 DEF ListEnd, Base, Whole
<1> HIDE DEF o, e, s
<1>4. DOMAIN chunks' = D \cup {e} /\ e \notin D /\ chunks'[e] = Chunk(s)
      /\ \A x \in D : chunks'[x] = chunks[x]
  <2>1. e \notin D
    BY <1>3, PlaceIs
  <2>. QED
    BY <1>1, <2>1
<1>5. chunks'[e] \in Header /\ chunks'[e].size = s /\ ~chunks'[e].used /\ ~chunks'[e].notOurs
  BY <1>2, <1>4 DEF Chunk, Header
<1>6. Tiles(chunks', endOfChunks)
  <2>1. s \in Nat \ {0} /\ \A x \in D : chunks'[x].size = chunks[x].size
    BY <1>2, <1>4
  <2>2. Tiles(chunks', e + s)
    BY <1>3, <1>4, <1>5, <2>1, AppendChunk
  <2>. QED
    BY <1>2, <2>2
<1>7. call' \in CallType /\ call'.pc = "take" /\ call'.size = call.size /\ call'.chunk = e
  BY <1>1, <1>2 DEF CallType
<1>8. CallOK'
  BY <1>2, <1>4, <1>5, <1>7 DEF CallOK
<1>9. Tiles(chunks, ListEnd)'
  BY <1>1, <1>6, <1>7 DEF ListEnd
<1>10. HeldOK'
  BY <1>1, <1>4, SameHeld DEF Base, Whole
<1>11. PagesOK'
  BY <1>1, <1>4, <1>5, SamePages DEF Base, Whole
<1>12. MapOK' /\ EndOK' /\ HeadersOK'
  BY <1>1, <1>2, <1>4, <1>5 DEF Base, Whole, MapOK, EndOK, HeadersOK
<1>. QED
  BY <1>1, <1>7, <1>8, <1>9, <1>10, <1>11, <1>12 DEF Base, Whole

-----------------------------------------------------------------------------
(***************************************************************************)
(* A chunk that is given to a caller: malloc, and the ways of realloc that *)
(* find room.                                                              *)
(***************************************************************************)

\* The chunks from lo to hi, which no caller but the one at a holds, become one of
\* n that is in use and ends at mid, and a free one behind it unless mid is hi.
LEMMA Reshaped ==
    ASSUME Base, Whole, call.pc # "grow",
           NEW lo \in DOMAIN chunks, NEW hi \in DOMAIN chunks \cup {endOfChunks}, NEW mid \in Nat,
           lo < mid, mid <= hi,
           \A x \in DOMAIN chunks : lo <= x /\ x < hi => ~chunks[x].notOurs,
           \A x : x \in DOMAIN chunks' <=>
                    (x \in DOMAIN chunks /\ ~(lo < x /\ x < hi)) \/ (x = mid /\ mid < hi),
           chunks'[lo] \in Header, chunks'[lo].size = mid - lo,
           chunks'[lo].used, ~chunks'[lo].notOurs,
           mid < hi => chunks'[mid] = Chunk(hi - mid) /\ hi - mid >= HSIZE,
           \A x \in DOMAIN chunks : x < lo \/ hi <= x => chunks'[x] = chunks[x],
           NEW a, NEW n \in Nat, HSIZE + n <= mid - lo,
           \A x \in DOMAIN held \ {a} : x - HSIZE < lo \/ hi <= x - HSIZE,
           held' = [x \in (DOMAIN held \ {a}) \cup {lo + HSIZE} |->
                      IF x = lo + HSIZE THEN n ELSE held[x]],
           UNCHANGED <<endOfChunks, mapped, stacks>>
    PROVE  /\ HeadersOK' /\ Tiles(chunks', endOfChunks) /\ EndOK' /\ MapOK' /\ PagesOK'
           /\ DOMAIN held' = (DOMAIN held \ {a}) \cup {lo + HSIZE}
           /\ DOMAIN held' \subseteq Nat /\ Holds'
<1> DEFINE D == DOMAIN chunks
<1>1. Tiles(chunks, endOfChunks)
  BY DEF Whole, ListEnd
<1>2. /\ D \subseteq Nat /\ lo \in Nat /\ hi \in Nat /\ endOfChunks \in Nat
      /\ \A x \in D : x \in Nat
  <2>1. D \subseteq Nat /\ endOfChunks \in Nat
    BY ONLY <1>1 DEF Tiles
  <2>. QED
    BY ONLY <2>1, lo \in D, hi \in D \cup {endOfChunks}
<1>3. HSIZE \in Nat \ {0}
  BY Scales
<1>4. mid < hi => /\ chunks'[mid] \in Header /\ chunks'[mid].size = hi - mid
                  /\ ~chunks'[mid].used /\ ~chunks'[mid].notOurs
  <2> SUFFICES ASSUME mid < hi
               PROVE  /\ chunks'[mid] \in Header /\ chunks'[mid].size = hi - mid
                      /\ ~chunks'[mid].used /\ ~chunks'[mid].notOurs
    OBVIOUS
  <2> DEFINE r == hi - mid
  <2>1. r \in Nat /\ chunks'[mid] = Chunk(r)
    BY <1>2
  <2> HIDE DEF r
  <2>2. chunks'[mid] \in Header /\ chunks'[mid].size = r
        /\ ~chunks'[mid].used /\ ~chunks'[mid].notOurs
    BY <2>1 DEF Chunk, Header
  <2>. QED
    BY <2>2 DEF r
<1>5. \A x \in D : x < lo \/ hi <= x => chunks'[x].size = chunks[x].size
  BY Zenon
<1>6. Tiles(chunks', endOfChunks)
  <2>1. /\ \A x : x \in DOMAIN chunks' <=>
                    (x \in DOMAIN chunks /\ ~(lo < x /\ x < hi)) \/ (x = mid /\ mid < hi)
        /\ chunks'[lo].size = mid - lo /\ (mid < hi => chunks'[mid].size = hi - mid)
    BY <1>4
  <2>. QED
    BY ONLY <1>1, <1>5, <2>1, lo \in DOMAIN chunks, hi \in DOMAIN chunks \cup {endOfChunks},
            mid \in Nat, lo < mid, mid <= hi, Replace
<1>7. ASSUME NEW x \in DOMAIN chunks'
      PROVE  \/ x = lo
             \/ x = mid /\ mid < hi
             \/ x \in D /\ (x < lo \/ hi <= x) /\ chunks'[x] = chunks[x]
  BY <1>2, <1>7
<1>8. HeadersOK'
  <2>1. chunks'[lo].size >= HSIZE /\ mid \in Nat
    BY <1>2, <1>3
  <2>2. mid < hi => chunks'[mid].size >= HSIZE
    BY <1>4
  <2>3. \A x \in D : /\ chunks[x] \in Header /\ chunks[x].size >= HSIZE
                     /\ (chunks[x].notOurs => chunks[x].used)
    BY DEF HeadersOK, Base
  <2>4. DOMAIN chunks' \subseteq Nat
    BY <1>2, <1>7
  <2>5. ASSUME NEW x \in DOMAIN chunks'
        PROVE  /\ chunks'[x] \in Header /\ chunks'[x].size >= HSIZE
               /\ (chunks'[x].notOurs => chunks'[x].used)
    BY <1>4, <1>7, <2>1, <2>2, <2>3
  <2>. QED
    BY <2>4, <2>5 DEF HeadersOK
<1>9. EndOK' /\ MapOK'
  BY DEF EndOK, MapOK, Base, Whole
<1>10. PagesOK'
  <2>1. \A w \in DOMAIN chunks' : chunks'[w].notOurs =>
            w \in D /\ chunks[w].notOurs /\ chunks[w].size = chunks'[w].size
    BY <1>4, <1>7
  <2>2. \A w \in D : chunks[w].notOurs =>
            w \in DOMAIN chunks' /\ chunks'[w].notOurs /\ chunks'[w].size = chunks[w].size
    BY <1>2
  <2>. QED
    BY <2>1, <2>2, SamePages DEF Base, Whole
<1>11. /\ DOMAIN held' = (DOMAIN held \ {a}) \cup {lo + HSIZE}
       /\ held'[lo + HSIZE] = n /\ \A x \in DOMAIN held \ {a} : x # lo + HSIZE => held'[x] = held[x]
  OBVIOUS
<1>12. DOMAIN held' \subseteq Nat
  BY <1>2, <1>3, <1>11 DEF Base, Whole, HeldOK
<1>13. lo + HSIZE - HSIZE = lo
  BY <1>2, <1>3
<1>14. Holds'
  <2> SUFFICES ASSUME NEW x \in DOMAIN held'
               PROVE  /\ x - HSIZE \in DOMAIN chunks'
                      /\ chunks'[x - HSIZE].used /\ ~chunks'[x - HSIZE].notOurs
                      /\ chunks'[x - HSIZE].size >= HSIZE + held'[x]
    BY DEF Holds
  <2>1. CASE x = lo + HSIZE
    <3>1. lo \in DOMAIN chunks'
      BY <1>2
    <3>2. mid - lo >= HSIZE + n
      BY <1>2, <1>3
    <3>3. x - HSIZE = lo /\ held'[x] = n
      BY ONLY <1>2, <1>3, <1>11, <2>1
    <3>4. chunks'[lo].size >= HSIZE + held'[x]
      BY <3>2, <3>3, Zenon
    <3>. QED
      BY <3>1, <3>3, <3>4, Zenon
  <2>2. CASE x # lo + HSIZE
    <3>1. x \in DOMAIN held \ {a} /\ held'[x] = held[x]
      BY <1>11, <2>2
    <3>2. /\ x - HSIZE \in D /\ chunks[x - HSIZE].used /\ ~chunks[x - HSIZE].notOurs
          /\ chunks[x - HSIZE].size >= HSIZE + held[x]
      BY <3>1 DEF Base, Whole, HeldOK, Holds
    <3>3. x - HSIZE < lo \/ hi <= x - HSIZE
      BY <3>1
    <3> DEFINE y == x - HSIZE
    <3> HIDE DEF y
    <3>4. y \in DOMAIN chunks' /\ chunks'[y] = chunks[y]
      <4>1. y \in D /\ (y < lo \/ hi <= y)
        BY <3>2, <3>3 DEF y
      <4>. QED
        BY <1>2, <4>1
    <3>. QED
      BY <3>1, <3>2, <3>4 DEF y
  <2>. QED
    BY <2>1, <2>2
<1>. QED
  BY <1>6, <1>8, <1>9, <1>10, <1>11, <1>12, <1>14

\* The call of a malloc that is over.
LEMMA CallEnds ==
    ASSUME call' = Idle
    PROVE  call' \in CallType /\ CallOK' /\ ListEnd' = endOfChunks'
<1>1. HSIZE \in Nat \ {0} /\ PAGESIZE \in Nat /\ PAGESIZE > 2 * HSIZE
  BY Scales
<1>. QED
  BY <1>1, IdleIs DEF CallOK, ListEnd

\* malloc has found a chunk of the list.
LEMMA FoundIs ==
    ASSUME Base, Whole, Found
    PROVE  /\ call.pc # "grow" /\ call.chunk \in DOMAIN chunks
           /\ ~chunks[call.chunk].used /\ call.size \in Nat
  BY DEF Found, Fits, Base, Whole, CallOK, CallType

\* malloc takes a chunk, and splits off what is left.
LEMMA TakeOK ==
    ASSUME Base, Whole, Take, intact, intact'
    PROVE  Base' /\ Whole'
<1> DEFINE c == call.chunk
           n == call.size
           size == chunks[c].size
           R == RealSize(n)
           rest == c + R
           split == Left >= MALLOC_MINSIZE
           left == IF split THEN {rest} ELSE {}
           mine == IF split THEN R ELSE size
           taken == [chunks[c] EXCEPT !.used = TRUE, !.size = mine]
           behind == Chunk(Left)
           D == DOMAIN chunks
           hi == c + size
           mid == c + mine
<1>1. /\ Found
      /\ chunks' = [x \in D \cup left |->
                      CASE x = c -> taken [] x \in left -> behind [] OTHER -> chunks[x]]
      /\ totalMemAllocated' = totalMemAllocated + mine - HSIZE
      /\ held' = [a \in DOMAIN held \cup {c + HSIZE} |-> IF a = c + HSIZE THEN n ELSE held[a]]
      /\ call' = Idle
      /\ move' = IF move.pc = "malloc" THEN [move EXCEPT !.pc = "free"] ELSE move
      /\ Keeps(size >= R)
      /\ UNCHANGED <<endOfChunks, mapped, stacks, cpu>>
  BY DEF Take, memVars
<1>2. call.pc # "grow" /\ c \in D /\ ~chunks[c].used /\ n \in Nat
  BY <1>1, FoundIs
<1>3. Tiles(chunks, endOfChunks)
  BY <1>2 DEF ListEnd, Base, Whole
<1>4. /\ D \subseteq Nat /\ c \in Nat /\ size \in Nat /\ hi \in Nat /\ hi \in D \cup {endOfChunks}
      /\ \A x \in D : x \in Nat /\ ~(c < x /\ x < hi)
  <2>1. /\ D \subseteq Nat /\ c \in Nat /\ size \in Nat /\ hi \in Nat /\ hi \in D \cup {endOfChunks}
    BY <1>2, <1>3, PlaceIs
  <2>2. \A c1, x \in D : ~(c1 < x /\ x < c1 + chunks[c1].size)
    BY <1>3 DEF Tiles
  <2>. QED
    BY <1>2, <2>1, <2>2
<1>5. /\ HSIZE \in Nat \ {0} /\ MALLOC_MINSIZE \in Nat \ {0} /\ HSIZE <= MALLOC_MINSIZE
      /\ R \in Nat \ {0} /\ R >= HSIZE + n
  BY <1>2, RealSizeIs, Scales
<1> HIDE DEF R
<1> DEFINE rem == size - R
<1>55. size >= R /\ Left = rem /\ rem \in Nat
  <2>1. size >= R
    BY <1>1 DEF Keeps, intact
  <2>2. rem \in Nat
    BY <1>4, <1>5, <2>1
  <2>3. Left = Unsigned(rem)
    BY DEF Left, R
  <2> HIDE DEF rem
  <2>4. Unsigned(rem) = rem
    BY <2>2 DEF Unsigned
  <2>. QED
    BY <2>1, <2>2, <2>3, <2>4
<1>6. /\ mine \in Nat /\ R <= mine /\ mid \in Nat /\ c < mid /\ mid <= hi
      /\ (mid < hi => split) /\ (split => mid < hi /\ mid = rest /\ hi - mid = Left)
      /\ (split => Left >= HSIZE)
  <2>1. CASE split
    BY <1>4, <1>5, <1>55, <2>1
  <2>2. CASE ~split
    BY <1>4, <1>5, <1>55, <2>2
  <2>. QED
    BY <2>1, <2>2
<1>7. split => rest \notin D /\ rest # c
  BY <1>4, <1>6
<1>8. chunks[c] \in Header /\ ~chunks[c].notOurs
  BY <1>2 DEF Base, Whole, HeadersOK
<1> HIDE DEF taken, behind, left
<1>9. /\ \A x : x \in DOMAIN chunks' <=> (x \in D /\ ~(c < x /\ x < hi)) \/ (x = mid /\ mid < hi)
      /\ chunks'[c] = taken /\ (split => chunks'[mid] = behind)
      /\ \A x \in D : x # c => chunks'[x] = chunks[x]
  <2>1. left = IF split THEN {mid} ELSE {}
    BY <1>6 DEF left
  <2>2. DOMAIN chunks' = D \cup left
    BY <1>1
  <2>3. \A x : x \in left <=> x = mid /\ mid < hi
    BY <1>6, <2>1
  <2>4. chunks'[c] = taken
    <3>1. c \notin left
      BY <1>4, <1>6, <2>3
    <3>. QED
      BY <1>1, <1>2, <3>1, Zenon
  <2>5. split => chunks'[mid] = behind
    <3>1. split => mid \in left /\ mid # c
      BY <1>6, <1>7, <2>3
    <3>. QED
      BY <1>1, <3>1, Zenon
  <2>6. \A x \in D : x # c => x \notin left
    BY <1>4, <1>6, <1>7, <2>1
  <2>7. \A x \in D : x # c => chunks'[x] = chunks[x]
    BY <1>1, <2>6, Zenon
  <2>. QED
    BY <1>4, <2>2, <2>3, <2>4, <2>5, <2>7
<1> HIDE DEF mine
<1>10. chunks'[c] \in Header /\ chunks'[c].size = mine /\ chunks'[c].used /\ ~chunks'[c].notOurs
  BY <1>6, <1>8, <1>9 DEF taken, Header
<1>11. mid < hi => chunks'[mid] = Chunk(hi - mid) /\ hi - mid >= HSIZE
  BY <1>6, <1>9, Zenon DEF behind
<1>12. \A x \in DOMAIN held \ {c + HSIZE} : x - HSIZE < c \/ hi <= x - HSIZE
  <2> SUFFICES ASSUME NEW x \in DOMAIN held
               PROVE  x - HSIZE < c \/ hi <= x - HSIZE
    OBVIOUS
  <2>1. x - HSIZE \in D /\ chunks[x - HSIZE].used
    BY DEF Base, Whole, HeldOK, Holds
  <2>2. x - HSIZE # c
    BY <1>2, <2>1
  <2>. QED
    BY <1>4, <2>1, <2>2
<1>13. /\ HeadersOK' /\ Tiles(chunks', endOfChunks) /\ EndOK' /\ MapOK' /\ PagesOK'
       /\ DOMAIN held' = (DOMAIN held \ {c + HSIZE}) \cup {c + HSIZE}
       /\ DOMAIN held' \subseteq Nat /\ Holds'
  <2>1. mid - c = mine /\ HSIZE + n <= mid - c
    BY <1>2, <1>4, <1>5, <1>6
  <2>2. held' = [x \in (DOMAIN held \ {c + HSIZE}) \cup {c + HSIZE} |->
                    IF x = c + HSIZE THEN n ELSE held[x]]
    <3>1. (DOMAIN held \ {c + HSIZE}) \cup {c + HSIZE} = DOMAIN held \cup {c + HSIZE}
      OBVIOUS
    <3>. QED
      BY <1>1, <3>1, Zenon
  <2>3. /\ \A x \in D : c <= x /\ x < hi => ~chunks[x].notOurs
        /\ \A x \in D : x < c \/ hi <= x => chunks'[x] = chunks[x]
    BY <1>4, <1>6, <1>8, <1>9
  <2> HIDE DEF c, n, hi, mid
  <2>4. chunks'[c].size = mid - c
    BY <1>10, <2>1
  <2>. QED
    BY <1>1, <1>2, <1>4, <1>6, <1>9, <1>10, <1>11, <1>12, <2>1, <2>2, <2>3, <2>4, Reshaped
<1>14. call' \in CallType /\ CallOK' /\ ListEnd' = endOfChunks
  BY <1>1, CallEnds
<1>15. HeldOK'
  <2>1. /\ move \in Moves
        /\ move.pc = "none" => move.from = NoChunk
        /\ move.pc # "none" => move.from \in DOMAIN held
    BY DEF Base, Whole, HeldOK
  <2>2. /\ move' \in Moves
        /\ move'.from = move.from /\ move'.size = move.size
        /\ move'.pc = "none" <=> move.pc = "none"
    <3>1. CASE move.pc = "malloc"
      BY <1>1, <2>1, <3>1 DEF Moves
    <3>2. CASE move.pc # "malloc"
      BY <1>1, <2>1, <3>2
    <3>. QED
      BY <3>1, <3>2
  <2>. QED
    BY <1>13, <2>1, <2>2 DEF HeldOK
<1>16. totalMemAllocated' \in Int
  BY <1>1, <1>5, <1>6 DEF Base, Whole
<1>. QED
  BY <1>1, <1>13, <1>14, <1>15, <1>16 DEF Base, Whole

\* The list that realloc leaves behind.
LEMMA SplitIs ==
    ASSUME NEW gone, NEW c \in Nat, NEW s \in Nat \ {0}, NEW rest \in Nat
    PROVE  LET new == Split(gone, c, s, rest)
           IN  /\ \A x : x \in DOMAIN new <=>
                            (x \in DOMAIN chunks /\ x \notin gone) \/ x = c \/ (x = c + s /\ rest > 0)
               /\ new[c] \in Header /\ new[c].size = s /\ new[c].used /\ ~new[c].notOurs
               /\ rest > 0 => new[c + s] = Chunk(rest)
               /\ \A x \in DOMAIN chunks \ gone :
                     x # c /\ ~(x = c + s /\ rest > 0) => new[x] = chunks[x]
<1> DEFINE S == (DOMAIN chunks \ gone) \cup {c} \cup (IF rest > 0 THEN {c + s} ELSE {})
           first == [Chunk(s) EXCEPT !.used = TRUE]
           second == Chunk(rest)
           new == Split(gone, c, s, rest)
           e == c + s
           some == rest > 0
<1>1. new = [x \in S |-> CASE x = c -> first [] x = e /\ some -> second [] OTHER -> chunks[x]]
  BY DEF Split
<1>2. first \in Header /\ first.size = s /\ first.used /\ ~first.notOurs
  BY DEF Chunk, Header
<1>3. e # c
  OBVIOUS
<1>4. \A x : x \in S <=> (x \in DOMAIN chunks /\ x \notin gone) \/ x = c \/ (x = e /\ some)
  OBVIOUS
<1> HIDE DEF S, first, second, new, e, some
<1>5. DOMAIN new = S
  BY <1>1
<1>6. new[c] = first
  BY <1>1, <1>3, <1>4, Zenon
<1>7. some => new[e] = second
  BY <1>1, <1>3, <1>4, Zenon
<1>8. \A x \in DOMAIN chunks \ gone : x # c /\ ~(x = e /\ some) => new[x] = chunks[x]
  <2> SUFFICES ASSUME NEW x \in DOMAIN chunks \ gone, x # c, ~(x = e /\ some)
               PROVE  new[x] = chunks[x]
    OBVIOUS
  <2>1. x \in S
    BY <1>4
  <2>. QED
    BY <1>1, <2>1, Zenon
<1>9. new[c] \in Header /\ new[c].size = s /\ new[c].used /\ ~new[c].notOurs
  BY <1>2, <1>6
<1>. QED
  BY <1>4, <1>5, <1>7, <1>8, <1>9, Zenon DEF new, second, e, some

\* What a caller may pass to realloc.
LEMMA HeldIs ==
    ASSUME Base, Whole, mallocReady, NEW a \in DOMAIN held
    PROVE  LET c == a - HSIZE
           IN  /\ Tiles(chunks, endOfChunks) /\ call.pc # "grow"
               /\ a \in Nat /\ c \in DOMAIN chunks /\ c \in Nat /\ c + HSIZE = a
               /\ chunks[c].used /\ ~chunks[c].notOurs /\ chunks[c].size \in Nat \ {0}
               /\ chunks[c].size >= HSIZE /\ chunks[c] \in Header /\ HSIZE \in Nat \ {0} /\ endOfChunks \in Nat
<1> DEFINE c == a - HSIZE
<1>1. Tiles(chunks, endOfChunks) /\ call.pc # "grow" /\ HSIZE \in Nat \ {0}
  BY Scales DEF ListEnd, Base, Whole, mallocReady
<1>2. a \in Nat /\ c \in DOMAIN chunks /\ chunks[c].used /\ ~chunks[c].notOurs
  BY DEF Base, Whole, HeldOK, Holds
<1>3. chunks[c] \in Header /\ chunks[c].size >= HSIZE
  BY <1>2 DEF Base, Whole, HeadersOK
<1>4. c \in Nat /\ chunks[c].size \in Nat \ {0} /\ endOfChunks \in Nat
  BY <1>1, <1>2 DEF Tiles
<1>5. c + HSIZE = a
  BY <1>1, <1>2
<1>. QED
  BY <1>1, <1>2, <1>3, <1>4, <1>5

\* The caller's chunk is made of the chunks from lo to hi, of which the others are free.
LEMMA ResizedOK ==
    ASSUME Base, Whole, mallocReady, NEW a \in Held, NEW n \in Nat,
           NEW lo \in DOMAIN chunks, NEW hi \in DOMAIN chunks \cup {endOfChunks},
           NEW s \in Nat \ {0}, NEW rest \in Nat, lo + s + rest = hi, HSIZE + n <= s,
           RoomFor(rest), NEW gone, \A x : x \in gone <=> x \in DOMAIN chunks /\ lo < x /\ x < hi,
           lo <= a - HSIZE, a - HSIZE < hi,
           \A x \in DOMAIN chunks : lo <= x /\ x < hi /\ x # a - HSIZE => ~chunks[x].used,
           NEW grown \in Int, Resized(a, lo, n, Split(gone, lo, s, rest), grown)
    PROVE  Base' /\ Whole'
<1> DEFINE c == a - HSIZE
           D == DOMAIN chunks
           mid == lo + s
<1>1. a \in DOMAIN held /\ a # move.from
  BY DEF Held
<1>2. /\ Tiles(chunks, endOfChunks) /\ call.pc # "grow"
      /\ c \in D /\ c \in Nat /\ ~chunks[c].notOurs /\ HSIZE \in Nat \ {0} /\ endOfChunks \in Nat
  BY <1>1, HeldIs
<1>3. D \subseteq Nat /\ lo \in Nat /\ hi \in Nat
  BY <1>2 DEF Tiles
<1>4. mid \in Nat /\ lo < mid /\ mid <= hi /\ (mid < hi <=> rest > 0) /\ hi - mid = rest /\ mid - lo = s
  BY ONLY <1>3, s \in Nat \ {0}, rest \in Nat, lo + s + rest = hi
<1>5. /\ chunks' = Split(gone, lo, s, rest)
      /\ totalMemAllocated' = totalMemAllocated + grown
      /\ held' = [x \in (DOMAIN held \ {a}) \cup {lo + HSIZE} |->
                    IF x = lo + HSIZE THEN n ELSE held[x]]
      /\ UNCHANGED <<endOfChunks, mapped, stacks, call, move, cpu>>
  BY DEF Resized, memVars
<1>6. /\ \A x : x \in DOMAIN chunks' <=> (x \in D /\ x \notin gone) \/ x = lo \/ (x = mid /\ rest > 0)
      /\ chunks'[lo] \in Header /\ chunks'[lo].size = s /\ chunks'[lo].used /\ ~chunks'[lo].notOurs
      /\ rest > 0 => chunks'[mid] = Chunk(rest)
      /\ \A x \in D \ gone : x # lo /\ ~(x = mid /\ rest > 0) => chunks'[x] = chunks[x]
  <2> DEFINE new == Split(gone, lo, s, rest)
  <2>1. /\ \A x : x \in DOMAIN new <=> (x \in D /\ x \notin gone) \/ x = lo \/ (x = mid /\ rest > 0)
        /\ new[lo] \in Header /\ new[lo].size = s /\ new[lo].used /\ ~new[lo].notOurs
        /\ rest > 0 => new[mid] = Chunk(rest)
        /\ \A x \in D \ gone : x # lo /\ ~(x = mid /\ rest > 0) => new[x] = chunks[x]
    <3>1. lo \in Nat
      BY <1>3
    <3>. QED
      BY ONLY <3>1, s \in Nat \ {0}, rest \in Nat, SplitIs, SMTT(30)
  <2> HIDE DEF new
  <2>. QED
    BY ONLY <1>5, <2>1, Zenon DEF new
<1> HIDE DEF mid
<1>7. \A x : x \in DOMAIN chunks' <=> (x \in D /\ ~(lo < x /\ x < hi)) \/ (x = mid /\ mid < hi)
  <2>1. ~(lo < lo)
    BY <1>3
  <2>. QED
    BY <1>4, <1>6, <2>1, Zenon
<1>8. \A x \in D : x < lo \/ hi <= x => chunks'[x] = chunks[x]
  <2> SUFFICES ASSUME NEW x \in D, x < lo \/ hi <= x
               PROVE  chunks'[x] = chunks[x]
    OBVIOUS
  <2>1. x \in Nat /\ ~(lo < x /\ x < hi) /\ x # lo /\ (mid < hi => x # mid)
    BY <1>3, <1>4
  <2>. QED
    BY <1>4, <1>6, <2>1
<1>9. \A x \in D : lo <= x /\ x < hi => ~chunks[x].notOurs
  <2>1. \A x \in D : chunks[x].notOurs => chunks[x].used
    BY DEF Base, Whole, HeadersOK
  <2>. QED
    BY <1>2, <2>1
<1>10. \A x \in DOMAIN held \ {a} : x - HSIZE < lo \/ hi <= x - HSIZE
  <2> SUFFICES ASSUME NEW x \in DOMAIN held \ {a}
               PROVE  x - HSIZE < lo \/ hi <= x - HSIZE
    OBVIOUS
  <2> DEFINE y == x - HSIZE
  <2>1. y \in D /\ y \in Nat /\ chunks[y].used /\ y + HSIZE = x
    BY HeldIs
  <2>2. y # c
    BY <1>1, <2>1, HeldIs
  <2>. QED
    BY <1>3, <2>1, <2>2
<1>11. /\ HeadersOK' /\ Tiles(chunks', endOfChunks) /\ EndOK' /\ MapOK' /\ PagesOK'
       /\ DOMAIN held' = (DOMAIN held \ {a}) \cup {lo + HSIZE}
       /\ DOMAIN held' \subseteq Nat /\ Holds'
  <2>1. /\ mid < hi => chunks'[mid] = Chunk(hi - mid) /\ hi - mid >= HSIZE
        /\ chunks'[lo].size = mid - lo /\ HSIZE + n <= mid - lo
        /\ UNCHANGED <<endOfChunks, mapped, stacks>>
    BY <1>4, <1>5, <1>6 DEF RoomFor
  <2>2. /\ chunks'[lo] \in Header /\ chunks'[lo].used /\ ~chunks'[lo].notOurs
        /\ mid \in Nat /\ lo < mid /\ mid <= hi
    BY <1>4, <1>6
  <2>3. Base /\ Whole /\ lo \in D /\ hi \in D \cup {endOfChunks} /\ n \in Nat
    OBVIOUS
  <2>. QED
    BY ONLY <1>2, <1>5, <1>7, <1>8, <1>9, <1>10, <2>1, <2>2, <2>3, Reshaped
<1>12. call' \in CallType /\ CallOK' /\ ListEnd' = endOfChunks
  BY <1>2, <1>5 DEF CallOK, Base, Whole, ListEnd, mallocReady
<1>13. HeldOK'
  BY <1>1, <1>5, <1>11 DEF HeldOK, Base, Whole
<1>14. totalMemAllocated' \in Int
  BY <1>5 DEF Base
<1>. QED
  BY <1>5, <1>11, <1>12, <1>13, <1>14 DEF Base, Whole

\* The free chunk that follows.
LEMMA NextIs ==
    ASSUME Base, Whole, mallocReady, NEW a \in DOMAIN held, FreeNext(a - HSIZE)
    PROVE  LET c == a - HSIZE
               next == c + chunks[c].size
               hi == next + chunks[next].size
           IN  /\ next \in DOMAIN chunks /\ next \in Nat /\ chunks[next].size \in Nat \ {0}
               /\ chunks[next].size >= HSIZE /\ ~chunks[next].used /\ hi \in DOMAIN chunks \cup {endOfChunks} /\ hi \in Nat
               /\ \A x : x \in {next} <=> x \in DOMAIN chunks /\ c < x /\ x < hi
               /\ \A x \in DOMAIN chunks : c <= x /\ x < hi /\ x # c => ~chunks[x].used
<1> DEFINE c == a - HSIZE
           next == c + chunks[c].size
           hi == next + chunks[next].size
           D == DOMAIN chunks
<1>1. /\ Tiles(chunks, endOfChunks) /\ c \in D /\ c \in Nat /\ chunks[c].size \in Nat \ {0}
      /\ endOfChunks \in Nat
  BY HeldIs
<1>2. next < endOfChunks /\ ~chunks[next].used
  BY DEF FreeNext
<1> HIDE DEF c
<1>3. next \in D
  BY <1>1, <1>2, PlaceIs
<1> HIDE DEF next
<1>4. next \in Nat /\ chunks[next].size \in Nat \ {0} /\ hi \in Nat /\ hi \in D \cup {endOfChunks}
      /\ next < hi
  BY <1>1, <1>3, PlaceIs
<1>44. chunks[next].size >= HSIZE
  BY <1>3 DEF Base, HeadersOK
<1>5. \A x \in D : x \in Nat /\ (next < x => hi <= x)
  BY <1>1, <1>3, Neighbours, PlaceIs
<1>6. \A x \in D : c < x => next <= x
  BY <1>1, Neighbours DEF next
<1>7. c < next
  BY <1>1 DEF next
<1> HIDE DEF hi
<1>8. \A x : x \in {next} <=> x \in D /\ c < x /\ x < hi
  <2>1. \A x \in D : c < x /\ x < hi => x = next
    BY <1>4, <1>5, <1>6
  <2>. QED
    BY <1>3, <1>4, <1>7, <2>1
<1>9. \A x \in D : c <= x /\ x < hi /\ x # c => ~chunks[x].used
  BY <1>1, <1>2, <1>5, <1>8
<1>. QED
  BY <1>2, <1>3, <1>4, <1>44, <1>8, <1>9 DEF c, next, hi

\* A call that leaves the list whole has had room for what it wrote.
LEMMA WholeOnly ==
    ASSUME NEW w, Called(w), intact, intact'
    PROVE  w
  BY DEF Called, intact

LEMMA ReallocNextOK ==
    ASSUME Base, Whole, NEW a \in Held, NEW n \in Sizes, reallocNext(a, n), intact, intact'
    PROVE  Base' /\ Whole'
<1> DEFINE c == a - HSIZE
           next == c + chunks[c].size
           hi == next + chunks[next].size
           R == RealSize(n)
           rest == chunks[c].size + chunks[next].size - R
           grown == R - chunks[c].size
<1>1. /\ mallocReady /\ a \in DOMAIN held /\ FreeNext(c) /\ chunks[c].size + chunks[next].size >= R
      /\ Resized(a, c, n, Split({next}, c, R, rest), grown) /\ Called(RoomFor(rest))
  BY DEF reallocNext, Resizing, GrowsIntoNext, Held
<1>2. n \in Nat /\ R \in Nat \ {0} /\ HSIZE + n <= R
  <2>1. n \in Nat
    BY Scales
  <2>. QED
    BY <2>1, RealSizeIs, Scales
<1>3. c \in DOMAIN chunks /\ c \in Nat /\ chunks[c].size \in Nat \ {0}
  BY <1>1, HeldIs
<1>4. /\ next \in Nat /\ chunks[next].size \in Nat \ {0}
      /\ hi \in DOMAIN chunks \cup {endOfChunks} /\ hi \in Nat
      /\ \A x : x \in {next} <=> x \in DOMAIN chunks /\ c < x /\ x < hi
      /\ \A x \in DOMAIN chunks : c <= x /\ x < hi /\ x # c => ~chunks[x].used
  BY <1>1, NextIs
<1> HIDE DEF R
<1>5. rest \in Nat /\ grown \in Int /\ c + R + rest = hi /\ c <= c /\ c < hi
  BY ONLY <1>1, <1>2, <1>3, <1>4
<1> HIDE DEF rest, grown, hi, next
<1>6. RoomFor(rest)
  BY <1>1, WholeOnly
<1>. QED
  BY <1>1, <1>2, <1>3, <1>4, <1>5, <1>6, ResizedOK

LEMMA ReallocPreviousOK ==
    ASSUME Base, Whole, NEW a \in Held, NEW n \in Sizes, reallocPrevious(a, n), intact, intact'
    PROVE  Base' /\ Whole'
<1> DEFINE c == a - HSIZE
           p == Previous(c)
           hi == c + chunks[c].size
           R == RealSize(n)
           rest == chunks[c].size + chunks[p].size - R
           grown == R - chunks[c].size
           D == DOMAIN chunks
<1>1. /\ mallocReady /\ a \in DOMAIN held /\ c # 0 /\ ~chunks[p].used
      /\ chunks[c].size + chunks[p].size >= R
      /\ Resized(a, p, n, Split({c}, p, R, rest), grown) /\ Called(RoomFor(rest))
  BY DEF reallocPrevious, LooksBack, Resizing, GrowsIntoPrevious, Held, firstChunk
<1>2. n \in Nat /\ R \in Nat \ {0} /\ HSIZE + n <= R
  <2>1. n \in Nat
    BY Scales
  <2>. QED
    BY <2>1, RealSizeIs, Scales
<1>3. c \in D /\ c \in Nat /\ chunks[c].size \in Nat \ {0} /\ Tiles(chunks, endOfChunks)
  BY <1>1, HeldIs
<1> HIDE DEF c
<1>4. p \in D /\ p + chunks[p].size = c
  <2>1. \E x \in D : x + chunks[x].size = c
    BY <1>1, <1>3, Neighbours
  <2>. QED
    BY <2>1 DEF Previous
<1> HIDE DEF p
<1>5. p \in Nat /\ chunks[p].size \in Nat \ {0} /\ hi \in Nat /\ hi \in D \cup {endOfChunks}
  <2>1. p \in Nat /\ chunks[p].size \in Nat /\ chunks[p].size # 0
    BY <1>3, <1>4, PlaceIs
  <2>2. hi \in Nat /\ hi \in D \cup {endOfChunks}
    BY <1>3, PlaceIs
  <2>. QED
    BY <2>1, <2>2
<1>6. \A x \in D : x \in Nat /\ (p < x => c <= x) /\ (c < x => hi <= x)
  BY <1>3, <1>4, Neighbours, PlaceIs
<1>7. p < c /\ c < hi
  BY <1>3, <1>4, <1>5
<1> HIDE DEF R
<1>8. rest \in Nat /\ grown \in Int /\ p + R + rest = hi
  BY ONLY <1>1, <1>2, <1>3, <1>4, <1>5
<1> HIDE DEF hi
<1>9. \A x : x \in {c} <=> x \in D /\ p < x /\ x < hi
  <2>1. \A x \in D : p < x /\ x < hi => x = c
    BY <1>3, <1>5, <1>6
  <2>. QED
    BY <1>3, <1>7, <2>1
<1>10. \A x \in D : p <= x /\ x < hi /\ x # c => ~chunks[x].used
  BY <1>1, <1>5, <1>6, <1>9
<1>11. p <= c /\ c < hi
  BY <1>3, <1>5, <1>7
<1> HIDE DEF rest, grown
<1>12. RoomFor(rest)
  BY <1>1, WholeOnly
<1>. QED
  BY <1>1, <1>2, <1>4, <1>5, <1>8, <1>9, <1>10, <1>11, <1>12, ResizedOK DEF c

LEMMA ReallocShrinkOK ==
    ASSUME Base, Whole, NEW a \in Held, NEW n \in Sizes, reallocShrink(a, n)
    PROVE  Base' /\ Whole'
<1> DEFINE c == a - HSIZE
           next == c + chunks[c].size
           R == RealSize(n)
           diff == chunks[c].size - R
           joined == IF chunks[next].size = 0 THEN {} ELSE {next}
           D == DOMAIN chunks
<1>1. /\ mallocReady /\ a \in DOMAIN held /\ a # move.from /\ diff >= 0
      /\ IF diff > 0 /\ FreeNext(c)
         THEN Resized(a, c, n, Split(joined, c, R, chunks[next].size + diff), 0 - diff)
         ELSE IF diff >= MALLOC_MINSIZE
         THEN Resized(a, c, n, Split({}, c, R, diff), 0 - diff)
         ELSE Resized(a, c, n, chunks, 0)
  BY DEF reallocShrink, Resizing, Held
<1>2. /\ n \in Nat /\ R \in Nat \ {0} /\ HSIZE + n <= R
      /\ MALLOC_MINSIZE \in Nat \ {0} /\ HSIZE \in Nat /\ HSIZE <= MALLOC_MINSIZE
  <2>1. n \in Nat
    BY Scales
  <2>. QED
    BY <2>1, RealSizeIs, Scales
<1>3. /\ c \in D /\ c \in Nat /\ chunks[c].size \in Nat \ {0} /\ Tiles(chunks, endOfChunks)
      /\ chunks[c] \in Header /\ chunks[c].used /\ ~chunks[c].notOurs /\ c + HSIZE = a
      /\ call.pc # "grow"
  BY <1>1, HeldIs
<1> HIDE DEF R
<1>4. diff \in Nat /\ 0 - diff \in Int /\ R + diff = chunks[c].size
  BY <1>1, <1>2, <1>3
<1>5. /\ next \in Nat /\ next \in D \cup {endOfChunks} /\ c < next /\ D \subseteq Nat
      /\ \A x \in D : x \in Nat /\ (c < x => next <= x)
  <2> HIDE DEF c
  <2>1. next \in Nat /\ next \in D \cup {endOfChunks} /\ c < next /\ D \subseteq Nat
    BY <1>3, PlaceIs
  <2>2. \A x \in D : c < x => next <= x
    BY <1>3, Neighbours
  <2>. QED
    BY <2>1, <2>2
<1> HIDE DEF diff
<1>6. \A x \in D : ~(c < x /\ x < next)
  <2> HIDE DEF c, next
  <2>. QED
    BY <1>5
<1>7. CASE diff > 0 /\ FreeNext(c)
  <2> DEFINE hi == next + chunks[next].size
             rest == chunks[next].size + diff
             grown == 0 - diff
  <2>1. /\ chunks[next].size \in Nat \ {0} /\ chunks[next].size >= HSIZE
        /\ hi \in D \cup {endOfChunks} /\ hi \in Nat
        /\ \A x : x \in {next} <=> x \in D /\ c < x /\ x < hi
        /\ \A x \in D : c <= x /\ x < hi /\ x # c => ~chunks[x].used
    BY <1>1, <1>7, NextIs
  <2>2. rest \in Nat /\ c + R + rest = hi /\ c <= c /\ c < hi
    BY ONLY <1>2, <1>3, <1>4, <1>5, <2>1
  <2>3. Resized(a, c, n, Split({next}, c, R, rest), grown) /\ grown \in Int
    <3>1. joined = {next}
      BY <2>1
    <3>. QED
      BY <1>1, <1>4, <1>7, <3>1
  <2>4. RoomFor(rest)
    BY ONLY <1>2, <1>4, <2>1 DEF RoomFor
  <2> HIDE DEF rest, grown, hi, next
  <2>. QED
    BY <1>1, <1>2, <1>3, <2>1, <2>2, <2>3, <2>4, ResizedOK
<1>8. CASE ~(diff > 0 /\ FreeNext(c)) /\ diff >= MALLOC_MINSIZE
  <2> DEFINE grown == 0 - diff
             none == {}
  <2>1. Resized(a, c, n, Split(none, c, R, diff), grown) /\ grown \in Int
    BY <1>1, <1>4, <1>8
  <2>2. c + R + diff = next /\ c <= c
    BY ONLY <1>2, <1>3, <1>4
  <2>3. \A x : x \in none <=> x \in D /\ c < x /\ x < next
    BY <1>6
  <2>4. \A x \in D : c <= x /\ x < next /\ x # c => ~chunks[x].used
    <3> HIDE DEF c, next
    <3>. QED
      BY <1>3, <1>5, <1>6
  <2>5. RoomFor(diff)
    BY ONLY <1>2, <1>4, <1>8 DEF RoomFor
  <2> HIDE DEF none, grown, next
  <2>. QED
    BY <1>1, <1>2, <1>3, <1>4, <1>5, <2>1, <2>2, <2>3, <2>4, <2>5, ResizedOK
<1>9. CASE ~(diff > 0 /\ FreeNext(c)) /\ ~(diff >= MALLOC_MINSIZE)
  <2>1. /\ chunks' = chunks /\ totalMemAllocated' = totalMemAllocated + 0
        /\ held' = [x \in (DOMAIN held \ {a}) \cup {c + HSIZE} |->
                      IF x = c + HSIZE THEN n ELSE held[x]]
        /\ UNCHANGED <<endOfChunks, mapped, stacks, call, move, cpu>>
    <3>1. Resized(a, c, n, chunks, 0)
      BY <1>1, <1>9
    <3>. QED
      BY <3>1 DEF Resized, memVars
  <2>2. /\ DOMAIN held' = DOMAIN held /\ held'[a] = n
        /\ \A x \in DOMAIN held : x # a => held'[x] = held[x]
    BY <1>1, <1>3, <2>1
  <2>3. chunks[c].size >= HSIZE + n
    BY <1>2, <1>3, <1>4
  <2>4. Holds'
    BY <1>3, <2>1, <2>2, <2>3 DEF Holds, Base, Whole, HeldOK
  <2>5. HeldOK'
    BY <2>1, <2>2, <2>4 DEF HeldOK, Base, Whole
  <2>6. PagesOK'
    BY <2>1, SamePages DEF Base, Whole
  <2>7. Tiles(chunks, ListEnd)' /\ CallOK' /\ HeadersOK' /\ EndOK' /\ MapOK'
    BY <2>1 DEF Base, Whole, ListEnd, CallOK, HeadersOK, EndOK, MapOK
  <2>. QED
    BY <2>1, <2>5, <2>6, <2>7 DEF Base, Whole
<1>. QED
  BY <1>7, <1>8, <1>9

-----------------------------------------------------------------------------
(***************************************************************************)
(* free.                                                                   *)
(***************************************************************************)

\* The pages below an address that starts one.
LEMMA PageBelow ==
    ASSUME NEW x \in Nat, NEW p \in Nat
    PROVE  PageOf(x) < p <=> x < p * PAGESIZE
<1> DEFINE q == PageOf(x)
           a == p * PAGESIZE
           b == q * PAGESIZE
<1>1. PAGESIZE \in Nat /\ q \in Nat /\ b \in Nat /\ b <= x /\ x < b + PAGESIZE
  BY PageBounds, PageIs, Scales
<1>2. a \in Nat
  BY <1>1
<1>3. q < p => b + PAGESIZE <= a
  BY <1>1, PagesApart
<1>4. p < q => a + PAGESIZE <= b
  BY <1>1, PagesApart
<1>5. p = q => a = b
  OBVIOUS
<1> HIDE DEF a, b, q
<1>6. q < p <=> x < a
  BY <1>1, <1>2, <1>3, <1>4, <1>5
<1>. QED
  BY <1>6 DEF a, q

\* The free chunks that follow c end where the next one in use, or the heap, does.
LEMMA RunIs ==
    ASSUME Tiles(chunks, endOfChunks), NEW c \in DOMAIN chunks
    PROVE  LET stop == FreeRunEnd(c)
           IN  /\ stop \in DOMAIN chunks \cup {endOfChunks} /\ stop \in Nat
               /\ c < stop /\ stop <= endOfChunks
               /\ \A x \in DOMAIN chunks : c < x /\ x < stop => ~chunks[x].used
<1> DEFINE S == {x \in DOMAIN chunks : x > c /\ chunks[x].used} \cup {endOfChunks}
           stop == FreeRunEnd(c)
<1>1. /\ DOMAIN chunks \subseteq Nat /\ endOfChunks \in Nat /\ c \in Nat
      /\ chunks[c].size \in Nat /\ chunks[c].size # 0 /\ c + chunks[c].size <= endOfChunks
  BY PlaceIs
<1>2. S \in SUBSET Nat /\ S # {}
  BY <1>1
<1>3. stop \in S /\ \A q \in S : stop <= q
  <2> HIDE DEF S
  <2>1. Min(S) \in S /\ \A q \in S : Min(S) <= q
    BY <1>2, LeastIs
  <2>. QED
    BY <2>1 DEF FreeRunEnd, S
<1> HIDE DEF stop
<1>4. stop \in DOMAIN chunks \cup {endOfChunks} /\ stop \in Nat /\ c < stop /\ stop <= endOfChunks
  BY <1>1, <1>3
<1>5. \A x \in DOMAIN chunks : c < x /\ x < stop => ~chunks[x].used
  BY <1>1, <1>3, <1>4
<1>. QED
  BY <1>4, <1>5 DEF stop

\* The list after free: the chunk at c has joined those up to stop, and the heap ends
\* q addresses earlier.
LEMMA Trimmed ==
    ASSUME NEW ch, NEW new, NEW end, Tiles(ch, end), NEW c \in DOMAIN ch,
           NEW stop \in DOMAIN ch \cup {end}, c < stop, NEW q \in Nat, q <= stop - c,
           stop # end => q = 0, NEW size \in Nat, size = stop - c - q,
           \A x : x \in DOMAIN new <=>
                    x \in DOMAIN ch /\ ~(c < x /\ x < stop) /\ (size = 0 => x # c),
           size # 0 => new[c].size = size,
           \A x \in DOMAIN ch : x < c \/ stop <= x => new[x].size = ch[x].size
    PROVE  Tiles(new, end - q)
<1> DEFINE mid == [x \in {y \in DOMAIN ch : ~(c < y /\ y < stop)} |->
                     IF x = c THEN [size |-> stop - c] ELSE ch[x]]
<1>1. DOMAIN ch \subseteq Nat /\ end \in Nat /\ c \in Nat /\ stop \in Nat
  BY DEF Tiles
<1>2. /\ DOMAIN mid = {y \in DOMAIN ch : ~(c < y /\ y < stop)} /\ c \in DOMAIN mid
      /\ mid[c].size = stop - c
      /\ \A x \in DOMAIN ch : x < c \/ stop <= x => mid[x].size = ch[x].size
  <2>1. \A x \in DOMAIN ch : x < c \/ stop <= x => ~(c < x /\ x < stop) /\ x # c
    BY <1>1
  <2>2. ~(c < c)
    BY <1>1
  <2>. QED
    BY <2>1, <2>2
<1> HIDE DEF mid
<1>3. Tiles(mid, end)
  <2>1. \A x : x \in DOMAIN mid <=>
               (x \in DOMAIN ch /\ ~(c < x /\ x < stop)) \/ (x = stop /\ stop < stop)
    BY <1>1, <1>2
  <2>2. stop <= stop /\ ~(stop < stop)
    BY <1>1
  <2>. QED
    BY ONLY <1>1, <1>2, <2>1, <2>2, Tiles(ch, end), c \in DOMAIN ch, c < stop,
            stop \in DOMAIN ch \cup {end}, Replace
<1>4. \A x \in DOMAIN mid : x # c => x \in DOMAIN ch /\ (x < c \/ stop <= x)
  BY <1>1, <1>2
<1>5. CASE q = 0
  <2>1. size = stop - c /\ size # 0 /\ end - q = end
    BY <1>1, <1>5
  <2>2. DOMAIN new = DOMAIN mid
    BY <1>2, <2>1
  <2>3. \A x \in DOMAIN mid : new[x].size = mid[x].size
    BY <1>2, <1>4, <2>1
  <2>4. Tiles(new, end)
    BY <1>3, <2>2, <2>3, SameTiles
  <2>. QED
    BY <2>1, <2>4
<1>6. CASE q # 0 /\ size # 0
  <2> DEFINE to == end - q
  <2>1. stop = end /\ to \in Nat /\ c < to /\ new[c].size = to - c /\ c + mid[c].size = end
    BY <1>1, <1>2, <1>6
  <2>2. DOMAIN new = DOMAIN mid
    BY <1>2, <1>6
  <2>3. \A x \in DOMAIN mid : x # c => new[x].size = mid[x].size
    BY <1>2, <1>4
  <2> HIDE DEF to
  <2>4. Tiles(new, to)
    BY ONLY <1>2, <1>3, <2>1, <2>2, <2>3, ResizeLast
  <2>. QED
    BY <2>4 DEF to
<1>7. CASE q # 0 /\ size = 0
  <2>1. stop = end /\ end - q = c /\ c + mid[c].size = end
    BY <1>1, <1>2, <1>7
  <2>2. DOMAIN new = DOMAIN mid \ {c}
    BY <1>2, <1>7
  <2>3. \A x \in DOMAIN new : new[x].size = mid[x].size
    BY <1>2, <1>4, <2>2
  <2>4. Tiles(new, c)
    BY ONLY <1>2, <1>3, <2>1, <2>2, <2>3, DropLast
  <2>. QED
    BY <2>1, <2>4
<1>. QED
  BY <1>5, <1>6, <1>7

\* The pages that free gives back: those between the new and the old end of the heap.
LEMMA FreePages ==
    ASSUME Base, Whole, NEW n \in Nat, NEW q \in Nat, q = n * PAGESIZE, q <= endOfChunks,
           endOfChunks' = endOfChunks - q, stacks' = stacks,
           mapped' = mapped \ {PageOf(endOfChunks' + HSIZE) + i : i \in 0 .. n - 1},
           \A x \in Nat : Mine(x)' <=> Mine(x) /\ x < endOfChunks' + HSIZE,
           \A x \in Nat :
               endOfChunks' + HSIZE <= x /\ x < endOfChunks + HSIZE => Mine(x)
    PROVE  EndOK' /\ MapOK' /\ PagesOK'
<1> DEFINE k == PageOf(endOfChunks + HSIZE)
           j == k - n
           E == endOfChunks
           F == endOfChunks'
<1>1. /\ HSIZE \in Nat \ {0} /\ PAGESIZE \in Nat /\ PAGESIZE > 2 * HSIZE /\ E \in Nat /\ k \in Nat
      /\ E + HSIZE = k * PAGESIZE
  BY EndIs DEF Base, Whole
<1>2. F \in Nat /\ F = E - q
  BY <1>1
<1>3. j \in Nat
  <2>1. k < n => k * PAGESIZE + PAGESIZE <= n * PAGESIZE
    BY <1>1, PagesApart
  <2>2. ~(k < n)
    <3> DEFINE b == k * PAGESIZE
    <3>1. b = E + HSIZE /\ (k < n => b + PAGESIZE <= q)
      BY <1>1, <2>1
    <3> HIDE DEF b
    <3>. QED
      BY <1>1, <3>1
  <2>. QED
    BY <1>1, <2>2
<1>4. F + HSIZE = j * PAGESIZE
  <2>1. (k - n) * PAGESIZE = k * PAGESIZE - n * PAGESIZE
    BY <1>1
  <2> DEFINE b == k * PAGESIZE
             d == j * PAGESIZE
  <2>2. d = b - q /\ b = E + HSIZE
    BY <1>1, <2>1
  <2> HIDE DEF b, d, F
  <2>3. F + HSIZE = d
    BY ONLY <1>1, <1>2, <2>2, q \in Nat
  <2>. QED
    BY <2>3 DEF d
<1> HIDE DEF j
<1>5. F + HSIZE \in Nat /\ F + HSIZE = j * PAGESIZE
  BY <1>1, <1>2, <1>4
<1>6. EndOK'
  BY <1>1, <1>2, <1>3, <1>5 DEF EndOK
<1>7. PageOf(F + HSIZE) = j
  <2> DEFINE y == F + HSIZE
             d == j * PAGESIZE
  <2>1. y \in Nat /\ y = d
    BY <1>5
  <2>2. PageOf(y) = j <=> d <= y /\ y < d + PAGESIZE
    BY <1>3, <2>1, PageIs
  <2> HIDE DEF y, d
  <2>3. PageOf(y) = j
    BY <1>1, <2>1, <2>2
  <2>. QED
    BY <2>3 DEF y
<1>8. \A p \in Nat : p \in mapped' <=> p \in mapped /\ ~(j <= p /\ p < k)
  <2> SUFFICES ASSUME NEW p \in Nat
               PROVE  (\E i \in 0 .. n - 1 : p = j + i) <=> j <= p /\ p < k
    BY <1>7
  <2>1. k = j + n
    BY <1>1 DEF j
  <2>2. ASSUME j <= p, p < k PROVE \E i \in 0 .. n - 1 : p = j + i
    <3>1. p - j \in 0 .. n - 1 /\ p = j + (p - j)
      BY <1>3, <2>1, <2>2
    <3>. QED
      BY <3>1
  <2>. QED
    BY <1>1, <1>3, <2>1, <2>2
<1>9. \A x \in Nat : /\ PageOf(x) \in Nat /\ (PageOf(x) < j <=> x < F + HSIZE)
                 /\ (PageOf(x) < k <=> x < E + HSIZE)
  <2> SUFFICES ASSUME NEW x \in Nat
               PROVE  /\ PageOf(x) \in Nat /\ (PageOf(x) < j <=> x < F + HSIZE)
                      /\ (PageOf(x) < k <=> x < E + HSIZE)
    OBVIOUS
  <2> DEFINE b == k * PAGESIZE
             d == j * PAGESIZE
  <2>1. (PageOf(x) < j <=> x < d) /\ (PageOf(x) < k <=> x < b) /\ PageOf(x) \in Nat
    BY <1>1, <1>3, PageBelow, PageIs
  <2>2. d = F + HSIZE /\ b = E + HSIZE
    BY <1>1, <1>4
  <2> HIDE DEF b, d, F
  <2>. QED
    BY <1>1, <1>2, <2>1, <2>2
<1>10. \A p \in Nat : p \in mapped \ stacks <=> \E x \in Nat : Mine(x) /\ PageOf(x) = p
  BY DEF Base, Whole, PagesOK
<1>11. \A p \in Nat : j <= p /\ p < k => p \notin stacks
  <2> SUFFICES ASSUME NEW p \in Nat, j <= p, p < k
               PROVE  p \notin stacks
    OBVIOUS
  <2> DEFINE x == p * PAGESIZE
  <2>1. x \in Nat /\ PageOf(x) = p
    <3>1. x \in Nat
      BY <1>1
    <3>. QED
      BY <1>1, <3>1, PageIs
  <2> HIDE DEF x
  <2>2. F + HSIZE <= x /\ x < E + HSIZE
    BY <1>1, <1>2, <1>3, <1>9, <2>1
  <2>3. Mine(x)
    BY <2>1, <2>2
  <2>. QED
    BY <1>10, <2>1, <2>3
<1>12. MapOK'
  <2>1. stacks' \subseteq mapped'
    BY <1>8, <1>11 DEF Base, Whole, MapOK
  <2>2. mapped' \subseteq mapped
    OBVIOUS
  <2>. QED
    BY <2>1, <2>2, UnmapsSome DEF Base, Whole
<1>13. PagesOK'
  <2> SUFFICES ASSUME NEW p \in Nat
               PROVE  p \in mapped' \ stacks' <=> \E x \in Nat : Mine(x)' /\ PageOf(x) = p
    BY DEF PagesOK, PageOf
  <2>1. \A x \in Nat : Mine(x)' <=> Mine(x) /\ x < F + HSIZE
    OBVIOUS
  <2>2. \A x \in Nat : Mine(x) => x < E + HSIZE
    BY DEF Mine
  <2>3. p \in mapped' \ stacks' <=> p \in mapped \ stacks /\ ~(j <= p /\ p < k)
    BY <1>8
  <2>4. ASSUME p \in mapped \ stacks, ~(j <= p /\ p < k)
        PROVE  \E x \in Nat : Mine(x)' /\ PageOf(x) = p
    <3>1. PICK x \in Nat : Mine(x) /\ PageOf(x) = p
      BY <1>10, <2>4
    <3>2. p < k
      BY <1>9, <2>2, <3>1
    <3>3. x < F + HSIZE
      BY <1>1, <1>3, <1>9, <2>4, <3>1, <3>2
    <3>. QED
      BY <2>1, <3>1, <3>3
  <2>5. ASSUME NEW x \in Nat, Mine(x)', PageOf(x) = p
        PROVE  p \in mapped \ stacks /\ ~(j <= p /\ p < k)
    <3>1. Mine(x) /\ p < j
      BY <1>9, <2>1, <2>5
    <3>. QED
      BY <1>1, <1>3, <1>10, <2>5, <3>1
  <2>. QED
    BY <2>3, <2>4, <2>5
<1>. QED
  BY <1>6, <1>12, <1>13

\* What is left of move after the free of a.
MoveAfter(a) == (a # move.from /\ move' = move) \/ move' = NoMove

LEMMA HeldLess ==
    ASSUME HeldOK, NEW a \in DOMAIN held, held' = Restrict(held, DOMAIN held \ {a}), MoveAfter(a),
           HSIZE \in Nat,
           \A x \in DOMAIN held \ {a} :
               x - HSIZE \in DOMAIN chunks' /\ chunks'[x - HSIZE] = chunks[x - HSIZE]
    PROVE  HeldOK'
<1>1. DOMAIN held' = DOMAIN held \ {a} /\ \A x \in DOMAIN held \ {a} : held'[x] = held[x]
  BY DEF Restrict
<1>2. DOMAIN held' \subseteq Nat
  BY <1>1 DEF HeldOK
<1>3. Holds'
  BY <1>1 DEF HeldOK, Holds
<1>4. /\ NoMove \in Moves
      /\ NoMove.pc = "none" /\ NoMove.from = NoChunk
  BY DEF NoMove, NoChunk, Moves
<1>5. /\ move' \in Moves
      /\ move'.pc = "none" => move'.from = NoChunk
      /\ move'.pc # "none" => move'.from \in DOMAIN held'
  <2>1. CASE move' = NoMove
    BY <1>4, <2>1
  <2>2. CASE move' = move /\ a # move.from
    BY <1>1, <2>2 DEF HeldOK
  <2>. QED
    BY <2>1, <2>2 DEF MoveAfter
<1>. QED
  BY <1>2, <1>3, <1>5 DEF HeldOK

LEMMA FreeOK ==
    ASSUME Base, Whole, NEW a \in DOMAIN held, free(a), MoveAfter(a), intact, intact'
    PROVE  Base' /\ Whole'
<1> DEFINE c == a - HSIZE
           stop == FreeRunEnd(c)
           nPages == IF stop = endOfChunks THEN (stop - c) \div PAGESIZE ELSE 0
           size == stop - c - nPages * PAGESIZE
           gone == {x \in DOMAIN chunks : c < x /\ x < stop} \cup IF size = 0 THEN {c} ELSE {}
           D == DOMAIN chunks
           q == nPages * PAGESIZE
<1>1. /\ mallocReady
      /\ chunks' = [x \in D \ gone |-> IF x = c THEN Chunk(size) ELSE chunks[x]]
      /\ endOfChunks' = endOfChunks - q
      /\ totalMemAllocated' = totalMemAllocated - (chunks[c].size - HSIZE)
      /\ mapped' = mapped \ {PageOf(endOfChunks' + HSIZE) + i : i \in 0 .. nPages - 1}
      /\ held' = Restrict(held, DOMAIN held \ {a})
      /\ Called(RoomFor(size))
      /\ UNCHANGED <<stacks, call, cpu>>
  BY DEF free, Freeing
<1>2. /\ Tiles(chunks, endOfChunks) /\ call.pc # "grow" /\ c \in D /\ c \in Nat /\ c + HSIZE = a
      /\ chunks[c].used /\ ~chunks[c].notOurs /\ chunks[c].size \in Nat /\ HSIZE \in Nat \ {0}
      /\ endOfChunks \in Nat
  BY <1>1, HeldIs
<1> HIDE DEF c
<1>3. /\ stop \in D \cup {endOfChunks} /\ stop \in Nat /\ c < stop /\ stop <= endOfChunks
      /\ \A x \in D : c < x /\ x < stop => ~chunks[x].used
  BY <1>2, RunIs
<1> HIDE DEF stop
<1>4. D \subseteq Nat
  BY <1>2 DEF Tiles
<1>5. PAGESIZE \in Nat \ {0}
  BY Scales
<1>6. nPages \in Nat /\ q \in Nat /\ q <= stop - c /\ (stop # endOfChunks => q = 0)
  <2> DEFINE m == stop - c
             d == m \div PAGESIZE
             b == d * PAGESIZE
  <2>1. m \in Nat
    BY <1>2, <1>3
  <2>2. d \in Nat /\ m = PAGESIZE * d + (m % PAGESIZE) /\ m % PAGESIZE \in Nat
    BY <1>5, <2>1
  <2>3. b \in Nat /\ b = PAGESIZE * d
    BY <1>5, <2>2
  <2> HIDE DEF b, d
  <2>4. b <= m
    BY <2>1, <2>2, <2>3
  <2>5. CASE stop = endOfChunks
    <3>1. nPages = d /\ q = b
      BY <2>5 DEF b, d
    <3>. QED
      BY <2>2, <2>3, <2>4, <2>5, <3>1
  <2>6. CASE stop # endOfChunks
    <3>1. nPages = 0 /\ 0 * PAGESIZE = 0
      BY <1>5, <2>6
    <3>2. q = 0
      BY <3>1
    <3>. QED
      BY <2>1, <3>1, <3>2
  <2>. QED
    BY <2>5, <2>6
<1>7. size \in Nat /\ size = stop - c - q
  <2>1. size = stop - c - q
    OBVIOUS
  <2> HIDE DEF q, size
  <2>. QED
    BY <1>2, <1>3, <1>6, <2>1
<1> HIDE DEF q, size, nPages
<1>77. size # 0 => size >= HSIZE
  BY <1>1, WholeOnly DEF RoomFor
<1>8. \A x : x \in DOMAIN chunks' <=> x \in D /\ ~(c < x /\ x < stop) /\ (size = 0 => x # c)
  <2>1. DOMAIN chunks' = D \ gone
    BY <1>1
  <2>. QED
    BY <2>1
<1> HIDE DEF gone
<1>9. /\ c \in DOMAIN chunks' => chunks'[c] = Chunk(size)
      /\ \A x \in DOMAIN chunks' : x # c => chunks'[x] = chunks[x]
  BY <1>1
<1>10. size # 0 => c \in DOMAIN chunks'
  BY <1>2, <1>8
<1>11. c \in DOMAIN chunks' => /\ chunks'[c] \in Header /\ chunks'[c].size = size
                               /\ ~chunks'[c].used /\ ~chunks'[c].notOurs
  <2>1. /\ Chunk(size) \in Header /\ Chunk(size).size = size
        /\ ~Chunk(size).used /\ ~Chunk(size).notOurs
    BY ONLY <1>7 DEF Chunk, Header
  <2>. QED
    BY <1>9, <2>1, Zenon
<1>12. \A x \in D : x < c \/ stop <= x => x \in DOMAIN chunks' /\ chunks'[x] = chunks[x]
  <2> SUFFICES ASSUME NEW x \in D, x < c \/ stop <= x
               PROVE  x \in DOMAIN chunks' /\ chunks'[x] = chunks[x]
    OBVIOUS
  <2>1. ~(c < x /\ x < stop) /\ x # c
    BY <1>2, <1>3, <1>4
  <2>. QED
    BY <1>8, <1>9, <2>1
<1>13. Tiles(chunks', endOfChunks - q)
  <2>1. size # 0 => chunks'[c].size = size
    BY <1>10, <1>11
  <2>2. \A x \in D : x < c \/ stop <= x => chunks'[x].size = chunks[x].size
    BY <1>12
  <2>. QED
    BY ONLY <1>2, <1>3, <1>6, <1>7, <1>8, <2>1, <2>2, Trimmed
<1>14. \A x \in D : chunks[x].used /\ x # c => x \in DOMAIN chunks' /\ chunks'[x] = chunks[x]
  BY <1>3, <1>8, <1>9
<1>15. HeadersOK'
  BY <1>8, <1>9, <1>11, <1>77 DEF HeadersOK, Base, Whole
<1>16. HeldOK'
  <2>1. ASSUME NEW x \in DOMAIN held \ {a}
        PROVE  x - HSIZE \in DOMAIN chunks' /\ chunks'[x - HSIZE] = chunks[x - HSIZE]
    <3> DEFINE y == x - HSIZE
    <3>1. y \in D /\ chunks[y].used /\ y + HSIZE = x
      BY <1>1, HeldIs
    <3> HIDE DEF y
    <3>2. y # c
      BY <1>2, <3>1
    <3>. QED
      BY <1>14, <3>1, <3>2 DEF y
  <2>. QED
    BY <1>1, <1>2, <2>1, HeldLess DEF Base
<1>17. \A w \in D : chunks[w].notOurs => chunks[w].used
  BY DEF Base, Whole, HeadersOK
<1>18. \A x \in Nat : Mine(x)' <=> Mine(x) /\ x < endOfChunks' + HSIZE
  <2> SUFFICES ASSUME NEW x \in Nat
               PROVE  Mine(x)' <=> Mine(x) /\ x < endOfChunks' + HSIZE
    OBVIOUS
  <2> DEFINE Wrapped == \E w \in D : chunks[w].notOurs /\ w + HSIZE <= x /\ x < w + chunks[w].size
  <2>1. Mine(x) <=> x < endOfChunks + HSIZE /\ ~Wrapped
    BY DEF Mine
  <2>2. Mine(x)' <=> x < endOfChunks' + HSIZE /\ ~Wrapped
    <3>1. \A w \in D : chunks[w].notOurs => w \in DOMAIN chunks' /\ chunks'[w] = chunks[w]
      BY <1>2, <1>14, <1>17
    <3>2. \A w \in DOMAIN chunks' : chunks'[w].notOurs => w \in D /\ chunks'[w] = chunks[w]
      BY <1>8, <1>9, <1>11
    <3>. QED
      BY <3>1, <3>2 DEF Mine
  <2>3. x < endOfChunks' + HSIZE => x < endOfChunks + HSIZE
    BY <1>1, <1>2, <1>6
  <2> HIDE DEF Wrapped
  <2>. QED
    BY <2>1, <2>2, <2>3
<1>19. \A x \in Nat : endOfChunks' + HSIZE <= x /\ x < endOfChunks + HSIZE => Mine(x)
  <2> SUFFICES ASSUME NEW x \in Nat, endOfChunks' + HSIZE <= x, x < endOfChunks + HSIZE
               PROVE  Mine(x)
    OBVIOUS
  <2>1. q # 0 /\ stop = endOfChunks /\ c + HSIZE <= x
    <3>1. endOfChunks - q + HSIZE <= x
      BY <1>1
    <3>2. q # 0
      BY <1>2, <1>6, <3>1
    <3>3. stop = endOfChunks
      BY <1>6, <3>2
    <3>. QED
      BY <1>2, <1>3, <1>6, <3>1, <3>2, <3>3
  <2>2. ASSUME NEW w \in D, chunks[w].notOurs
        PROVE  ~(w + HSIZE <= x /\ x < w + chunks[w].size)
    <3>1. w \in Nat /\ chunks[w].size \in Nat /\ w + chunks[w].size <= endOfChunks
          /\ chunks[w].size # 0
      BY <1>2, PlaceIs
    <3>2. w < c
      <4>1. w # c /\ chunks[w].used
        BY <1>2, <1>17, <2>2
      <4>2. ~(c < w)
        BY <1>2, <1>3, <2>1, <3>1, <4>1
      <4>. QED
        BY <1>2, <3>1, <4>1, <4>2
    <3>3. w + chunks[w].size <= c
      BY <1>2, <3>2, Neighbours
    <3>. QED
      BY <1>2, <2>1, <3>1, <3>3
  <2>. QED
    BY <2>2 DEF Mine
<1>20. EndOK' /\ MapOK' /\ PagesOK'
  <2>1. q = nPages * PAGESIZE /\ q <= endOfChunks /\ stacks' = stacks
    <3>1. q <= endOfChunks
      BY <1>2, <1>3, <1>6
    <3>. QED
      BY <1>1, <3>1 DEF q
  <2>. QED
    BY <1>1, <1>6, <1>18, <1>19, <2>1, FreePages
<1>21. call' \in CallType /\ CallOK' /\ ListEnd' = endOfChunks'
  BY <1>1 DEF Base, Whole, CallOK, mallocReady, ListEnd
<1>22. Tiles(chunks, ListEnd)'
  BY <1>1, <1>13, <1>21
<1>23. totalMemAllocated' \in Int
  BY <1>1, <1>2 DEF Base, Whole
<1>. QED
  BY <1>1, <1>15, <1>16, <1>20, <1>21, <1>22, <1>23 DEF Base, Whole

-----------------------------------------------------------------------------
(***************************************************************************)
(* The other steps.                                                        *)
(***************************************************************************)

\* What is true of a state that runs on.
Order == Whole \/ Doomed \/ Dead

\* A step that leaves the memory and the list alone.
LEMMA SameBase ==
    ASSUME Base, HeldOK', call' \in CallType,
           UNCHANGED <<chunks, endOfChunks, totalMemAllocated, mapped, stacks>>
    PROVE  Base'
  BY DEF Base, HeadersOK, EndOK, MapOK

LEMMA SameOrder ==
    ASSUME Base, Order, UNCHANGED <<chunks, endOfChunks, mapped, stacks, call>>
    PROVE  Order'
<1>1. CASE Whole
  <2>1. PagesOK'
    BY <1>1, SamePages DEF Whole
  <2>2. Tiles(chunks, ListEnd)' /\ CallOK'
    BY <1>1 DEF Whole, ListEnd, CallOK
  <2>. QED
    BY <2>1, <2>2 DEF Whole, Order
<1>2. CASE Doomed
  BY <1>2 DEF Doomed, Order
<1>3. CASE Dead
  BY <1>3 DEF Dead, Order
<1>. QED
  BY <1>1, <1>2, <1>3 DEF Order

\* A step that only stops the kernel, or does nothing.
LEMMA StopsOK ==
    ASSUME Base,
           UNCHANGED <<chunks, endOfChunks, totalMemAllocated, mapped, stacks, held, call, move>>
    PROVE  Base'
<1>1. HeldOK'
  BY SameHeld DEF Base
<1>. QED
  BY <1>1, SameBase DEF Base

\* malloc(n) begins, for a caller or for a realloc.
LEMMA BeginsOK ==
    ASSUME Base, Whole, mallocReady, NEW n \in Nat,
           call' = [Idle EXCEPT !.pc = "walk", !.size = n,
                                !.nextUnmapped = getUnmappedVAddr(mapped)],
           HeldOK',
           UNCHANGED <<chunks, endOfChunks, totalMemAllocated, mapped, stacks>>
    PROVE  Base' /\ Whole'
<1>1. call' \in CallType /\ CallOK' /\ Tiles(chunks, ListEnd)'
  BY CallBegins
<1>2. PagesOK'
  BY SamePages DEF Whole
<1>3. Base'
  BY <1>1, SameBase
<1>. QED
  BY <1>1, <1>2, <1>3 DEF Whole

LEMMA MallocOK == ASSUME Base, Whole, NEW n \in Sizes, malloc(n) PROVE Base' /\ Whole'
<1>1. n \in Nat
  BY Scales
<1>2. /\ mallocReady
      /\ call' = [Idle EXCEPT !.pc = "walk", !.size = n, !.nextUnmapped = getUnmappedVAddr(mapped)]
      /\ UNCHANGED <<chunks, endOfChunks, totalMemAllocated, mapped, stacks, held, move, cpu>>
  BY DEF malloc, memVars
<1>3. HeldOK'
  BY <1>2, SameHeld DEF Base
<1>. QED
  BY <1>1, <1>2, <1>3, BeginsOK

\* A realloc ends without having freed: what it would have freed is in use for ever.
LEMMA MoveEnds ==
    ASSUME HeldOK, move' = NoMove, held' = held, Holds'
    PROVE  HeldOK'
<1>1. NoMove \in Moves /\ NoMove.pc = "none" /\ NoMove.from = NoChunk
  BY DEF NoMove, NoChunk, Moves
<1>. QED
  BY <1>1 DEF HeldOK

LEMMA MoveMallocOK == ASSUME Base, Order, moveMalloc PROVE Base' /\ Order'
<1>1. /\ move \in Moves
      /\ move.pc = "begin" /\ move.from \in DOMAIN held
      /\ UNCHANGED <<chunks, endOfChunks, totalMemAllocated, mapped, stacks, held>>
  BY DEF moveMalloc, Base, HeldOK, memVars
<1>2. CASE mallocReady
  <2>1. /\ call' = [Idle EXCEPT !.pc = "walk", !.size = move.size,
                                !.nextUnmapped = getUnmappedVAddr(mapped)]
        /\ move' = [move EXCEPT !.pc = "malloc"]
    BY <1>2 DEF moveMalloc
  <2>2. /\ move' \in Moves
        /\ move'.pc = "malloc" /\ move'.from = move.from /\ move'.size = move.size
        /\ move.size \in Nat
    BY <1>1, <2>1 DEF Moves
  <2>3. HeldOK'
    BY <1>1, <2>2 DEF Base, HeldOK, Holds
  <2>4. Whole
    BY <1>2 DEF Order, Doomed, Dead, mallocReady
  <2>. QED
    BY <1>1, <1>2, <2>1, <2>2, <2>3, <2>4, BeginsOK DEF Order
<1>3. CASE ~mallocReady
  <2>1. (move' = NoMove \/ move' = move) /\ call' = call
    BY <1>3 DEF moveMalloc
  <2>2. Holds'
    BY <1>1 DEF Base, HeldOK, Holds
  <2>3. HeldOK'
    BY <1>1, <2>1, <2>2, MoveEnds DEF Base, HeldOK
  <2>4. call' \in CallType
    BY <2>1 DEF Base
  <2>. QED
    BY <1>1, <2>1, <2>3, <2>4, SameBase, SameOrder
<1>. QED
  BY <1>2, <1>3

\* realloc decides to move: what the caller holds is realloc's to free.
LEMMA ReallocMoveOK ==
    ASSUME Base, Order, NEW a \in Held, NEW n \in Sizes, reallocMove(a, n)
    PROVE  Base' /\ Order'
<1>1. n \in Nat
  BY Scales
<1>2. /\ move' = [pc |-> "begin", from |-> a, size |-> n]
      /\ UNCHANGED <<chunks, endOfChunks, totalMemAllocated, mapped, stacks, held, call, cpu>>
  BY DEF reallocMove, memVars
<1>3. a \in DOMAIN held /\ a \in Nat
  BY DEF Held, Base, HeldOK
<1>4. /\ move' \in Moves
      /\ move'.pc = "begin" /\ move'.from = a /\ move'.size = n
  BY <1>1, <1>2, <1>3 DEF Moves
<1>5. HeldOK'
  BY <1>1, <1>2, <1>3, <1>4 DEF Base, HeldOK, Holds
<1>6. call' \in CallType
  BY <1>2 DEF Base
<1>. QED
  BY <1>2, <1>5, <1>6, SameBase, SameOrder

\* free while malloc runs: the chunk stays in use, and is lost.
LEMMA FreeRefusedOK ==
    ASSUME Base, Order, NEW a \in DOMAIN held, freeRefused(a), MoveAfter(a)
    PROVE  Base' /\ Order'
<1>1. /\ held' = Restrict(held, DOMAIN held \ {a})
      /\ UNCHANGED <<chunks, endOfChunks, totalMemAllocated, mapped, stacks, call, cpu>>
  BY DEF freeRefused, memVars
<1>2. \A x \in DOMAIN held : x - HSIZE \in DOMAIN chunks
  BY DEF Base, HeldOK, Holds
<1>3. HeldOK'
  BY <1>1, <1>2, Scales, HeldLess DEF Base
<1>4. call' \in CallType
  BY <1>1 DEF Base
<1>. QED
  BY <1>1, <1>3, <1>4, SameBase, SameOrder

\* free of what no chunk in use is for, or that meets a chunk of size 0.
LEMMA FreePanicOK ==
    ASSUME Base, NEW a \in DOMAIN held, freePanic(a), MoveAfter(a)
    PROVE  Base' /\ cpu' = "halt"
<1>1. /\ cpu' = "halt" /\ call' = call
      /\ UNCHANGED <<chunks, endOfChunks, totalMemAllocated, mapped, stacks, held>>
  BY DEF freePanic, memVars
<1>2. Holds'
  BY <1>1 DEF Base, HeldOK, Holds
<1>3. HeldOK' /\ call' \in CallType
  BY <1>1, <1>2, MoveEnds DEF MoveAfter, Base, HeldOK
<1>. QED
  BY <1>1, <1>3, SameBase

\* In a list that is whole, no chunk ends behind endOfChunks.
LEMMA NoneRunsPast ==
    ASSUME Base, Whole, NEW a \in DOMAIN held
    PROVE  ~freePast(a)
<1> SUFFICES ASSUME freePast(a)
             PROVE  FALSE
  OBVIOUS
<1>1. mallocReady /\ RunsPast(a - HSIZE) # {}
  BY DEF freePast, Freeing
<1>2. Tiles(chunks, endOfChunks)
  BY <1>1 DEF Whole, ListEnd, mallocReady
<1>3. PICK x \in DOMAIN chunks : x + chunks[x].size > endOfChunks
  BY <1>1 DEF RunsPast, FreeRun
<1>4. x + chunks[x].size <= endOfChunks /\ endOfChunks \in Nat /\ x + chunks[x].size \in Nat
  BY <1>2, PlaceIs
<1>. QED
  BY <1>3, <1>4

\* A page fault in malloc.
LEMMA FaultsOK ==
    ASSUME Base, Faults, HeadersOK',
           \A c \in DOMAIN chunks : chunks[c].used /\ ~chunks[c].notOurs =>
               c \in DOMAIN chunks' /\ chunks'[c] = chunks[c]
    PROVE  Base' /\ (Dead' \/ cpu' = "fault")
<1>1. UNCHANGED <<endOfChunks, totalMemAllocated, mapped, stacks, held>>
  BY DEF Faults, memVars
<1>2. /\ EndOK' /\ MapOK' /\ totalMemAllocated' \in Int
  BY <1>1 DEF Base, EndOK, MapOK
<1>3. Holds'
  BY <1>1 DEF Base, HeldOK, Holds
<1>4. CASE call' = [call EXCEPT !.pc = "dead"] /\ move' = IF move.pc = "malloc" THEN NoMove ELSE move
  <2>1. call' \in CallType /\ call'.pc = "dead"
    BY <1>4 DEF Base, CallType
  <2>2. HeldOK'
    <3>1. CASE move' = NoMove
      BY <1>1, <1>3, <3>1, MoveEnds DEF Base
    <3>2. CASE move' = move
      BY <1>1, <1>3, <3>2 DEF Base, HeldOK
    <3>. QED
      BY <1>4, <3>1, <3>2
  <2>. QED
    BY <1>2, <2>1, <2>2 DEF Base, Dead
<1>5. CASE cpu' = "fault" /\ UNCHANGED <<call, move>>
  <2>1. HeldOK'
    BY <1>1, <1>3, <1>5 DEF Base, HeldOK
  <2>. QED
    BY <1>2, <1>5, <2>1 DEF Base
<1>. QED
  BY <1>4, <1>5 DEF Faults

\* A page fault that leaves the list as it is.
LEMMA FaultsOnly ==
    ASSUME Base, Faults, chunks' = chunks
    PROVE  Base' /\ (Dead' \/ cpu' = "fault")
<1>1. HeadersOK'
  BY DEF Base, HeadersOK
<1>. QED
  BY <1>1, FaultsOK

LEMMA GrowFaultsOK ==
    ASSUME Base, GrowFaults
    PROVE  Base' /\ (Dead' \/ cpu' = "fault")
<1>1. CASE chunks' = chunks /\ Faults
  BY <1>1, FaultsOnly
<1>2. CASE /\ cpu' = "fault"
           /\ UNCHANGED <<chunks, endOfChunks, totalMemAllocated, mapped, stacks, held, call, move>>
  BY <1>2, StopsOK
<1>. QED
  BY <1>1, <1>2 DEF GrowFaults, memVars

LEMMA TakeFaultsOK ==
    ASSUME Base, Whole, TakeFaults
    PROVE  Base' /\ (Dead' \/ cpu' = "fault")
<1> DEFINE c == call.chunk
<1>1. /\ c \in DOMAIN chunks /\ ~chunks[c].used /\ Faults
      /\ chunks' = [chunks EXCEPT ![c].used = TRUE]
  BY FoundIs DEF TakeFaults
<1> HIDE DEF c
<1>2. /\ DOMAIN chunks' = DOMAIN chunks
      /\ \A x \in DOMAIN chunks : x # c => chunks'[x] = chunks[x]
      /\ chunks'[c] = [chunks[c] EXCEPT !.used = TRUE]
  BY <1>1
<1>3. chunks[c] \in Header /\ chunks[c].size >= HSIZE
  BY <1>1 DEF Base, HeadersOK
<1>4. chunks'[c] \in Header /\ chunks'[c].size = chunks[c].size /\ chunks'[c].used
  BY <1>2, <1>3 DEF Header
<1>5. HeadersOK'
  BY <1>2, <1>3, <1>4 DEF Base, HeadersOK
<1>. QED
  BY <1>1, <1>2, <1>5, FaultsOK

\* The stack of a task comes or goes: the pages that are malloc's stay.
LEMMA StacksOK ==
    ASSUME Base, MapOK', mapped' \ stacks' = mapped \ stacks,
           UNCHANGED <<chunks, endOfChunks, totalMemAllocated, held, call, move, cpu>>
    PROVE  Base' /\ (Whole => Whole')
<1>1. \A x \in Nat : Mine(x)' <=> Mine(x)
  BY DEF Mine
<1>2. PagesOK => PagesOK'
  BY <1>1 DEF PagesOK, PageOf
<1>3. HeldOK'
  BY SameHeld DEF Base
<1>4. HeadersOK' /\ EndOK' /\ (Tiles(chunks, ListEnd) => Tiles(chunks, ListEnd)') /\ (CallOK => CallOK')
  BY DEF Base, HeadersOK, ListEnd, EndOK, CallOK
<1>. QED
  BY <1>2, <1>3, <1>4 DEF Base, Whole

LEMMA StackMapOK == ASSUME Base, Order, StackMap PROVE Base' /\ Order'
<1> DEFINE p == getUnmappedVAddr(mapped)
<1>1. /\ CanMap(p) /\ mapped' = mapped \cup {p} /\ stacks' = stacks \cup {p} /\ mallocReady
      /\ UNCHANGED <<chunks, endOfChunks, totalMemAllocated, held, call, move, cpu>>
  BY DEF StackMap
<1>2. p \in Nat /\ p \notin mapped
  BY UnmappedIs DEF Base, MapOK
<1> HIDE DEF p
<1>3. stacks' \subseteq mapped' /\ mapped' \ stacks' = mapped \ stacks
  BY <1>1, <1>2 DEF Base, MapOK
<1>4. MapOK'
  BY <1>1, <1>2, <1>3, MapsOne DEF Base
<1>5. Whole
  BY <1>1 DEF Order, Doomed, Dead, mallocReady
<1>. QED
  BY <1>1, <1>3, <1>4, <1>5, StacksOK DEF Order

LEMMA StackUnmapOK == ASSUME Base, Order, NEW p \in stacks, StackUnmap(p) PROVE Base' /\ Order'
<1>1. /\ mapped' = mapped \ {p} /\ stacks' = stacks \ {p}
      /\ UNCHANGED <<chunks, endOfChunks, totalMemAllocated, held, call, move, cpu>>
  BY DEF StackUnmap
<1>2. mapped' \subseteq mapped /\ stacks' \subseteq mapped' /\ mapped' \ stacks' = mapped \ stacks
  BY <1>1 DEF Base, MapOK
<1>3. MapOK'
  BY <1>2, UnmapsSome DEF Base
<1>4. Doomed => Doomed'
  BY <1>1, <1>2 DEF Doomed
<1>5. Dead => Dead'
  BY <1>1 DEF Dead
<1>. QED
  BY <1>1, <1>2, <1>3, <1>4, <1>5, StacksOK DEF Order

-----------------------------------------------------------------------------
(***************************************************************************)
(* A malloc that has no frame for the page behind a wrapper.               *)
(***************************************************************************)

\* It maps more pages, and that one is not among them.
LEMMA DoomedGrowPage == ASSUME Base, Doomed, GrowPage PROVE Base' /\ Doomed'
<1> DEFINE k == PageOf(endOfChunks + HSIZE)
           E == endOfChunks
<1>1. /\ call.needToAlloc > 0 /\ CanMap(k) /\ mapped' = mapped \cup {k}
      /\ chunks' = chunks /\ endOfChunks' = E + PAGESIZE
      /\ call' = [call EXCEPT !.totalAlloced = @ + PAGESIZE,
                              !.needToAlloc = @ - Min({@, PAGESIZE})]
      /\ UNCHANGED <<totalMemAllocated, stacks, held, move, cpu>>
  BY DEF GrowPage, Growing, Doomed
<1>2. /\ HSIZE \in Nat \ {0} /\ PAGESIZE \in Nat /\ PAGESIZE > 2 * HSIZE /\ E \in Nat
      /\ k \in Nat /\ E + HSIZE = k * PAGESIZE
  BY EndIs DEF Base
<1>3. call \in CallType /\ call.needToAlloc \in Nat /\ call.totalAlloced \in Nat
  BY DEF Base, CallType
<1> DEFINE m == Min({call.needToAlloc, PAGESIZE})
           t == call.totalAlloced + PAGESIZE
           d == call.needToAlloc - m
<1>4. m \in Nat /\ m <= call.needToAlloc
  BY <1>2, <1>3, TwoSizes
<1>5. t \in Nat /\ t # 0 /\ d \in Nat
  BY <1>2, <1>3, <1>4
<1>6. call' = [call EXCEPT !.totalAlloced = t, !.needToAlloc = d]
  BY <1>1
<1> HIDE DEF t, d, m
<1>7. /\ call' \in CallType /\ call'.pc = call.pc /\ call'.other = call.other
      /\ call'.oldEnd = call.oldEnd /\ call'.totalAlloced = t
  BY <1>3, <1>5, <1>6 DEF CallType
<1>8. PICK u \in Nat \ mapped :
          call.oldEnd = u * PAGESIZE /\ u * PAGESIZE + PAGESIZE <= E + HSIZE
  BY DEF Doomed
<1> HIDE DEF k
<1>9. u # k
  <2> DEFINE b == k * PAGESIZE
  <2>1. b \in Nat /\ b = E + HSIZE
    BY <1>2
  <2> SUFFICES ASSUME u = k PROVE FALSE
    OBVIOUS
  <2>2. b + PAGESIZE <= b
    BY <1>8, <2>1
  <2> HIDE DEF b
  <2>. QED
    BY <1>2, <2>1, <2>2
<1>10. u * PAGESIZE + PAGESIZE <= endOfChunks' + HSIZE
  <2> DEFINE b == u * PAGESIZE
  <2>1. b \in Nat /\ b + PAGESIZE <= E + HSIZE
    BY <1>2, <1>8
  <2> HIDE DEF b
  <2>2. b + PAGESIZE <= endOfChunks' + HSIZE
    BY <1>1, <1>2, <2>1
  <2>. QED
    BY <2>2 DEF b
<1>11. Doomed'
  <2>1. u \in Nat \ mapped' /\ call'.oldEnd = u * PAGESIZE
    BY <1>1, <1>7, <1>8, <1>9
  <2>2. /\ call'.pc = "grow" /\ call'.totalAlloced # 0
        /\ call'.other \in DOMAIN chunks' /\ chunks'[call'.other].used
    BY <1>1, <1>5, <1>7 DEF Doomed
  <2>. QED
    BY <1>10, <2>1, <2>2 DEF Doomed
<1>12. EndOK'
  <2>1. (k + 1) * PAGESIZE = k * PAGESIZE + PAGESIZE
    BY <1>2
  <2> DEFINE b == k * PAGESIZE
             g == (k + 1) * PAGESIZE
  <2>2. b = E + HSIZE /\ g = b + PAGESIZE
    BY <1>2, <2>1
  <2> HIDE DEF b, g
  <2>3. endOfChunks' \in Nat /\ endOfChunks' + HSIZE = g
    BY <1>1, <1>2, <2>2
  <2>4. k + 1 \in Nat
    BY <1>2
  <2>. QED
    BY <2>3, <2>4 DEF EndOK, g
<1>13. MapOK'
  <2>1. stacks' \subseteq mapped'
    BY <1>1 DEF Base, MapOK
  <2>. QED
    BY <1>1, <1>2, <2>1, MapsOne DEF Base
<1>14. HeldOK'
  BY <1>1, SameHeld DEF Base
<1>15. HeadersOK' /\ totalMemAllocated' \in Int
  BY <1>1 DEF Base, HeadersOK
<1>. QED
  BY <1>7, <1>11, <1>12, <1>13, <1>14, <1>15 DEF Base

\* Otherwise it meets that page when it writes the header of the new chunk, or leaves
\* the pages that it has mapped without a header.
LEMMA DoomedStep ==
    ASSUME Base, Doomed, MallocStep, intact, intact'
    PROVE  Base' /\ (Doomed' \/ Dead' \/ cpu' = "fault")
<1>1. call.pc = "grow" /\ call.totalAlloced # 0 /\ chunks[call.other].used
  BY DEF Doomed
<1>2. ~GrowTakesNew
  <2> SUFFICES ASSUME GrowTakesNew PROVE FALSE
    OBVIOUS
  <2>1. PageOf(call.oldEnd) \in mapped
    BY DEF GrowTakesNew
  <2>2. PICK u \in Nat \ mapped : call.oldEnd = u * PAGESIZE
    BY DEF Doomed
  <2> DEFINE b == u * PAGESIZE
  <2>3. PAGESIZE \in Nat \ {0} /\ b \in Nat
    BY Scales
  <2>4. PageOf(b) = u <=> b <= b /\ b < b + PAGESIZE
    BY <2>3, PageIs
  <2>5. b <= b /\ b < b + PAGESIZE
    <3> HIDE DEF b
    <3>. QED
      BY <2>3
  <2>. QED
    BY <2>1, <2>2, <2>4, <2>5
<1>3. ~GrowWrap
  <2> SUFFICES ASSUME GrowWrap PROVE FALSE
    OBVIOUS
  <2> DEFINE lost == IF chunks[call.other].used /\ call.totalAlloced > 0
                     THEN {call.oldEnd} ELSE {}
  <2>1. Keeps(lost = {} /\ Diff >= 0)
    BY DEF GrowWrap
  <2>2. lost # {}
    <3>1. call.totalAlloced \in Nat
      BY DEF Base, CallType
    <3>. QED
      BY <1>1, <3>1
  <2> HIDE DEF lost
  <2>3. broken' = 1
    BY <2>1, <2>2 DEF Keeps
  <2>. QED
    BY <2>3 DEF intact
<1>4. ~GrowTakesOther /\ ~GrowPanic
  BY <1>1 DEF GrowTakesOther, GrowPanic
<1>5. ~Take /\ ~TakeFaults
  BY <1>1 DEF Take, TakeFaults, Found
<1>6. ~(WalkNull \/ WalkMerge \/ WalkNext \/ WalkReclaim \/ WalkPanic \/ WalkPast)
  BY <1>1 DEF WalkNull, WalkMerge, WalkNext, WalkReclaim, WalkPanic, WalkPast, Walking
<1>7. GrowPage \/ GrowFaults
  BY <1>2, <1>3, <1>4, <1>5, <1>6 DEF MallocStep
<1>. QED
  BY <1>7, DoomedGrowPage, GrowFaultsOK

-----------------------------------------------------------------------------
(***************************************************************************)
(* Every step keeps the heap in order.                                     *)
(***************************************************************************)

\* Every way of realloc begins with the kernel running and malloc ready.
LEMMA ReallocNeeds == ASSUME NEW a, NEW n, realloc(a, n) PROVE Running /\ mallocReady
<1>1. CASE reallocShrink(a, n) \/ reallocNext(a, n) \/ reallocLost(a, n)
  <2>1. reallocShrink(a, n) => Resizing(a - HSIZE)
    BY DEF reallocShrink
  <2>2. reallocNext(a, n) => Resizing(a - HSIZE)
    BY DEF reallocNext
  <2>3. reallocLost(a, n) => Resizing(a - HSIZE)
    BY DEF reallocLost
  <2>. QED
    BY <1>1, <2>1, <2>2, <2>3 DEF Resizing
<1>2. CASE reallocPrevious(a, n) \/ reallocSmashes(a, n) \/ reallocMove(a, n)
  <2>1. reallocPrevious(a, n) => LooksBack(a - HSIZE, n)
    BY DEF reallocPrevious
  <2>2. reallocSmashes(a, n) => LooksBack(a - HSIZE, n)
    BY DEF reallocSmashes
  <2>3. reallocMove(a, n) => LooksBack(a - HSIZE, n)
    BY DEF reallocMove
  <2>. QED
    BY <1>2, <2>1, <2>2, <2>3 DEF LooksBack, Resizing
<1>3. CASE reallocPanic(a)
  BY <1>3 DEF reallocPanic
<1>. QED
  BY <1>1, <1>2, <1>3 DEF realloc

\* Once the kernel has stopped, nothing changes.
LEMMA HaltIs == ASSUME ~Running, [Next]_vars PROVE UNCHANGED vars
<1>1. \A a : ~release(a)
  BY DEF release, free, freePast, freePanic, freeRefused, Freeing
<1>2. \A a, n : ~realloc(a, n)
  BY ReallocNeeds
<1>3. ~MallocStep
  BY DEF MallocStep, WalkNull, WalkMerge, WalkNext, WalkReclaim, WalkPanic, WalkPast, Walking,
         GrowPage, GrowWrap, GrowTakesOther, GrowPanic, GrowTakesNew, GrowFaults, Growing, Grown,
         Take, TakeFaults, Found
<1>4. ~moveMalloc /\ ~moveFree /\ ~StackMap /\ (\A p : ~StackUnmap(p)) /\ (\A n : ~malloc(n))
      /\ ~mallocRefused
  BY <1>1 DEF moveMalloc, moveFree, StackMap, StackUnmap, malloc, mallocRefused
<1>. QED
  BY <1>1, <1>2, <1>3, <1>4 DEF Next, Halt, Unfollowed

\* After a call, the list is whole, or the kernel has stopped.
Kept == Base' /\ (Order' \/ cpu' # "run")

LEMMA MallocStepOK ==
    ASSUME Base, Order, MallocStep, intact, intact'
    PROVE  Kept
<1>1. CASE Dead
  <2>1. FALSE
    BY <1>1 DEF MallocStep, WalkNull, WalkMerge, WalkNext, WalkReclaim, WalkPanic, WalkPast, Walking,
         GrowPage, GrowWrap, GrowTakesOther, GrowPanic, GrowTakesNew, GrowFaults, Growing, Grown,
         Take, TakeFaults, Found, Dead
  <2>. QED
    BY <2>1
<1>2. CASE Doomed
  BY <1>2, DoomedStep DEF Kept, Order
<1>3. CASE Whole
  <2>1. CASE WalkPanic \/ GrowPanic \/ WalkNull \/ WalkPast
    BY <2>1, StopsOK DEF WalkPanic, GrowPanic, WalkNull, WalkPast, memVars, Kept
  <2>2. CASE GrowFaults
    BY <2>2, GrowFaultsOK DEF Kept, Order
  <2>3. CASE TakeFaults
    BY <1>3, <2>3, TakeFaultsOK DEF Kept, Order
  <2>4. CASE GrowWrap
    BY <1>3, <2>4, GrowWrapOK DEF Kept, Order
  <2>5. CASE WalkMerge \/ WalkNext \/ WalkReclaim \/ GrowPage \/ GrowTakesOther \/ GrowTakesNew \/ Take
    BY <1>3, <2>5, WalkMergeOK, WalkNextOK, WalkReclaimOK, GrowPageOK,
       GrowTakesOtherOK, GrowTakesNewOK, TakeOK DEF Kept, Order
  <2>. QED
    BY <2>1, <2>2, <2>3, <2>4, <2>5 DEF MallocStep
<1>. QED
  BY <1>1, <1>2, <1>3 DEF Order

LEMMA ReleaseOK ==
    ASSUME Base, Order, NEW a \in DOMAIN held, release(a), MoveAfter(a), intact, intact'
    PROVE  Kept
<1>1. CASE freePanic(a)
  BY <1>1, FreePanicOK DEF Kept
<1>2. CASE freeRefused(a)
  BY <1>2, FreeRefusedOK DEF Kept
<1>3. CASE free(a) \/ freePast(a)
  <2>1. Whole
    BY <1>3 DEF free, freePast, Freeing, Order, Doomed, Dead, mallocReady
  <2>. QED
    BY <1>3, <2>1, FreeOK, NoneRunsPast DEF Kept, Order
<1>. QED
  BY <1>1, <1>2, <1>3 DEF release

LEMMA ReallocOK ==
    ASSUME Base, Order, NEW a \in Held, NEW n \in Sizes, realloc(a, n), intact, intact'
    PROVE  Kept
<1>1. mallocReady
  BY ReallocNeeds
<1>5. Whole
  BY <1>1 DEF Order, Doomed, Dead, mallocReady
<1>2. CASE reallocSmashes(a, n)
  <2>1. FALSE
    BY <1>2, WholeOnly DEF reallocSmashes
  <2>. QED
    BY <2>1
<1>3. CASE reallocLost(a, n)
  BY <1>3, FaultsOnly DEF reallocLost, Kept, Order
<1>4. CASE reallocPanic(a)
  BY <1>4, StopsOK DEF reallocPanic, memVars, Kept
<1>. QED
  BY <1>2, <1>3, <1>4, <1>5, ReallocShrinkOK, ReallocNextOK, ReallocPreviousOK, ReallocMoveOK
     DEF realloc, Kept, Order

LEMMA StepIInv ==
    ASSUME IInv, [Next]_vars, intact, intact'
    PROVE  IInv'
<1>1. Base
  BY DEF IInv
<1>2. CASE UNCHANGED vars
  <2>1. Base' /\ cpu' = cpu
    BY <1>1, <1>2, StopsOK DEF vars, memVars
  <2>2. Running => Order'
    BY <1>1, <1>2, SameOrder DEF vars, memVars, IInv, Order
  <2>. QED
    BY <2>1, <2>2 DEF IInv, Order, Running
<1>3. CASE Running /\ Next /\ ~UNCHANGED vars
  <2>1. Base /\ Order /\ Next
    BY <1>3 DEF IInv, Order
  <2>2. ASSUME NEW n \in Sizes, malloc(n) PROVE Kept
    <3>1. Whole
      BY <2>1, <2>2 DEF malloc, Order, Doomed, Dead, mallocReady
    <3>. QED
      BY <2>1, <2>2, <3>1, MallocOK DEF Kept, Order
  <2>3. ASSUME MallocStep PROVE Kept
    BY <2>1, <2>3, MallocStepOK
  <2>4. ASSUME NEW a \in Held, release(a), UNCHANGED move PROVE Kept
    <3>1. a \in DOMAIN held /\ MoveAfter(a)
      BY <2>4 DEF Held, MoveAfter
    <3>. QED
      BY <2>1, <2>4, <3>1, ReleaseOK
  <2>5. ASSUME NEW a \in Held, NEW n \in Sizes, realloc(a, n) PROVE Kept
    BY <2>1, <2>5, ReallocOK
  <2>6. ASSUME moveMalloc PROVE Kept
    BY <2>1, <2>6, MoveMallocOK DEF Kept
  <2>7. ASSUME moveFree PROVE Kept
    <3>1. move.from \in DOMAIN held /\ MoveAfter(move.from) /\ release(move.from)
      BY <2>1, <2>7 DEF moveFree, Base, HeldOK, MoveAfter
    <3>. QED
      BY <2>1, <3>1, ReleaseOK
  <2>8. ASSUME StackMap PROVE Kept
    BY <2>1, <2>8, StackMapOK DEF Kept
  <2>9. ASSUME NEW p \in stacks, StackUnmap(p) PROVE Kept
    BY <2>1, <2>9, StackUnmapOK DEF Kept
  <2>10. Kept
    BY <1>3, <2>2, <2>3, <2>4, <2>5, <2>6, <2>7, <2>8, <2>9
       DEF Next, mallocRefused, Halt, Unfollowed
  <2>. QED
    BY <2>10 DEF Kept, IInv, Order, Running
<1>. QED
  BY <1>2, <1>3, HaltIs

\* A list that is not whole does not become so.
LEMMA BrokenStays ==
    ASSUME broken \in Nat, [Next]_vars
    PROVE  broken' \in Nat /\ (intact' => intact)
<1>1. ASSUME NEW w, Called(w) \/ Keeps(w) PROVE broken' \in Nat /\ (intact' => intact)
  BY <1>1 DEF Called, Keeps, intact
<1>2. ASSUME broken' = broken PROVE broken' \in Nat /\ (intact' => intact)
  BY <1>2 DEF intact
<1>3. ASSUME NEW a, release(a) PROVE broken' \in Nat /\ (intact' => intact)
  <2>1. CASE freeRefused(a)
    BY <1>2, <2>1 DEF freeRefused
  <2>2. CASE free(a) \/ freePast(a) \/ freePanic(a)
    BY <1>1, <2>2 DEF free, freePast, freePanic
  <2>. QED
    BY <1>3, <2>1, <2>2 DEF release
<1>4. ASSUME NEW a, NEW n, realloc(a, n) PROVE broken' \in Nat /\ (intact' => intact)
  <2>1. CASE reallocLost(a, n)
    BY <1>2, <2>1 DEF reallocLost, Faults
  <2>2. CASE ~reallocLost(a, n)
    BY <1>1, <1>4, <2>2 DEF realloc, reallocShrink, reallocNext, reallocPrevious, reallocSmashes,
       reallocMove, reallocPanic
  <2>. QED
    BY <2>1, <2>2
<1>5. CASE MallocStep
  <2>1. CASE GrowWrap \/ Take
    BY <1>1, <2>1 DEF GrowWrap, Take
  <2>2. CASE ~(GrowWrap \/ Take)
    <3>1. broken' = broken
      BY <1>5, <2>2 DEF MallocStep, WalkNull, WalkMerge, WalkNext, WalkReclaim, WalkPanic, WalkPast,
         GrowPage, GrowTakesOther, GrowPanic, GrowTakesNew, GrowFaults, TakeFaults, Faults
    <3>. QED
      BY <1>2, <3>1
  <2>. QED
    BY <2>1, <2>2
<1>6. ASSUME NEW n, malloc(n) PROVE broken' \in Nat /\ (intact' => intact)
  BY <1>1, <1>6 DEF malloc
<1>7. CASE moveMalloc \/ StackMap \/ (\E p : StackUnmap(p)) \/ UNCHANGED vars
  BY <1>2, <1>7 DEF moveMalloc, StackMap, StackUnmap, vars
<1>. QED
  BY <1>3, <1>4, <1>5, <1>6, <1>7 DEF Next, mallocRefused, moveFree, Halt, Unfollowed

\* Where malloc and realloc may be, also in a list that is not whole.
CallAt == "pc" \in DOMAIN call /\ call.pc \in {"idle", "walk", "past", "grow", "take", "dead"}
MoveAt == "pc" \in DOMAIN move /\ move.pc \in {"none", "begin", "malloc", "free"}
CpuAt  == cpu \in {"run", "halt", "fault"}

LEMMA ControlsStep == ASSUME Controls, [Next]_vars PROVE Controls'
<1> USE DEF Controls
<1>1. CallAt /\ MoveAt /\ CpuAt /\ broken \in Nat
  BY DEF CallAt, MoveAt, CpuAt
<1>2. broken' \in Nat
  BY BrokenStays
<1>3. Idle.pc = "idle" /\ "pc" \in DOMAIN Idle /\ NoMove.pc = "none" /\ "pc" \in DOMAIN NoMove
  BY DEF Idle, NoMove
<1> HIDE DEF Controls
<1>4. ASSUME Faults PROVE CallAt' /\ MoveAt' /\ CpuAt'
  BY <1>1, <1>3, <1>4 DEF Faults, CallAt, MoveAt, CpuAt
<1>5. ASSUME NEW a, release(a), MoveAfter(a) PROVE CallAt' /\ MoveAt' /\ CpuAt'
  <2>1. call' = call /\ (cpu' = cpu \/ cpu' = "halt")
    BY <1>5 DEF release, free, freePast, freePanic, freeRefused, Freeing
  <2>. QED
    BY <1>1, <1>3, <1>5, <2>1 DEF MoveAfter, CallAt, MoveAt, CpuAt
<1>6. ASSUME NEW a, NEW n, realloc(a, n) PROVE CallAt' /\ MoveAt' /\ CpuAt'
  <2>1. CASE reallocLost(a, n)
    BY <1>4, <2>1 DEF reallocLost
  <2>2. CASE reallocMove(a, n)
    <3>1. call' = call /\ cpu' = cpu /\ move' = [pc |-> "begin", from |-> a, size |-> n]
      BY <2>2 DEF reallocMove
    <3>. QED
      BY <1>1, <3>1 DEF CallAt, MoveAt, CpuAt
  <2>3. CASE reallocPanic(a)
    BY <1>1, <2>3 DEF reallocPanic, CallAt, MoveAt, CpuAt
  <2>4. CASE reallocShrink(a, n) \/ reallocNext(a, n) \/ reallocPrevious(a, n) \/ reallocSmashes(a, n)
    <3>1. UNCHANGED <<call, move, cpu>>
      BY <2>4 DEF reallocShrink, reallocNext, reallocPrevious, reallocSmashes, Resized
    <3>. QED
      BY <1>1, <3>1 DEF CallAt, MoveAt, CpuAt
  <2>. QED
    BY <1>6, <2>1, <2>2, <2>3, <2>4 DEF realloc
<1>7. ASSUME NEW n, call' = [Idle EXCEPT !.pc = "walk", !.size = n,
                                         !.nextUnmapped = getUnmappedVAddr(mapped)]
      PROVE  CallAt'
  BY <1>7 DEF Idle, CallAt
<1>8. ASSUME NEW f \in BOOLEAN, call.pc = "walk"
      PROVE  "pc" \in DOMAIN Advance(f) /\ Advance(f).pc \in {"walk", "past", "grow"}
  BY <1>1, <1>8 DEF Advance, CallAt
<1>9. CASE MallocStep
  <2>1. CASE WalkNull \/ WalkPanic \/ WalkPast \/ GrowPanic
    <3>1. UNCHANGED <<call, move>> /\ cpu' = "halt"
      BY <2>1 DEF WalkNull, WalkPanic, WalkPast, GrowPanic
    <3>. QED
      BY <1>1, <1>2, <3>1 DEF CallAt, MoveAt, CpuAt, Controls
  <2>2. CASE GrowFaults \/ TakeFaults
    <3>1. Faults \/ (cpu' = "fault" /\ UNCHANGED <<call, move>>)
      BY <2>2 DEF GrowFaults, TakeFaults
    <3>. QED
      BY <1>1, <1>2, <1>4, <3>1 DEF CallAt, MoveAt, CpuAt, Controls
  <2>3. CASE Take
    <3>1. call' = Idle /\ cpu' = cpu /\ move' = IF move.pc = "malloc" THEN [move EXCEPT !.pc = "free"] ELSE move
      BY <2>3 DEF Take
    <3>. QED
      BY <1>1, <1>2, <1>3, <3>1 DEF CallAt, MoveAt, CpuAt, Controls
  <2>4. CASE WalkNext \/ WalkReclaim
    <3>1. PICK f \in BOOLEAN : \/ call' = Advance(f)
                               \/ \E u : call' = [Advance(f) EXCEPT !.nextUnmapped = u]
      <4>1. CASE WalkNext
        <5>1. call' = Advance(~chunks[call.chunk].used)
          BY <4>1 DEF WalkNext
        <5>2. Advance(~chunks[call.chunk].used) = Advance(IF ~chunks[call.chunk].used THEN TRUE ELSE FALSE)
          BY DEF Advance
        <5>. QED
          BY <5>1, <5>2
      <4>2. CASE WalkReclaim
        BY <4>2 DEF WalkReclaim, CanMap
      <4>. QED
        BY <2>4, <4>1, <4>2
    <3>2. UNCHANGED <<move, cpu>> /\ call.pc = "walk"
      BY <2>4 DEF WalkNext, WalkReclaim, Walking
    <3>3. CallAt'
      BY <1>8, <3>1, <3>2 DEF CallAt
    <3>. QED
      BY <1>1, <1>2, <3>2, <3>3 DEF MoveAt, CpuAt, Controls, CallAt
  <2>5. CASE WalkMerge \/ GrowPage \/ GrowWrap \/ GrowTakesOther \/ GrowTakesNew
    <3>1. UNCHANGED <<move, cpu>>
      BY <2>5 DEF WalkMerge, GrowPage, GrowWrap, GrowTakesOther, GrowTakesNew
    <3>2. "pc" \in DOMAIN call' /\ call'.pc \in {call.pc, "take"}
      BY <1>1, <2>5 DEF WalkMerge, GrowPage, GrowWrap, GrowTakesOther, GrowTakesNew, CallAt
    <3>. QED
      BY <1>1, <1>2, <3>1, <3>2 DEF CallAt, MoveAt, CpuAt, Controls
  <2>. QED
    BY <1>9, <2>1, <2>2, <2>3, <2>4, <2>5 DEF MallocStep
<1>10. ASSUME NEW n, malloc(n) PROVE CallAt' /\ MoveAt' /\ CpuAt'
  BY <1>1, <1>7, <1>10 DEF malloc, MoveAt, CpuAt
<1>11. CASE moveMalloc
  <2>1. CallAt'
    BY <1>1, <1>7, <1>11 DEF moveMalloc, CallAt
  <2>2. MoveAt' /\ CpuAt'
    BY <1>1, <1>3, <1>11 DEF moveMalloc, MoveAt, CpuAt
  <2>. QED
    BY <1>2, <2>1, <2>2 DEF Controls, CallAt, MoveAt, CpuAt
<1>12. ASSUME UNCHANGED <<call, move, cpu>> PROVE CallAt' /\ MoveAt' /\ CpuAt'
  BY <1>1, <1>12 DEF CallAt, MoveAt, CpuAt
<1>13. CASE StackMap \/ (\E p : StackUnmap(p)) \/ UNCHANGED vars
  <2>1. UNCHANGED <<call, move, cpu>>
    BY <1>13 DEF StackMap, StackUnmap, vars
  <2>. QED
    BY <1>2, <1>12, <2>1 DEF Controls, CallAt, MoveAt, CpuAt
<1>14. CASE moveFree
  <2>1. release(move.from) /\ MoveAfter(move.from)
    BY <1>14 DEF moveFree, MoveAfter
  <2>. QED
    BY <1>2, <1>5, <2>1 DEF Controls, CallAt, MoveAt, CpuAt
<1>15. ASSUME NEW a \in Held, release(a), UNCHANGED move PROVE CallAt' /\ MoveAt' /\ CpuAt'
  <2>1. MoveAfter(a)
    BY <1>15 DEF Held, MoveAfter
  <2>. QED
    BY <1>5, <1>15, <2>1
<1>. QED
  BY <1>2, <1>6, <1>9, <1>10, <1>11, <1>13, <1>14, <1>15
     DEF Next, mallocRefused, Halt, Unfollowed, Controls, CallAt, MoveAt, CpuAt

LEMMA StepHeap == ASSUME Inv, [Next]_vars PROVE Inv'
<1>1. Controls'
  BY ControlsStep DEF Inv
<1>2. intact' => intact
  BY BrokenStays DEF Inv, Controls
<1>3. intact' => IInv'
  BY <1>2, StepIInv DEF Inv
<1>. QED
  BY <1>1, <1>3 DEF Inv

-----------------------------------------------------------------------------
(***************************************************************************)
(* The theorems.                                                           *)
(***************************************************************************)
LEMMA HeapInvariant == Spec => []Inv
<1>1. ASSUME Init PROVE Inv
  <2>1. Base /\ Whole
    BY <1>1, InitHeap
  <2>2. Controls
    <3>1. /\ call = Idle /\ move = NoMove /\ cpu = "run" /\ broken = 0
      BY <1>1 DEF Init
    <3>. QED
      BY <3>1 DEF Controls, Idle, NoMove
  <2>. QED
    BY <2>1, <2>2 DEF Inv, IInv
<1>2. Inv /\ [Next]_vars => Inv'
  BY StepHeap
<1>. QED
  BY <1>1, <1>2, PTL DEF Spec

\* The variables of the heap keep their types.  As long as the list is whole, none of
\* the unsigned locals of malloc has wrapped around, whatever calls of malloc, free
\* and realloc are made and whatever stacks come and go while a malloc is preempted.
THEOREM HeapTypeCorrect == Spec => []TypeOK
<1>1. ASSUME Inv PROVE TypeOK
  <2>1. ASSUME intact
        PROVE  /\ DOMAIN chunks \subseteq Nat
               /\ \A c \in DOMAIN chunks : chunks[c] \in Header
               /\ {endOfChunks, call.size, call.needToAlloc, call.totalAlloced} \subseteq Nat
               /\ totalMemAllocated \in Int
               /\ stacks \subseteq mapped /\ mapped \subseteq Nat
               /\ DOMAIN held \subseteq Nat
    <3>1. HeadersOK /\ EndOK /\ MapOK /\ HeldOK /\ call \in CallType /\ totalMemAllocated \in Int
      BY <1>1, <2>1 DEF Inv, IInv, Base
    <3>. QED
      BY <3>1 DEF HeadersOK, EndOK, MapOK, HeldOK, CallType
  <2>. QED
    BY <1>1, <2>1 DEF TypeOK, Inv, Controls
<1>. QED
  BY <1>1, HeapInvariant, PTL

\* When no malloc is under way, the list is whole as malloc and free walk it.
LEMMA ReadyIsWhole ==
    ASSUME Inv, intact, Running, mallocReady
    PROVE  Base /\ Whole
  BY DEF Inv, IInv, Doomed, Dead, mallocReady

\* As long as the code has not come to one of the five places, and no malloc is under
\* way, the sizes lead from firstChunk over every header to endOfChunks, which leaves
\* room for one more header on its page: no merge, split, trim, wrapper or reclaimed
\* page breaks the list in any other way.
THEOREM ListStaysWhole == Spec => []ListTilesHeap
<1>1. ASSUME Inv PROVE ListTilesHeap
  <2> SUFFICES ASSUME intact, Running, mallocReady
               PROVE  /\ endOfChunks % PAGESIZE = PAGESIZE - HSIZE
                      /\ firstChunk \in DOMAIN chunks
                      /\ \A c \in DOMAIN chunks :
                            /\ chunks[c].size >= HSIZE
                            /\ c + chunks[c].size \in DOMAIN chunks \cup {endOfChunks}
                            /\ \A x \in DOMAIN chunks : ~(c < x /\ x < c + chunks[c].size)
    BY DEF ListTilesHeap
  <2> DEFINE k == PageOf(endOfChunks + HSIZE)
             j == k - 1
             E == endOfChunks
  <2>0. Base /\ Whole
    BY <1>1, ReadyIsWhole
  <2>1. /\ HSIZE \in Nat \ {0} /\ PAGESIZE \in Nat /\ PAGESIZE > 2 * HSIZE /\ E \in Nat /\ E # 0
        /\ k \in Nat /\ E + HSIZE = k * PAGESIZE
    BY <2>0, EndIs DEF Base
  <2>2. Tiles(chunks, E)
    BY <2>0 DEF Whole, ListEnd, mallocReady
  <2>3. firstChunk \in DOMAIN chunks
    BY <2>1, <2>2, FirstIsThere DEF firstChunk
  <2>4. E % PAGESIZE = PAGESIZE - HSIZE
    <3>1. k # 0
      <4>1. k = 0 => k * PAGESIZE = 0
        BY <2>1
      <4>. QED
        BY <2>1, <4>1
    <3>2. j \in Nat /\ j * PAGESIZE = k * PAGESIZE - PAGESIZE
      BY <2>1, <3>1
    <3> DEFINE d == j * PAGESIZE
    <3>3. d = E + HSIZE - PAGESIZE /\ d = PAGESIZE * j
      BY <2>1, <3>2
    <3>4. PageOf(E) = j
      <4>1. PageOf(E) = j <=> d <= E /\ E < d + PAGESIZE
        BY <2>1, <3>2, PageIs
      <4> HIDE DEF d
      <4>. QED
        BY <2>1, <3>3, <4>1
    <3>5. E = PAGESIZE * j + (E % PAGESIZE) /\ E % PAGESIZE \in Nat
      <4>1. E = PAGESIZE * (E \div PAGESIZE) + (E % PAGESIZE) /\ E % PAGESIZE \in Nat
        BY <2>1
      <4>. QED
        BY <3>4, <4>1 DEF PageOf
    <3> HIDE DEF d
    <3>6. E = d + (E % PAGESIZE)
      BY <3>3, <3>5
    <3> DEFINE m == E % PAGESIZE
    <3>7. m \in Nat /\ E = d + m
      BY <3>5, <3>6
    <3> HIDE DEF m
    <3>8. m = PAGESIZE - HSIZE
      BY ONLY <2>1, <3>3, <3>7
    <3>. QED
      BY <2>1, <3>8 DEF m
  <2>5. ASSUME NEW c \in DOMAIN chunks
        PROVE  /\ chunks[c].size >= HSIZE
               /\ c + chunks[c].size \in DOMAIN chunks \cup {E}
               /\ \A x \in DOMAIN chunks : ~(c < x /\ x < c + chunks[c].size)
    <3>1. c + chunks[c].size \in DOMAIN chunks \cup {E}
      BY <2>2, PlaceIs
    <3>2. \A x \in DOMAIN chunks : ~(c < x /\ x < c + chunks[c].size)
      BY <2>2 DEF Tiles
    <3>. QED
      BY <2>0, <3>1, <3>2 DEF Base, HeadersOK
  <2>. QED
    BY <2>3, <2>4, <2>5
<1>. QED
  BY <1>1, HeapInvariant, PTL

\* As long as the code has not come to one of the five places, what malloc and realloc
\* have returned stays the inside of a chunk that is in use, malloc's own and large
\* enough, until it is passed to free: also in the middle of another task's malloc,
\* after one that has ended in a page fault, and through every merge, split and trim.
THEOREM AllocationsAreKept == Spec => []HeldIsAllocated
<1>1. ASSUME Inv PROVE HeldIsAllocated
  BY <1>1 DEF Inv, IInv, Base, HeldOK, Holds, HeldIsAllocated
<1>. QED
  BY <1>1, HeapInvariant, PTL

\* The pages of the addresses from a to b - 1.
LEMMA PagesOfIs ==
    ASSUME NEW a \in Nat, NEW b \in Nat, a < b
    PROVE  \A p : p \in PagesOf(a, b) <=>
                    p \in Nat /\ \E x \in Nat : a <= x /\ x < b /\ PageOf(x) = p
<1>1. b - 1 \in Nat /\ PageOf(a) \in Nat /\ PageOf(b - 1) \in Nat /\ PAGESIZE \in Nat \ {0}
  <2>1. b - 1 \in Nat
    OBVIOUS
  <2>. QED
    BY <2>1, PageIs, Scales
<1>2. \A y, z \in Nat : y <= z => PageOf(y) <= PageOf(z)
  <2> SUFFICES ASSUME NEW y \in Nat, NEW z \in Nat, y <= z
               PROVE  PageOf(y) <= PageOf(z)
    OBVIOUS
  <2> DEFINE u == PageOf(y)
             v == PageOf(z)
             m == u * PAGESIZE
  <2>1. u \in Nat /\ v \in Nat /\ m \in Nat /\ m <= y
    BY PageIs, PageBounds
  <2>2. v < u <=> z < m
    BY <2>1, PageBelow
  <2> HIDE DEF u, v, m
  <2>3. u <= v
    BY <2>1, <2>2
  <2>. QED
    BY <2>3 DEF u, v
<1>3. ASSUME NEW x \in Nat, a <= x, x < b
      PROVE  PageOf(x) \in PagesOf(a, b)
  <2>1. PageOf(a) <= PageOf(x) /\ PageOf(x) <= PageOf(b - 1) /\ PageOf(x) \in Nat
    BY <1>1, <1>2, <1>3, PageIs
  <2>. QED
    BY <1>1, <2>1 DEF PagesOf
<1>4. ASSUME NEW p \in PagesOf(a, b)
      PROVE  p \in Nat /\ \E x \in Nat : a <= x /\ x < b /\ PageOf(x) = p
  <2>1. p \in Nat /\ PageOf(a) <= p /\ p <= PageOf(b - 1)
    BY <1>1, <1>4 DEF PagesOf
  <2>2. CASE p = PageOf(a)
    BY <2>1, <2>2
  <2>3. CASE PageOf(a) < p
    <3> DEFINE x == p * PAGESIZE
    <3>1. x \in Nat /\ PageOf(x) = p
      <4>1. x \in Nat
        BY <1>1, <2>1
      <4>. QED
        BY <1>1, <2>1, <4>1, PageIs
    <3>2. a < x
      BY <2>1, <2>3, PageBelow
    <3>3. ~(b - 1 < x)
      <4>1. PageOf(b - 1) < p <=> b - 1 < x
        BY <1>1, <2>1, PageBelow
      <4>. QED
        BY <1>1, <2>1, <4>1
    <3> HIDE DEF x
    <3>4. a <= x /\ x < b
      BY <3>1, <3>2, <3>3
    <3>. QED
      BY <2>1, <3>1, <3>4
  <2>. QED
    BY <1>1, <2>1, <2>2, <2>3
<1>. QED
  BY <1>1, <1>3, <1>4

\* As long as the code has not come to one of the five places, and no malloc is under
\* way, the pages that are mapped and no stacks are those that malloc uses: it leaks
\* none, uses none that is not mapped, and neither takes over nor unmaps a stack.
THEOREM PagesStayApart == Spec => []HeapOwnsItsPages
<1>1. ASSUME Inv PROVE HeapOwnsItsPages
  <2> SUFFICES ASSUME intact, Running, mallocReady
               PROVE  HeapPages = mapped \ stacks
    BY DEF HeapOwnsItsPages
  <2> DEFINE E == endOfChunks
             D == DOMAIN chunks
             Len(c) == IF chunks[c].notOurs THEN HSIZE ELSE chunks[c].size
  <2>0. Base /\ Whole
    BY <1>1, ReadyIsWhole
  <2>1. HSIZE \in Nat \ {0} /\ E \in Nat
    BY <2>0, EndIs DEF Base
  <2>2. Tiles(chunks, E)
    BY <2>0 DEF Whole, ListEnd, mallocReady
  <2>3. \A c \in D : /\ c \in Nat /\ chunks[c].size \in Nat /\ chunks[c].size # 0
                     /\ c + chunks[c].size <= E /\ chunks[c].size >= HSIZE
    BY <2>0, <2>2, PlaceIs DEF Base, HeadersOK
  <2>4. \A c \in D : Len(c) \in Nat /\ Len(c) # 0 /\ Len(c) <= chunks[c].size
    BY <2>1, <2>3
  <2>5. \A x \in Nat : Mine(x) <=> \/ E <= x /\ x < E + HSIZE
                                   \/ \E c \in D : c <= x /\ x < c + Len(c)
    <3> SUFFICES ASSUME NEW x \in Nat
                 PROVE  Mine(x) <=> \/ E <= x /\ x < E + HSIZE
                                    \/ \E c \in D : c <= x /\ x < c + Len(c)
      OBVIOUS
    <3>1. ASSUME Mine(x), ~(E <= x /\ x < E + HSIZE)
          PROVE  \E c \in D : c <= x /\ x < c + Len(c)
      <4>1. x \in 0 .. E - 1
        BY <2>1, <3>1 DEF Mine
      <4>2. PICK c \in D : c <= x /\ x < c + chunks[c].size
        BY <2>2, <4>1 DEF Tiles
      <4>3. chunks[c].notOurs => ~(c + HSIZE <= x)
        BY <3>1, <4>2 DEF Mine
      <4>. QED
        BY <2>1, <2>3, <4>2, <4>3
    <3>2. ASSUME E <= x, x < E + HSIZE
          PROVE  Mine(x)
      BY <2>1, <2>3, <3>2 DEF Mine
    <3>3. ASSUME NEW c \in D, c <= x, x < c + Len(c)
          PROVE  Mine(x)
      <4>1. c \in Nat /\ Len(c) \in Nat /\ chunks[c].size \in Nat /\ x < c + chunks[c].size
            /\ c + chunks[c].size <= E
        <5>1. c \in Nat /\ chunks[c].size \in Nat /\ c + chunks[c].size <= E
          BY <2>3
        <5>2. Len(c) \in Nat /\ Len(c) <= chunks[c].size
          BY <2>4
        <5> HIDE DEF Len
        <5>. QED
          BY <3>3, <5>1, <5>2
      <4>2. x < E + HSIZE
        BY <2>1, <4>1
      <4>3. ASSUME NEW w \in D, chunks[w].notOurs, w + HSIZE <= x, x < w + chunks[w].size
            PROVE  FALSE
        <5>1. w \in Nat /\ chunks[w].size \in Nat
          BY <2>3
        <5>2. CASE w = c
          BY <2>1, <3>3, <4>1, <4>3, <5>2
        <5>3. CASE w < c
          <6>1. w + chunks[w].size <= c
            BY <2>2, <5>3, Neighbours
          <6>. QED
            BY <3>3, <4>1, <4>3, <5>1, <6>1
        <5>4. CASE c < w
          <6>1. c + chunks[c].size <= w
            BY <2>2, <5>4, Neighbours
          <6>. QED
            BY <2>1, <4>1, <4>3, <5>1, <6>1
        <5>. QED
          BY <4>1, <5>1, <5>2, <5>3, <5>4
      <4>. QED
        BY <4>2, <4>3 DEF Mine
    <3>. QED
      BY <3>1, <3>2, <3>3
  <2> HIDE DEF Len
  <2>6. \A p : p \in PagesOf(E, E + HSIZE) <=>
             p \in Nat /\ \E x \in Nat : E <= x /\ x < E + HSIZE /\ PageOf(x) = p
    <3> DEFINE b == E + HSIZE
    <3>1. b \in Nat /\ E < b
      BY <2>1
    <3> HIDE DEF b
    <3>2. \A p : p \in PagesOf(E, b) <=>
             p \in Nat /\ \E x \in Nat : E <= x /\ x < b /\ PageOf(x) = p
      BY ONLY <2>1, <3>1, PagesOfIs
    <3>. QED
      BY <3>2 DEF b
  <2>7. \A c \in D : \A p : p \in PagesOf(c, c + Len(c)) <=>
             p \in Nat /\ \E x \in Nat : c <= x /\ x < c + Len(c) /\ PageOf(x) = p
    <3> SUFFICES ASSUME NEW c \in D
                 PROVE  \A p : p \in PagesOf(c, c + Len(c)) <=>
                           p \in Nat /\ \E x \in Nat : c <= x /\ x < c + Len(c) /\ PageOf(x) = p
      OBVIOUS
    <3>1. c \in Nat /\ Len(c) \in Nat /\ Len(c) # 0
      BY <2>3, <2>4
    <3> DEFINE b == c + Len(c)
    <3>2. b \in Nat /\ c < b
      BY <3>1
    <3> HIDE DEF b
    <3>3. \A p : p \in PagesOf(c, b) <=>
             p \in Nat /\ \E x \in Nat : c <= x /\ x < b /\ PageOf(x) = p
      BY ONLY <3>1, <3>2, PagesOfIs
    <3>. QED
      BY <3>3 DEF b
  <2>8. \A p : p \in HeapPages <=> \/ p \in PagesOf(E, E + HSIZE)
                                   \/ \E c \in D : p \in PagesOf(c, c + Len(c))
    BY DEF HeapPages, Len
  <2>9. \A p : p \in HeapPages <=> p \in Nat /\ \E x \in Nat : Mine(x) /\ PageOf(x) = p
    <3>1. ASSUME NEW p \in HeapPages
          PROVE  p \in Nat /\ \E x \in Nat : Mine(x) /\ PageOf(x) = p
      <4>1. CASE p \in PagesOf(E, E + HSIZE)
        BY <2>1, <2>5, <2>6, <4>1
      <4>2. CASE \E c \in D : p \in PagesOf(c, c + Len(c))
        <5>1. PICK c \in D : p \in PagesOf(c, c + Len(c))
          BY <4>2
        <5>2. p \in Nat /\ \E x \in Nat : c <= x /\ x < c + Len(c) /\ PageOf(x) = p
          BY <2>7, <5>1
        <5>. QED
          BY <2>5, <5>2
      <4>. QED
        BY <2>8, <3>1, <4>1, <4>2
    <3>2. ASSUME NEW x \in Nat, Mine(x), PageOf(x) \in Nat
          PROVE  PageOf(x) \in HeapPages
      <4>1. CASE E <= x /\ x < E + HSIZE
        BY <2>6, <2>8, <3>2, <4>1
      <4>2. CASE \E c \in D : c <= x /\ x < c + Len(c)
        BY <2>7, <2>8, <3>2, <4>2
      <4>. QED
        BY <2>5, <3>2, <4>1, <4>2
    <3>. QED
      BY <3>1, <3>2
  <2>10. /\ mapped \ stacks \subseteq Nat
         /\ \A p \in Nat : p \in mapped \ stacks <=> \E x \in Nat : Mine(x) /\ PageOf(x) = p
    BY <2>0 DEF Base, Whole, MapOK, PagesOK
  <2>. QED
    BY <2>9, <2>10
<1>. QED
  BY <1>1, HeapInvariant, PTL

=============================================================================
