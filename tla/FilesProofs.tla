----------------------------- MODULE FilesProofs ----------------------------
(***************************************************************************)
(* Proofs about the file system, for any disk, any paths and any reads     *)
(* that fail, when one reader uses it.                                     *)
(***************************************************************************)
EXTENDS Files, FiniteSetTheorems, SequenceTheorems, WellFoundedInduction, TLAPS

\* As long as boot() loads files itself: system calls load files as well, and a
\* lookup deletes the nodes that another reader holds.
OneReader == Readers = {Boot}

-----------------------------------------------------------------------------
(***************************************************************************)
(* Induction, by the least counterexample, and recursive functions.        *)
(***************************************************************************)
\* Every nonempty set of numbers has a least one.
LEMMA HasLeast ==
    ASSUME NEW S \in SUBSET Nat, S # {}
    PROVE  \E m \in S : \A n \in S : m <= n
<1>1. PICK m \in S : \A n \in S : ~(<<n, m>> \in OpToRel(<, Nat))
  BY NatLessThanWellFounded, WFMin
<1>2. ASSUME NEW n \in S PROVE m <= n
  <2>1. m \in Nat /\ n \in Nat
    OBVIOUS
  <2>2. ~(n < m)
    BY <1>1, <2>1 DEF OpToRel
  <2>. QED
    BY <2>1, <2>2
<1>. QED
  BY <1>2

\* f[i] is what the first i of the functions G make of b, one after the other.
Iterates(f, n, S, b, G) ==
    f \in [0 .. n -> S] /\ f[0] = b /\ \A i \in 1 .. n : f[i] = G[i][f[i - 1]]

LEMMA OneMore ==
    ASSUME NEW n \in Nat, NEW S, NEW b, NEW G \in [1 .. n -> [S -> S]],
           NEW m \in 1 .. n, NEW f, Iterates(f, m - 1, S, b, G)
    PROVE  \E g : Iterates(g, m, S, b, G)
<1> DEFINE x == G[m][f[m - 1]]
           g == [i \in 0 .. m |-> IF i = m THEN x ELSE f[i]]
<1>1. m \in Nat /\ m - 1 \in Nat /\ m # 0 /\ f \in [0 .. m - 1 -> S] /\ f[0] = b
  BY DEF Iterates
<1>2. f[m - 1] \in S
  BY <1>1
<1>3. x \in S
  BY <1>2
<1>4. \A i \in 1 .. m - 1 : f[i] = G[i][f[i - 1]]
  BY DEF Iterates
<1>5. G[m][f[m - 1]] = x
  OBVIOUS
<1> HIDE DEF x
<1>6. g \in [0 .. m -> S] /\ g[0] = b
  BY <1>1, <1>3
<1>7. ASSUME NEW i \in 1 .. m PROVE g[i] = G[i][g[i - 1]]
  <2>1. CASE i = m
    <3>1. g[i] = x /\ g[i - 1] = f[m - 1]
      BY <1>1, <2>1
    <3>. QED
      BY <1>5, <2>1, <3>1
  <2>2. CASE i # m
    <3>1. g[i] = f[i] /\ g[i - 1] = f[i - 1] /\ i \in 1 .. m - 1
      BY <1>1, <2>2
    <3>. QED
      BY <1>4, <3>1
  <2>. QED
    BY <2>1, <2>2
<1>. QED
  BY <1>6, <1>7 DEF Iterates

LEMMA IterationExists ==
    ASSUME NEW n \in Nat, NEW S, NEW b \in S, NEW G \in [1 .. n -> [S -> S]]
    PROVE  \E f : Iterates(f, n, S, b, G)
<1> DEFINE Bad == {m \in 0 .. n : \A f : ~Iterates(f, m, S, b, G)}
<1>0. n \in 0 .. n
  OBVIOUS
<1> SUFFICES ASSUME Bad # {} PROVE FALSE
  BY <1>0
<1>1. PICK m \in Bad : \A k \in Bad : m <= k
  <2>1. Bad \in SUBSET Nat
    OBVIOUS
  <2> HIDE DEF Bad
  <2>. QED
    BY <2>1, HasLeast
<1>2. m \in 0 .. n /\ \A f : ~Iterates(f, m, S, b, G)
  OBVIOUS
<1>3. ASSUME NEW k \in 0 .. n, k < m PROVE \E f : Iterates(f, k, S, b, G)
  <2>1. k \notin Bad
    BY <1>1, <1>3
  <2>. QED
    BY <2>1
<1> HIDE DEF Bad
<1>4. CASE m = 0
  <2>1. Iterates([i \in 0 .. 0 |-> b], 0, S, b, G)
    BY DEF Iterates
  <2>. QED
    BY <1>2, <1>4, <2>1
<1>5. CASE m # 0
  <2>1. m \in 1 .. n /\ m - 1 \in 0 .. n /\ m - 1 < m
    BY <1>2, <1>5
  <2>2. PICK f : Iterates(f, m - 1, S, b, G)
    BY <1>3, <2>1
  <2>. QED
    BY <1>2, <2>1, <2>2, OneMore
<1>. QED
  BY <1>4, <1>5

\* What holds of 0 and passes from each number to the next holds up to n.
LEMMA UpTo ==
    ASSUME NEW n \in Nat, NEW S, 0 \in S, \A i \in 1 .. n : i - 1 \in S => i \in S
    PROVE  \A i \in 0 .. n : i \in S
<1> DEFINE Bad == {i \in 0 .. n : i \notin S}
<1> SUFFICES ASSUME Bad # {} PROVE FALSE
  OBVIOUS
<1>1. Bad \in SUBSET Nat
  OBVIOUS
<1>2. PICK m \in Bad : \A k \in Bad : m <= k
  BY <1>1, HasLeast
<1>3. m \in 0 .. n /\ m \notin S
  OBVIOUS
<1>4. m # 0
  BY <1>3
<1>5. m \in 1 .. n /\ m - 1 \in 0 .. n /\ ~(m <= m - 1)
  BY <1>3, <1>4
<1>6. m - 1 \notin Bad
  BY <1>2, <1>5
<1>7. m - 1 \in S
  BY <1>5, <1>6
<1>. QED
  BY <1>3, <1>5, <1>7

-----------------------------------------------------------------------------
(***************************************************************************)
(* Sequences.                                                              *)
(***************************************************************************)
\* Concatenation, under a name that the provers take as it stands.
Cat(s, t) == s \o t

LEMMA CatType ==
    ASSUME NEW W, NEW s \in Seq(W), NEW t \in Seq(W)
    PROVE  Cat(s, t) \in Seq(W)
<1>1. s \o t \in Seq(W)
  BY ConcatProperties
<1>. QED
  BY <1>1, Zenon DEF Cat

LEMMA CatEmpty ==
    ASSUME NEW W, NEW s \in Seq(W)
    PROVE  Cat(<<>>, s) = s /\ Cat(s, <<>>) = s
<1>1. <<>> \o s = s /\ s \o <<>> = s
  BY ConcatEmptySeq
<1>. QED
  BY <1>1, Zenon DEF Cat

LEMMA CatAssociative ==
    ASSUME NEW W, NEW s \in Seq(W), NEW t \in Seq(W), NEW u \in Seq(W)
    PROVE  Cat(Cat(s, t), u) = Cat(s, Cat(t, u))
<1>1. (s \o t) \o u = s \o (t \o u)
  BY ConcatAssociative
<1>. QED
  BY <1>1, Zenon DEF Cat

\* f[i] is the first i of the sequences in s, one after the other.
Joins(f, s, W) ==
    /\ f \in [0 .. Len(s) -> Seq(W)] /\ f[0] = <<>>
    /\ \A i \in 1 .. Len(s) : f[i] = Cat(f[i - 1], s[i])

LEMMA JoinsExists ==
    ASSUME NEW W, NEW s \in Seq(Seq(W))
    PROVE  \E f : Joins(f, s, W)
<1> DEFINE n == Len(s)
           S == Seq(W)
           G == [i \in 1 .. n |-> [x \in S |-> Cat(x, s[i])]]
<1>1. n \in Nat /\ <<>> \in S /\ \A i \in 1 .. n : s[i] \in S
  BY EmptySeq, ElementOfSeq, LenProperties
<1>2. \A i \in 1 .. n, x \in S : Cat(x, s[i]) \in S
  BY <1>1, CatType
<1> HIDE DEF n, S
<1>3. G \in [1 .. n -> [S -> S]] /\ \A i \in 1 .. n, x \in S : G[i][x] = Cat(x, s[i])
  BY <1>2
<1> HIDE DEF G
<1>4. PICK f : Iterates(f, n, S, <<>>, G)
  BY <1>1, <1>3, IterationExists
<1>5. f \in [0 .. n -> S] /\ f[0] = <<>> /\ \A i \in 1 .. n : f[i] = G[i][f[i - 1]]
  BY <1>4 DEF Iterates
<1>6. ASSUME NEW i \in 1 .. n PROVE f[i] = Cat(f[i - 1], s[i])
  <2>1. f[i - 1] \in S
    BY <1>1, <1>5
  <2>. QED
    BY <1>3, <1>5, <2>1
<1>. QED
  BY <1>5, <1>6 DEF Joins, n, S

LEMMA FlattenIs ==
    ASSUME NEW W, NEW s \in Seq(Seq(W))
    PROVE  \E f : Joins(f, s, W) /\ FlattenSeq(s) = f[Len(s)]
<1> DEFINE n == Len(s)
           R(h) == h = [i \in 1 .. n |-> IF i = 1 THEN s[i] ELSE Cat(h[i - 1], s[i])]
           h0 == CHOOSE h : R(h)
<1>1. PICK f : Joins(f, s, W)
  BY JoinsExists
<1>2. n \in Nat /\ f \in [0 .. n -> Seq(W)] /\ f[0] = <<>>
      /\ \A i \in 1 .. n : f[i] = Cat(f[i - 1], s[i])
  BY <1>1, LenProperties DEF Joins
<1>3. CASE n = 0
  <2>1. s = <<>>
    BY <1>3, EmptySeq
  <2>2. FlattenSeq(s) = s
    BY <1>3 DEF FlattenSeq
  <2>. QED
    BY <1>1, <1>2, <1>3, <2>1, <2>2
<1>4. CASE n # 0
  <2> DEFINE g == [i \in 1 .. n |-> f[i]]
  <2>1. 1 \in 1 .. n /\ s[1] \in Seq(W)
    BY <1>2, <1>4, ElementOfSeq
  <2>2. f[1] = s[1]
    <3>1. f[1] = Cat(f[0], s[1])
      BY <1>2, <2>1
    <3>. QED
      BY <1>2, <2>1, <3>1, CatEmpty
  <2>3. ASSUME NEW i \in 1 .. n, i # 1 PROVE f[i] = Cat(g[i - 1], s[i])
    BY <1>2, <2>3
  <2>4. R(g)
    BY <2>2, <2>3
  <2> HIDE DEF g
  <2>5. R(h0)
    BY <2>4, Zenon
  <2>6. FlattenSeq(s) = h0[n]
    BY <1>4, Zenon DEF FlattenSeq, Cat
  <2> HIDE DEF h0
  <2> DEFINE S == {i \in 0 .. n : i # 0 => h0[i] = f[i]}
  <2>7. \A i \in 0 .. n : i \in S
    <3>1. 0 \in S
      BY <1>2
    <3>2. ASSUME NEW i \in 1 .. n, i - 1 \in S PROVE i \in S
      <4>1. CASE i = 1
        BY <2>2, <2>5, <4>1
      <4>2. CASE i # 1
        <5>1. i - 1 # 0 /\ h0[i - 1] = f[i - 1]
          BY <3>2, <4>2
        <5>2. h0[i] = Cat(h0[i - 1], s[i])
          BY <2>5, <4>2
        <5>3. h0[i] = f[i] /\ i \in 0 .. n
          BY <1>2, <5>1, <5>2
        <5>. QED
          BY <5>3
      <4>. QED
        BY <4>1, <4>2
    <3> HIDE DEF S
    <3>. QED
      BY <1>2, <3>1, <3>2, UpTo
  <2>8. h0[n] = f[n]
    BY <1>2, <1>4, <2>7
  <2>. QED
    BY <1>1, <2>6, <2>8
<1>. QED
  BY <1>3, <1>4

LEMMA FlattenType ==
    ASSUME NEW W, NEW s \in Seq(Seq(W))
    PROVE  FlattenSeq(s) \in Seq(W)
<1>1. PICK f : Joins(f, s, W) /\ FlattenSeq(s) = f[Len(s)]
  BY FlattenIs
<1>2. Len(s) \in Nat
  BY LenProperties
<1>. QED
  BY <1>1, <1>2 DEF Joins

LEMMA FlattenConcat ==
    ASSUME NEW W, NEW s \in Seq(Seq(W)), NEW t \in Seq(Seq(W))
    PROVE  FlattenSeq(s \o t) = Cat(FlattenSeq(s), FlattenSeq(t))
<1> DEFINE m == Len(s)
           n == Len(t)
           u == s \o t
<1>1. /\ m \in Nat /\ n \in Nat /\ u \in Seq(Seq(W)) /\ Len(u) = m + n
      /\ \A i \in 1 .. m + n : u[i] = IF i <= m THEN s[i] ELSE t[i - m]
  BY LenProperties, ConcatProperties
<1>2. \A i \in 1 .. n : t[i] \in Seq(W)
  BY ElementOfSeq
<1> HIDE DEF m, n, u
<1>3. PICK f : Joins(f, s, W) /\ FlattenSeq(s) = f[m]
  BY FlattenIs DEF m
<1>4. PICK g : Joins(g, t, W) /\ FlattenSeq(t) = g[n]
  BY FlattenIs DEF n
<1>5. PICK h : Joins(h, u, W) /\ FlattenSeq(u) = h[m + n]
  BY <1>1, FlattenIs
<1>6. /\ f \in [0 .. m -> Seq(W)] /\ f[0] = <<>> /\ \A i \in 1 .. m : f[i] = Cat(f[i - 1], s[i])
      /\ g \in [0 .. n -> Seq(W)] /\ g[0] = <<>> /\ \A i \in 1 .. n : g[i] = Cat(g[i - 1], t[i])
      /\ h \in [0 .. m + n -> Seq(W)] /\ h[0] = <<>>
      /\ \A i \in 1 .. m + n : h[i] = Cat(h[i - 1], u[i])
  BY <1>1, <1>3, <1>4, <1>5 DEF Joins, m, n
<1>7. h[m] = f[m]
  <2> DEFINE A == {i \in 0 .. m : h[i] = f[i]}
  <2>1. 0 \in A
    BY <1>1, <1>6
  <2>2. ASSUME NEW i \in 1 .. m, i - 1 \in A PROVE i \in A
    <3>1. i \in 1 .. m + n /\ u[i] = s[i] /\ h[i - 1] = f[i - 1]
      BY <1>1, <2>2
    <3>2. h[i] = f[i]
      BY <1>6, <3>1
    <3>. QED
      BY <1>1, <3>2
  <2> HIDE DEF A
  <2>3. \A i \in 0 .. m : i \in A
    BY <1>1, <2>1, <2>2, UpTo
  <2>. QED
    BY <1>1, <2>3 DEF A
<1>8. f[m] \in Seq(W)
  BY <1>1, <1>6
<1>9. h[m + n] = Cat(f[m], g[n])
  <2> DEFINE B == {i \in 0 .. n : h[m + i] = Cat(f[m], g[i])}
  <2>1. 0 \in B
    <3>1. Cat(f[m], <<>>) = f[m] /\ m + 0 = m /\ 0 \in 0 .. n
      BY <1>1, <1>8, CatEmpty
    <3>. QED
      BY <1>6, <1>7, <3>1
  <2>2. ASSUME NEW i \in 1 .. n, i - 1 \in B PROVE i \in B
    <3>1. m + i \in 1 .. m + n /\ ~(m + i <= m) /\ (m + i) - m = i /\ (m + i) - 1 = m + (i - 1)
          /\ i - 1 \in 0 .. n
      BY <1>1, <2>2
    <3>2. u[m + i] = t[i] /\ h[m + (i - 1)] = Cat(f[m], g[i - 1]) /\ g[i] = Cat(g[i - 1], t[i])
      BY <1>1, <1>6, <2>2, <3>1
    <3>3. h[m + i] = Cat(Cat(f[m], g[i - 1]), t[i])
      BY <1>6, <3>1, <3>2
    <3>4. g[i - 1] \in Seq(W) /\ t[i] \in Seq(W)
      BY <1>2, <1>6, <3>1
    <3>5. Cat(Cat(f[m], g[i - 1]), t[i]) = Cat(f[m], Cat(g[i - 1], t[i]))
      BY <1>8, <3>4, CatAssociative
    <3>6. i \in 0 .. n
      BY <1>1
    <3>. QED
      BY <3>2, <3>3, <3>5, <3>6
  <2> HIDE DEF B
  <2>3. \A i \in 0 .. n : i \in B
    BY <1>1, <2>1, <2>2, UpTo
  <2>. QED
    BY <1>1, <2>3 DEF B
<1>. QED
  BY <1>3, <1>4, <1>5, <1>9 DEF u

LEMMA FlattenEmpty == FlattenSeq(<<>>) = <<>>
BY EmptySeq DEF FlattenSeq

LEMMA FlattenOne ==
    ASSUME NEW W, NEW x \in Seq(W)
    PROVE  FlattenSeq(<<x>>) = x
<1>1. <<x>> \in Seq(Seq(W)) /\ Len(<<x>>) = 1 /\ <<x>>[1] = x
  OBVIOUS
<1>2. PICK f : Joins(f, <<x>>, W) /\ FlattenSeq(<<x>>) = f[1]
  BY <1>1, FlattenIs
<1>3. f[0] = <<>> /\ f[1] = Cat(f[0], x)
  BY <1>1, <1>2 DEF Joins
<1>. QED
  BY <1>2, <1>3, CatEmpty

\* The first numbers of a list that has no holes, up to the first 0.
LEMMA UsedIs ==
    ASSUME NEW p \in Seq(Nat), NoHoles(p)
    PROVE  /\ UpToZero(p) = Used(p) /\ Used(p) \in Seq(Nat) /\ Len(Used(p)) <= Len(p)
           /\ \A i \in 1 .. Len(Used(p)) : Used(p)[i] = p[i]
<1> DEFINE n == Len(p)
           q == p \o <<0>>
           I == {i \in 1 .. n + 1 : q[i] = 0}
           z == SelectInSeq(q, LAMBDA b : b = 0)
           P == {i \in 1 .. n : p[i] # 0}
<1>1. n \in Nat /\ DOMAIN p = 1 .. n /\ \A i \in 1 .. n : p[i] \in Nat
  BY LenProperties, ElementOfSeq
<1>2. /\ Len(q) = n + 1 /\ q[n + 1] = 0 /\ \A i \in 1 .. n : q[i] = p[i]
  <2>1. <<0>> \in Seq(Nat) /\ Len(<<0>>) = 1 /\ <<0>>[1] = 0
    OBVIOUS
  <2>2. /\ Len(q) = n + 1
        /\ \A i \in 1 .. n + 1 : q[i] = IF i <= n THEN p[i] ELSE <<0>>[i - n]
    BY <2>1, ConcatProperties
  <2> HIDE DEF q, n
  <2>. QED
    BY <1>1, <2>1, <2>2
<1>3. z = IF I # {} THEN Min(I) ELSE 0
  BY <1>2 DEF SelectInSeq
<1> HIDE DEF z, q, n
<1>4. n + 1 \in I /\ I \in SUBSET Nat
  BY <1>1, <1>2
<1>5. \A i : i \in I <=> i \in 1 .. n + 1 /\ q[i] = 0
  OBVIOUS
<1> HIDE DEF I
<1>6. \E m \in I : \A k \in I : m <= k
  BY <1>4, HasLeast
<1>7. z = CHOOSE m \in I : \A k \in I : m <= k
  BY <1>3, <1>4 DEF Min
<1>8. z \in I /\ \A k \in I : z <= k
  BY <1>6, <1>7, Zenon
<1>9. z \in 1 .. n + 1 /\ q[z] = 0
  BY <1>5, <1>8
<1>10. ASSUME NEW i \in 1 .. n, i < z PROVE p[i] # 0
  <2>1. i \notin I /\ i \in 1 .. n + 1
    BY <1>1, <1>8, <1>9, <1>10
  <2>. QED
    BY <1>2, <1>5, <2>1
<1>11. ASSUME NEW i \in 1 .. n, z <= i PROVE p[i] = 0
  <2>1. z \in 1 .. n /\ p[z] = 0
    BY <1>1, <1>2, <1>9, <1>11
  <2>2. CASE i = z
    BY <2>1, <2>2
  <2>3. CASE z < i
    BY <1>1, <2>1, <2>3 DEF NoHoles
  <2>. QED
    BY <1>1, <1>9, <1>11, <2>2, <2>3
<1>12. P = 1 .. z - 1
  <2>1. ASSUME NEW i \in P PROVE i \in 1 .. z - 1
    BY <1>1, <1>9, <1>11
  <2>2. ASSUME NEW i \in 1 .. z - 1 PROVE i \in P
    BY <1>1, <1>9, <1>10
  <2>. QED
    BY <2>1, <2>2
<1>13. P = {i \in DOMAIN p : p[i] # 0}
  BY <1>1
<1> HIDE DEF P
<1>14. Cardinality(P) = z - 1
  <2>1. 1 \in Int /\ z - 1 \in Int /\ (IF 1 > z - 1 THEN 0 ELSE (z - 1) - 1 + 1) = z - 1
    BY <1>1, <1>9
  <2>2. Cardinality(1 .. z - 1) = IF 1 > z - 1 THEN 0 ELSE (z - 1) - 1 + 1
    BY <2>1, FS_Interval
  <2>. QED
    BY <1>12, <2>1, <2>2
<1>15. Used(p) = SubSeq(p, 1, z - 1)
  BY <1>13, <1>14 DEF Used
<1>16. UpToZero(p) = SubSeq(p, 1, z - 1)
  BY DEF UpToZero, z, q
<1>17. /\ SubSeq(p, 1, z - 1) \in Seq(Nat)
       /\ Len(SubSeq(p, 1, z - 1)) = z - 1
       /\ \A i \in 1 .. z - 1 : SubSeq(p, 1, z - 1)[i] = p[i]
  <2>1. 1 \in Int /\ z - 1 \in Int /\ \A i \in 1 .. z - 1 : p[i] \in Nat
    BY <1>1, <1>9
  <2>2. /\ SubSeq(p, 1, z - 1) \in Seq(Nat)
        /\ Len(SubSeq(p, 1, z - 1)) = IF 1 <= z - 1 THEN (z - 1) - 1 + 1 ELSE 0
        /\ \A i \in 1 .. (z - 1) - 1 + 1 : SubSeq(p, 1, z - 1)[i] = p[1 + i - 1]
    BY <2>1, SubSeqProperties
  <2>3. (z - 1) - 1 + 1 = z - 1 /\ \A i \in 1 .. z - 1 : 1 + i - 1 = i
    BY <1>9, <1>1
  <2>4. (IF 1 <= z - 1 THEN (z - 1) - 1 + 1 ELSE 0) = z - 1
    BY <1>9, <1>1
  <2> DEFINE r == SubSeq(p, 1, z - 1)
  <2> HIDE DEF r
  <2>. QED
    BY <2>2, <2>3, <2>4
<1>18. z - 1 <= n
  BY <1>1, <1>9
<1> DEFINE r == SubSeq(p, 1, z - 1)
<1>19. Used(p) = r /\ UpToZero(p) = r /\ r \in Seq(Nat) /\ Len(r) = z - 1
       /\ \A i \in 1 .. z - 1 : r[i] = p[i]
  BY <1>15, <1>16, <1>17
<1> HIDE DEF r
<1>. QED
  BY <1>18, <1>19 DEF n

\* A sequence is known by what it has at each index.
LEMMA FunctionIsSeq ==
    ASSUME NEW S, NEW n \in Nat, NEW f, f \in [1 .. n -> S]
    PROVE  f \in Seq(S) /\ Len(f) = n
<1>1. f \in Seq(S)
  BY SeqDef
<1>2. Len(f) \in Nat /\ DOMAIN f = 1 .. Len(f)
  BY <1>1, LenProperties
<1>3. DOMAIN f = 1 .. n
  OBVIOUS
<1> DEFINE k == Len(f)
<1> HIDE DEF k
<1>4. k \in Nat /\ 1 .. k = 1 .. n
  BY <1>2, <1>3 DEF k
<1>5. k = n
  BY <1>4
<1>. QED
  BY <1>1, <1>5 DEF k

Least(m, n) == IF m > n THEN n ELSE m

LEMMA KeptIs ==
    ASSUME NEW W, NEW a \in Seq(W), NEW b \in Seq(W), NEW size \in Nat
    PROVE  /\ Kept(a, b, size) \in Seq(W)
           /\ Len(Kept(a, b, size)) = Least(Len(a) + Len(b), size)
           /\ \A i \in 1 .. Least(Len(a) + Len(b), size) :
                 Kept(a, b, size)[i] = IF i <= Len(a) THEN a[i] ELSE b[i - Len(a)]
<1> DEFINE m == Len(a)
           n == Len(b)
           c == a \o b
           k == Least(m + n, size)
           r == SubSeq(c, 1, k)
<1>1. /\ m \in Nat /\ n \in Nat /\ c \in Seq(W) /\ Len(c) = m + n
      /\ \A i \in 1 .. m + n : c[i] = IF i <= m THEN a[i] ELSE b[i - m]
  BY LenProperties, ConcatProperties
<1>2. Kept(a, b, size) = r
  <2>1. Kept(a, b, size) = SubSeq(c, 1, IF Len(c) > size THEN size ELSE Len(c))
    BY DEF Kept
  <2> HIDE DEF c, m, n
  <2>. QED
    BY <1>1, <2>1 DEF Least
<1>3. \A i \in 1 .. m + n : c[i] \in W
  BY <1>1, ElementOfSeq
<1> HIDE DEF c, m, n
<1>4. k \in Nat /\ k <= m + n
  BY <1>1 DEF Least
<1> HIDE DEF k
<1>5. 1 \in Int /\ k \in Int /\ \A i \in 1 .. k : c[i] \in W
  BY <1>1, <1>3, <1>4
<1>6. /\ r \in Seq(W) /\ Len(r) = IF 1 <= k THEN k - 1 + 1 ELSE 0
      /\ \A i \in 1 .. k - 1 + 1 : r[i] = c[1 + i - 1]
  BY <1>5, SubSeqProperties
<1> HIDE DEF r
<1>7. Len(r) = k /\ k - 1 + 1 = k /\ \A i \in 1 .. k : 1 + i - 1 = i
  BY <1>4, <1>6
<1>8. \A i \in 1 .. k : r[i] = IF i <= m THEN a[i] ELSE b[i - m]
  BY <1>1, <1>4, <1>6, <1>7
<1>. QED
  BY <1>2, <1>6, <1>7, <1>8 DEF k, m, n

LEMMA CutIs ==
    ASSUME NEW W, NEW a \in Seq(W), NEW size \in Nat
    PROVE  /\ Kept(a, <<>>, size) \in Seq(W)
           /\ Len(Kept(a, <<>>, size)) = Least(Len(a), size)
           /\ \A i \in 1 .. Least(Len(a), size) : Kept(a, <<>>, size)[i] = a[i]
<1>1. PICK e : e = <<>>
  OBVIOUS
<1>2. e \in Seq(W) /\ Len(e) = 0 /\ Len(a) \in Nat
  BY <1>1, EmptySeq, LenProperties
<1>3. /\ Kept(a, e, size) \in Seq(W)
      /\ Len(Kept(a, e, size)) = Least(Len(a) + Len(e), size)
      /\ \A i \in 1 .. Least(Len(a) + Len(e), size) :
            Kept(a, e, size)[i] = IF i <= Len(a) THEN a[i] ELSE e[i - Len(a)]
  BY <1>2, KeptIs
<1> DEFINE m == Len(a)
           k == Kept(a, e, size)
<1>4. /\ m \in Nat /\ k \in Seq(W) /\ Len(k) = Least(m + Len(e), size)
      /\ \A i \in 1 .. Least(m + Len(e), size) : k[i] = IF i <= m THEN a[i] ELSE e[i - m]
  BY <1>2, <1>3
<1> HIDE DEF m, k
<1>5. m + Len(e) = m
  BY <1>2, <1>4
<1>6. \A i \in 1 .. Least(m, size) : i <= m
  BY <1>4 DEF Least
<1>7. k \in Seq(W) /\ Len(k) = Least(m, size) /\ \A i \in 1 .. Least(m, size) : k[i] = a[i]
  BY <1>4, <1>5, <1>6
<1>. QED
  BY <1>1, <1>7 DEF m, k

\* What is kept of P and of the block after it, when P has been cut already.
LEMMA KeptTwice ==
    ASSUME NEW W, NEW P \in Seq(W), NEW b \in Seq(W), NEW size \in Nat
    PROVE  Kept(Kept(P, <<>>, size), b, size) = Kept(Cat(P, b), <<>>, size)
<1> DEFINE m == Len(P)
           n == Len(b)
           q == Kept(P, <<>>, size)
           c == Cat(P, b)
           x == Kept(q, b, size)
           y == Kept(c, <<>>, size)
<1>1. m \in Nat /\ n \in Nat
  BY LenProperties
<1>2. /\ c \in Seq(W) /\ Len(c) = m + n
      /\ \A i \in 1 .. m + n : c[i] = IF i <= m THEN P[i] ELSE b[i - m]
  <2>1. c = P \o b
    BY Zenon DEF Cat
  <2> HIDE DEF c
  <2>. QED
    BY <2>1, ConcatProperties
<1>3. /\ q \in Seq(W) /\ Len(q) = Least(m, size)
      /\ \A i \in 1 .. Least(m, size) : q[i] = P[i]
  BY CutIs
<1> HIDE DEF q, c, m, n
<1>4. /\ x \in Seq(W) /\ Len(x) = Least(Len(q) + n, size)
      /\ \A i \in 1 .. Least(Len(q) + n, size) :
            x[i] = IF i <= Len(q) THEN q[i] ELSE b[i - Len(q)]
  BY <1>3, KeptIs DEF n
<1>5. /\ y \in Seq(W) /\ Len(y) = Least(Len(c), size)
      /\ \A i \in 1 .. Least(Len(c), size) : y[i] = c[i]
  BY <1>2, CutIs
<1> HIDE DEF x, y
<1>6. CASE m <= size
  <2>1. Len(q) = m /\ \A i \in 1 .. m : q[i] = P[i]
    BY <1>1, <1>3, <1>6 DEF Least
  <2>2. Len(x) = Len(y)
    BY <1>1, <1>2, <1>4, <1>5, <2>1 DEF Least
  <2>3. ASSUME NEW i \in 1 .. Len(x) PROVE x[i] = y[i]
    <3>1. i \in 1 .. m + n /\ i \in 1 .. Least(m + n, size)
      BY <1>1, <1>4, <2>1, <2>3 DEF Least
    <3>2. y[i] = c[i]
      BY <1>1, <1>2, <1>5, <3>1 DEF Least
    <3>3. x[i] = IF i <= m THEN q[i] ELSE b[i - m]
      BY <1>4, <2>1, <3>1
    <3>. QED
      BY <1>1, <1>2, <2>1, <3>1, <3>2, <3>3
  <2>. QED
    BY <1>4, <1>5, <2>2, <2>3, SeqEqual DEF x, y, q, c
<1>7. CASE ~(m <= size)
  <2>1. Len(q) = size /\ \A i \in 1 .. size : q[i] = P[i]
    BY <1>1, <1>3, <1>7 DEF Least
  <2>2. Len(x) = size /\ Len(y) = size
    BY <1>1, <1>2, <1>4, <1>5, <1>7, <2>1 DEF Least
  <2>3. ASSUME NEW i \in 1 .. size PROVE x[i] = y[i]
    <3>1. x[i] = P[i]
      BY <1>4, <2>1, <2>2
    <3>2. y[i] = c[i] /\ i <= m /\ i \in 1 .. m + n
      BY <1>1, <1>2, <1>5, <1>7, <2>2
    <3>. QED
      BY <1>2, <3>1, <3>2
  <2>. QED
    BY <1>4, <1>5, <2>2, <2>3, SeqEqual DEF x, y, q, c
<1>. QED
  BY <1>6, <1>7

LEMMA KeptNothing ==
    ASSUME NEW size \in Nat
    PROVE  Kept(<<>>, <<>>, size) = <<>>
<1>1. PICK e : e = <<>>
  OBVIOUS
<1>2. e \in Seq({}) /\ Len(e) = 0
  BY <1>1, EmptySeq
<1>3. Kept(e, <<>>, size) \in Seq({}) /\ Len(Kept(e, <<>>, size)) = Least(Len(e), size)
  BY <1>2, CutIs
<1>4. Least(Len(e), size) = 0
  BY <1>2 DEF Least
<1>5. Kept(e, <<>>, size) = <<>>
  BY <1>3, <1>4, EmptySeq
<1>. QED
  BY <1>1, <1>5

-----------------------------------------------------------------------------
(***************************************************************************)
(* The Nodes are a tree.                                                   *)
(***************************************************************************)
NodeFields == {"name", "parent", "hd", "inode", "type", "childs"}

Kids(ns, m) == ToSet(ns[m].childs)

\* The children of m are nodes that know m, each of them once.
KidsOK(ns, m) ==
    /\ DOMAIN ns[m] = NodeFields
    /\ ns[m].childs \in Seq(DOMAIN ns \ {Root})
    /\ \A i \in 1 .. Len(ns[m].childs) : ns[ns[m].childs[i]].parent = m
    /\ \A i, j \in 1 .. Len(ns[m].childs) : ns[m].childs[i] = ns[m].childs[j] => i = j

ParentOK(ns, m) ==
    /\ ns[m].parent \in DOMAIN ns
    /\ m # Root => m \in Kids(ns, ns[m].parent)

ClosedIn(ns, S) == \A m \in S : Kids(ns, m) \subseteq S

\* Every node is below the root.
AllBelowRoot(ns) ==
    \A S \in SUBSET DOMAIN ns : Root \in S /\ ClosedIn(ns, S) => S = DOMAIN ns

IsTree(ns) ==
    /\ DOMAIN ns \subseteq Nat /\ IsFiniteSet(DOMAIN ns) /\ Root \in DOMAIN ns
    /\ ns[Root].parent = Root
    /\ \A m \in DOMAIN ns : KidsOK(ns, m) /\ ParentOK(ns, m)
    /\ AllBelowRoot(ns)

\* Membership among the children.
LEMMA KidsAre ==
    ASSUME NEW ns, NEW m, NEW S, ns[m].childs \in Seq(S)
    PROVE  /\ \A k : k \in Kids(ns, m) <=> \E i \in 1 .. Len(ns[m].childs) : ns[m].childs[i] = k
           /\ Kids(ns, m) \subseteq S
<1>1. DOMAIN ns[m].childs = 1 .. Len(ns[m].childs)
  BY LenProperties
<1>2. \A i \in 1 .. Len(ns[m].childs) : ns[m].childs[i] \in S
  BY ElementOfSeq
<1>. QED
  BY <1>1, <1>2 DEF Kids, ToSet

\* The children of a node of the tree.
LEMMA TreeKids ==
    ASSUME NEW ns, IsTree(ns), NEW m \in DOMAIN ns
    PROVE  /\ Kids(ns, m) \subseteq DOMAIN ns \ {Root}
           /\ \A k \in DOMAIN ns \ {Root} : k \in Kids(ns, m) <=> ns[k].parent = m
<1>1. KidsOK(ns, m) /\ \A k \in DOMAIN ns : ParentOK(ns, k)
  BY DEF IsTree
<1>2. /\ \A k : k \in Kids(ns, m) <=> \E i \in 1 .. Len(ns[m].childs) : ns[m].childs[i] = k
      /\ Kids(ns, m) \subseteq DOMAIN ns \ {Root}
  BY <1>1, KidsAre DEF KidsOK
<1>3. ASSUME NEW k \in Kids(ns, m) PROVE ns[k].parent = m
  BY <1>1, <1>2, <1>3 DEF KidsOK
<1>4. ASSUME NEW k \in DOMAIN ns \ {Root}, ns[k].parent = m PROVE k \in Kids(ns, m)
  BY <1>1, <1>4 DEF ParentOK
<1>. QED
  BY <1>2, <1>3, <1>4

\* Closed is ClosedIn of the nodes.
LEMMA ClosedIs == \A S : Closed(S) <=> ClosedIn(nodes, S)
BY DEF Closed, ClosedIn, Kids

\* A subtree holds its node, is closed, and is in every closed set with the node.
LEMMA SubtreeIs ==
    ASSUME IsTree(nodes), NEW n \in DOMAIN nodes
    PROVE  /\ Subtree(n) \subseteq DOMAIN nodes /\ n \in Subtree(n)
           /\ ClosedIn(nodes, Subtree(n))
           /\ \A S \in SUBSET DOMAIN nodes : n \in S /\ ClosedIn(nodes, S) => Subtree(n) \subseteq S
<1>1. \A m : m \in Subtree(n) <=>
               /\ m \in DOMAIN nodes
               /\ \A S \in SUBSET DOMAIN nodes : n \in S /\ ClosedIn(nodes, S) => m \in S
  BY ClosedIs DEF Subtree
<1>2. ASSUME NEW m \in Subtree(n), NEW k \in Kids(nodes, m) PROVE k \in Subtree(n)
  <2>1. m \in DOMAIN nodes /\ k \in DOMAIN nodes
    BY <1>1, <1>2, TreeKids
  <2>2. ASSUME NEW S \in SUBSET DOMAIN nodes, n \in S, ClosedIn(nodes, S) PROVE k \in S
    BY <1>1, <1>2, <2>2 DEF ClosedIn
  <2>. QED
    BY <1>1, <2>1, <2>2
<1>. QED
  BY <1>1, <1>2 DEF ClosedIn

\* What is in a subtree, other than its node, has its parent in it.
LEMMA SubtreeParent ==
    ASSUME IsTree(nodes), NEW n \in DOMAIN nodes, NEW k \in Subtree(n), k # n
    PROVE  k # Root /\ nodes[k].parent \in Subtree(n)
<1> DEFINE S == Subtree(n) \ {k}
<1> SUFFICES ASSUME k = Root \/ nodes[k].parent \notin Subtree(n) PROVE FALSE
  OBVIOUS
<1>1. Subtree(n) \subseteq DOMAIN nodes /\ n \in S /\ S \in SUBSET DOMAIN nodes
  BY SubtreeIs
<1>2. ASSUME NEW m \in S, NEW c \in Kids(nodes, m) PROVE c \in S
  <2>1. c \in Subtree(n) /\ m \in DOMAIN nodes /\ m \in Subtree(n)
    BY <1>1, <1>2, SubtreeIs DEF ClosedIn
  <2>2. c # Root /\ nodes[c].parent = m
    BY <2>1, TreeKids
  <2>3. c # k
    BY <2>1, <2>2
  <2>. QED
    BY <2>1, <2>3
<1>3. ClosedIn(nodes, S)
  BY <1>2 DEF ClosedIn
<1>. QED
  BY <1>1, <1>3, SubtreeIs

\* No node is below itself.
LEMMA NoCycle ==
    ASSUME IsTree(nodes), NEW n \in DOMAIN nodes, NEW c \in Kids(nodes, n)
    PROVE  n \notin Subtree(c)
<1> SUFFICES ASSUME n \in Subtree(c) PROVE FALSE
  OBVIOUS
<1>1. c \in DOMAIN nodes \ {Root} /\ nodes[c].parent = n
  BY TreeKids
<1>2. ClosedIn(nodes, Subtree(c)) /\ c \in Subtree(c)
  BY <1>1, SubtreeIs
<1> DEFINE S == DOMAIN nodes \ Subtree(c)
<1>3. ASSUME NEW k \in Subtree(c) PROVE k # Root /\ nodes[k].parent \in Subtree(c)
  <2>1. CASE k = c
    BY <1>1, <2>1
  <2>2. CASE k # c
    BY <1>1, <2>2, SubtreeParent
  <2>. QED
    BY <2>1, <2>2
<1>4. ASSUME NEW m \in S, NEW k \in Kids(nodes, m) PROVE k \in S
  <2>1. k \in DOMAIN nodes \ {Root} /\ nodes[k].parent = m
    BY TreeKids
  <2>. QED
    BY <1>3, <2>1
<1>5. Root \in S /\ S \in SUBSET DOMAIN nodes /\ ClosedIn(nodes, S)
  BY <1>3, <1>4 DEF ClosedIn, IsTree
<1>6. S = DOMAIN nodes
  BY <1>5 DEF IsTree, AllBelowRoot
<1>. QED
  BY <1>6

\* What lookup deletes below n.
Gone(n) == UNION {Subtree(c) : c \in Kids(nodes, n)}

LEMMA GoneIs ==
    ASSUME IsTree(nodes), NEW n \in DOMAIN nodes
    PROVE  /\ Gone(n) \subseteq DOMAIN nodes \ {Root}
           /\ n \notin Gone(n) /\ Kids(nodes, n) \subseteq Gone(n)
           /\ \A k \in DOMAIN nodes \ {Root} :
                 nodes[k].parent # n => (k \in Gone(n) <=> nodes[k].parent \in Gone(n))
<1>1. ASSUME NEW c \in Kids(nodes, n)
      PROVE  /\ c \in DOMAIN nodes \ {Root} /\ nodes[c].parent = n /\ n \notin Subtree(c)
             /\ c \in Subtree(c) /\ Subtree(c) \subseteq DOMAIN nodes /\ ClosedIn(nodes, Subtree(c))
             /\ \A k \in Subtree(c) : k # c => k # Root /\ nodes[k].parent \in Subtree(c)
  <2>1. c \in DOMAIN nodes \ {Root} /\ nodes[c].parent = n
    BY TreeKids
  <2>. QED
    BY <2>1, NoCycle, SubtreeIs, SubtreeParent
<1>2. Gone(n) \subseteq DOMAIN nodes \ {Root} /\ n \notin Gone(n) /\ Kids(nodes, n) \subseteq Gone(n)
  BY <1>1 DEF Gone
<1>3. ASSUME NEW k \in DOMAIN nodes \ {Root}, nodes[k].parent # n
      PROVE  k \in Gone(n) <=> nodes[k].parent \in Gone(n)
  <2>1. ASSUME k \in Gone(n) PROVE nodes[k].parent \in Gone(n)
    BY <1>1, <1>3, <2>1 DEF Gone
  <2>2. ASSUME nodes[k].parent \in Gone(n) PROVE k \in Gone(n)
    <3>1. PICK c \in Kids(nodes, n) : nodes[k].parent \in Subtree(c)
      BY <2>2 DEF Gone
    <3>2. k \in Kids(nodes, nodes[k].parent)
      BY DEF IsTree, ParentOK
    <3>3. k \in Subtree(c)
      BY <1>1, <3>1, <3>2 DEF ClosedIn
    <3>. QED
      BY <3>1, <3>3 DEF Gone
  <2>. QED
    BY <2>1, <2>2
<1>. QED
  BY <1>2, <1>3

\* The tree without what is below n.
LEMMA EmptiedIs ==
    ASSUME IsTree(nodes), NEW n \in DOMAIN nodes
    PROVE  /\ DOMAIN Emptied(n) = DOMAIN nodes \ Gone(n)
           /\ \A m \in DOMAIN nodes \ Gone(n) :
                 /\ DOMAIN Emptied(n)[m] = NodeFields
                 /\ Emptied(n)[m].childs = IF m = n THEN <<>> ELSE nodes[m].childs
                 /\ Emptied(n)[m].parent = nodes[m].parent
                 /\ Emptied(n)[m].name = nodes[m].name
                 /\ Emptied(n)[m].hd = nodes[m].hd
                 /\ Emptied(n)[m].inode = nodes[m].inode
                 /\ Emptied(n)[m].type = nodes[m].type
<1>1. Emptied(n) = [m \in DOMAIN nodes \ Gone(n) |->
                      [nodes[m] EXCEPT !.childs = IF m = n THEN <<>> ELSE @]]
  BY DEF Emptied, Gone, Kids
<1>2. \A m \in DOMAIN nodes : DOMAIN nodes[m] = NodeFields
  BY DEF IsTree, KidsOK
<1>. QED
  BY <1>1, <1>2 DEF NodeFields

\* Deleting what is below n leaves a tree.
LEMMA EmptiedTree ==
    ASSUME IsTree(nodes), NEW n \in DOMAIN nodes
    PROVE  IsTree(Emptied(n)) /\ n \in DOMAIN Emptied(n)
<1> DEFINE ns == Emptied(n)
           D == DOMAIN nodes
           G == Gone(n)
<1>1. /\ DOMAIN ns = D \ G
      /\ \A m \in D \ G : /\ DOMAIN ns[m] = NodeFields
                          /\ ns[m].childs = IF m = n THEN <<>> ELSE nodes[m].childs
                          /\ ns[m].parent = nodes[m].parent
  BY EmptiedIs
<1>2. /\ G \subseteq D \ {Root} /\ n \notin G /\ Kids(nodes, n) \subseteq G
      /\ \A k \in D \ {Root} : nodes[k].parent # n => (k \in G <=> nodes[k].parent \in G)
  BY GoneIs
<1>3. /\ D \subseteq Nat /\ IsFiniteSet(D) /\ Root \in D /\ nodes[Root].parent = Root
      /\ \A m \in D : KidsOK(nodes, m) /\ ParentOK(nodes, m)
      /\ AllBelowRoot(nodes)
  BY DEF IsTree
<1>4. \A m \in D : /\ Kids(nodes, m) \subseteq D \ {Root}
                   /\ \A k \in D \ {Root} : k \in Kids(nodes, m) <=> nodes[k].parent = m
  BY TreeKids
<1> HIDE DEF ns, D, G
<1>5. IsFiniteSet(D \ G)
  BY <1>3, FS_Difference
<1>6. \A m \in D \ G : m # n => Kids(nodes, m) \subseteq D \ G
  BY <1>2, <1>4
<1>7. ASSUME NEW m \in D \ G PROVE KidsOK(ns, m)
  <2>1. CASE m = n
    <3>1. ns[m].childs = <<>> /\ DOMAIN ns[m] = NodeFields
      BY <1>1, <1>7, <2>1
    <3>2. <<>> \in Seq(DOMAIN ns \ {Root}) /\ 1 .. Len(<<>>) = {}
      BY EmptySeq
    <3>. QED
      BY <3>1, <3>2 DEF KidsOK
  <2>2. CASE m # n
    <3> DEFINE ch == nodes[m].childs
    <3>1. ch \in Seq(D \ {Root}) /\ ns[m].childs = ch /\ KidsOK(nodes, m)
      BY <1>1, <1>3, <1>7, <2>2 DEF KidsOK, D
    <3>2. \A i \in 1 .. Len(ch) : ch[i] \in (D \ G) \ {Root}
      <4>1. \A i \in 1 .. Len(ch) : ch[i] \in Kids(nodes, m)
        BY <3>1, KidsAre
      <4>. QED
        BY <1>4, <1>6, <1>7, <2>2, <4>1
    <3>3. ch \in Seq((D \ G) \ {Root})
      <4>1. Len(ch) \in Nat /\ ch \in [1 .. Len(ch) -> D \ {Root}]
        BY <3>1, LenProperties
      <4>2. ch \in [1 .. Len(ch) -> (D \ G) \ {Root}]
        BY <3>2, <4>1
      <4>. QED
        BY <4>1, <4>2, SeqDef
    <3>4. \A i \in 1 .. Len(ch) : ns[ch[i]].parent = m
      BY <1>1, <3>1, <3>2 DEF KidsOK
    <3> HIDE DEF ch
    <3>. QED
      BY <1>1, <1>7, <3>1, <3>3, <3>4 DEF KidsOK, ch
  <2>. QED
    BY <2>1, <2>2
<1>8. ASSUME NEW m \in D \ G PROVE ParentOK(ns, m)
  <2>1. CASE m = Root
    BY <1>1, <1>2, <1>3, <1>8, <2>1 DEF ParentOK
  <2>2. CASE m # Root
    <3>1. nodes[m].parent \in D /\ m \in Kids(nodes, nodes[m].parent)
      BY <1>3, <1>8, <2>2 DEF ParentOK, D
    <3>2. nodes[m].parent # n
      BY <1>2, <1>8, <3>1
    <3>3. nodes[m].parent \in D \ G
      BY <1>2, <1>8, <2>2, <3>1, <3>2
    <3>4. Kids(ns, nodes[m].parent) = Kids(nodes, nodes[m].parent)
      BY <1>1, <3>2, <3>3 DEF Kids
    <3>. QED
      BY <1>1, <1>8, <3>1, <3>3, <3>4 DEF ParentOK
  <2>. QED
    BY <2>1, <2>2
<1>9. AllBelowRoot(ns)
  <2> SUFFICES ASSUME NEW S \in SUBSET (D \ G), Root \in S, ClosedIn(ns, S)
               PROVE  S = D \ G
    BY <1>1 DEF AllBelowRoot
  <2>1. ASSUME NEW m \in S \cup G, NEW k \in Kids(nodes, m) PROVE k \in S \cup G
    <3>1. CASE m = n
      BY <1>2, <2>1, <3>1
    <3>2. CASE m \in S /\ m # n
      <4>1. Kids(ns, m) = Kids(nodes, m)
        BY <1>1, <3>2 DEF Kids
      <4>. QED
        BY <2>1, <3>2, <4>1 DEF ClosedIn
    <3>3. CASE m \in G
      <4>1. m \in D /\ k \in D \ {Root} /\ nodes[k].parent = m
        BY <1>2, <1>4, <2>1, <3>3
      <4>. QED
        BY <1>2, <3>3, <4>1
    <3>. QED
      BY <3>1, <3>2, <3>3
  <2>2. ClosedIn(nodes, S \cup G) /\ S \cup G \in SUBSET D
    BY <1>2, <2>1 DEF ClosedIn
  <2>3. S \cup G = D
    BY <1>3, <2>2 DEF AllBelowRoot, D
  <2>. QED
    BY <2>3
<1>10. n \in D
  BY DEF D
<1>. QED
  BY <1>1, <1>2, <1>3, <1>5, <1>7, <1>8, <1>9, <1>10 DEF IsTree, ns

-----------------------------------------------------------------------------
\* There is an address for the next node.
LEMMA FreshIs ==
    ASSUME IsTree(nodes)
    PROVE  Fresh \in Nat \ {0} /\ Fresh \notin DOMAIN nodes
<1> DEFINE D == DOMAIN nodes
           k == Cardinality(D)
<1>1. D \subseteq Nat /\ IsFiniteSet(D) /\ 0 \in D
  BY DEF IsTree, Root
<1>2. k \in Nat
  BY <1>1, FS_CardinalityType
<1> HIDE DEF k, D
<1>3. \E n \in 1 .. k : n \notin D
  <2> SUFFICES ASSUME 1 .. k \subseteq D PROVE FALSE
    OBVIOUS
  <2>1. 0 .. k \subseteq D
    BY <1>1, <1>2
  <2>2. IsFiniteSet(0 .. k) /\ Cardinality(0 .. k) = k + 1
    BY <1>2, FS_Interval
  <2>3. Cardinality(0 .. k) <= Cardinality(D)
    BY <1>1, <2>1, FS_Subset
  <2>. QED
    BY <1>2, <2>2, <2>3 DEF k
<1>4. Fresh = CHOOSE n \in 1 .. k : n \notin D
  BY DEF Fresh, k, D
<1>5. Fresh \in 1 .. k /\ Fresh \notin D
  BY <1>3, <1>4, Zenon
<1>. QED
  BY <1>2, <1>5 DEF D

\* ns has one node more than nodes, the last child of p.
Grown(ns, p, name, hd, inode, type) ==
    /\ DOMAIN ns = DOMAIN nodes \cup {Fresh}
    /\ \A m \in DOMAIN ns : DOMAIN ns[m] = NodeFields
    /\ ns[Fresh].name = name /\ ns[Fresh].parent = p /\ ns[Fresh].hd = hd
    /\ ns[Fresh].inode = inode /\ ns[Fresh].type = type /\ ns[Fresh].childs = <<>>
    /\ \A m \in DOMAIN nodes :
          /\ ns[m].name = nodes[m].name
          /\ ns[m].parent = nodes[m].parent
          /\ ns[m].hd = nodes[m].hd
          /\ ns[m].inode = nodes[m].inode
          /\ ns[m].type = nodes[m].type
          /\ m # p => ns[m].childs = nodes[m].childs
    /\ ns[p].childs = Append(nodes[p].childs, Fresh)

LEMMA ChildIs ==
    ASSUME IsTree(nodes), NEW p \in DOMAIN nodes, NEW name, NEW hd, NEW inode, NEW type
    PROVE  Grown(Child(p, name, hd, inode, type), p, name, hd, inode, type)
<1>1. Fresh \notin DOMAIN nodes
  BY FreshIs
<1>2. \A m \in DOMAIN nodes : DOMAIN nodes[m] = NodeFields
  BY DEF IsTree, KidsOK
<1> HIDE DEF Fresh
<1>. QED
  BY <1>1, <1>2 DEF Child, NodeFields, Grown

\* Adding a node to the children of p leaves a tree.
LEMMA ChildTree ==
    ASSUME IsTree(nodes), NEW p \in DOMAIN nodes, NEW name, NEW hd, NEW inode, NEW type
    PROVE  IsTree(Child(p, name, hd, inode, type))
<1> DEFINE ns == Child(p, name, hd, inode, type)
           D == DOMAIN nodes
           f == Fresh
<1>1. /\ DOMAIN ns = D \cup {f}
      /\ \A m \in D \cup {f} : DOMAIN ns[m] = NodeFields
      /\ ns[f].parent = p /\ ns[f].childs = <<>>
      /\ \A m \in D : /\ ns[m].parent = nodes[m].parent
                      /\ m # p => ns[m].childs = nodes[m].childs
      /\ ns[p].childs = Append(nodes[p].childs, f)
  <2> HIDE DEF ns
  <2>1. Grown(ns, p, name, hd, inode, type)
    BY ChildIs DEF ns
  <2>. QED
    BY <2>1 DEF Grown
<1>2. /\ D \subseteq Nat /\ IsFiniteSet(D) /\ Root \in D /\ nodes[Root].parent = Root
      /\ \A m \in D : KidsOK(nodes, m) /\ ParentOK(nodes, m)
      /\ AllBelowRoot(nodes)
  BY DEF IsTree
<1>3. f \in Nat /\ f \notin D /\ f # Root
  BY FreshIs DEF Root
<1>4. p \in D
  BY DEF D
<1>0. \A m \in D : KidsOK(nodes, m) <=>
                     /\ DOMAIN nodes[m] = NodeFields
                     /\ nodes[m].childs \in Seq(D \ {Root})
                     /\ \A i \in 1 .. Len(nodes[m].childs) : nodes[nodes[m].childs[i]].parent = m
                     /\ \A i, j \in 1 .. Len(nodes[m].childs) :
                           nodes[m].childs[i] = nodes[m].childs[j] => i = j
  BY DEF KidsOK
<1> HIDE DEF ns, D, f
<1>5. IsFiniteSet(D \cup {f})
  BY <1>2, FS_AddElement
<1>6. \A m \in D : Kids(ns, m) = IF m = p THEN Kids(nodes, m) \cup {f} ELSE Kids(nodes, m)
  <2>1. ASSUME NEW m \in D, m # p PROVE Kids(ns, m) = Kids(nodes, m)
    BY <1>1, <2>1 DEF Kids
  <2>2. Kids(ns, p) = Kids(nodes, p) \cup {f}
    <3>1. nodes[p].childs \in Seq(D \ {Root})
      BY <1>0, <1>2, <1>4
    <3>2. DOMAIN nodes[p].childs = 1 .. Len(nodes[p].childs) /\ Len(nodes[p].childs) \in Nat
      BY <3>1, LenProperties
    <3>3. nodes[p].childs \in Seq((D \ {Root}) \cup {f})
      BY <3>1, SeqMonotonic
    <3>4. /\ Append(nodes[p].childs, f) \in Seq((D \ {Root}) \cup {f})
          /\ Len(Append(nodes[p].childs, f)) = Len(nodes[p].childs) + 1
          /\ \A i \in 1 .. Len(nodes[p].childs) : Append(nodes[p].childs, f)[i] = nodes[p].childs[i]
          /\ Append(nodes[p].childs, f)[Len(nodes[p].childs) + 1] = f
      BY <3>3, AppendProperties
    <3>5. DOMAIN ns[p].childs = 1 .. Len(nodes[p].childs) + 1
      BY <1>1, <3>4, LenProperties
    <3>. QED
      BY <1>1, <3>2, <3>4, <3>5 DEF Kids, ToSet
  <2>. QED
    BY <2>1, <2>2
<1>7. Kids(ns, f) = {}
  <2>1. DOMAIN <<>> = {}
    OBVIOUS
  <2>. QED
    BY <1>1, <2>1 DEF Kids, ToSet
<1>8. ASSUME NEW m \in D \cup {f} PROVE KidsOK(ns, m)
  <2>1. CASE m = f
    <3>1. ns[m].childs = <<>> /\ DOMAIN ns[m] = NodeFields
      BY <1>1, <2>1
    <3>2. <<>> \in Seq(DOMAIN ns \ {Root}) /\ 1 .. Len(<<>>) = {}
      BY EmptySeq
    <3>. QED
      BY <3>1, <3>2 DEF KidsOK
  <2>2. CASE m # f
    <3> DEFINE ch == nodes[m].childs
    <3>1. /\ ch \in Seq(D \ {Root}) /\ DOMAIN nodes[m] = NodeFields
          /\ \A i \in 1 .. Len(ch) : nodes[ch[i]].parent = m
          /\ \A i, j \in 1 .. Len(ch) : ch[i] = ch[j] => i = j
      BY <1>0, <1>2, <1>8, <2>2
    <3> HIDE DEF ch
    <3>2. /\ ch \in Seq((D \cup {f}) \ {Root}) /\ Len(ch) \in Nat
          /\ \A i \in 1 .. Len(ch) : ch[i] \in D
      BY <1>3, <3>1, SeqMonotonic, LenProperties, ElementOfSeq
    <3>3. CASE m # p
      <4>1. ns[m].childs = ch
        BY <1>1, <1>8, <2>2, <3>3 DEF ch
      <4>2. \A i \in 1 .. Len(ch) : ns[ch[i]].parent = m
        BY <1>1, <3>1, <3>2
      <4>. QED
        BY <1>1, <1>8, <3>1, <3>2, <4>1, <4>2 DEF KidsOK
    <3>4. CASE m = p
      <4> DEFINE g == Append(ch, f)
      <4>1. ns[m].childs = g
        BY <1>1, <3>4 DEF ch
      <4>2. /\ g \in Seq((D \cup {f}) \ {Root}) /\ Len(g) = Len(ch) + 1
            /\ \A i \in 1 .. Len(ch) : g[i] = ch[i]
            /\ g[Len(ch) + 1] = f
        BY <1>3, <3>2, AppendProperties
      <4> HIDE DEF g
      <4>3. \A i \in 1 .. Len(g) : i \in 1 .. Len(ch) \/ i = Len(ch) + 1
        BY <3>2, <4>2
      <4>4. \A i \in 1 .. Len(g) : ns[g[i]].parent = m
        BY <1>1, <3>1, <3>2, <3>4, <4>2, <4>3
      <4>5. ASSUME NEW i \in 1 .. Len(g), NEW j \in 1 .. Len(g), g[i] = g[j] PROVE i = j
        BY <1>3, <3>1, <3>2, <4>2, <4>3, <4>5
      <4>. QED
        BY <1>1, <1>8, <4>1, <4>2, <4>4, <4>5 DEF KidsOK
    <3>. QED
      BY <3>3, <3>4
  <2>. QED
    BY <2>1, <2>2
<1>9. ASSUME NEW m \in D \cup {f} PROVE ParentOK(ns, m)
  <2>1. CASE m = f
    BY <1>1, <1>4, <1>6, <2>1 DEF ParentOK
  <2>2. CASE m # f
    <3>1. m \in D /\ nodes[m].parent \in D /\ (m # Root => m \in Kids(nodes, nodes[m].parent))
      BY <1>2, <1>9, <2>2 DEF ParentOK, D
    <3>. QED
      BY <1>1, <1>6, <3>1 DEF ParentOK
  <2>. QED
    BY <2>1, <2>2
<1>10. AllBelowRoot(ns)
  <2> SUFFICES ASSUME NEW S \in SUBSET (D \cup {f}), Root \in S, ClosedIn(ns, S)
               PROVE  S = D \cup {f}
    BY <1>1 DEF AllBelowRoot
  <2>1. \A m \in D : Kids(nodes, m) \subseteq D
    BY TreeKids DEF D
  <2>2. ClosedIn(nodes, S \cap D) /\ S \cap D \in SUBSET D /\ Root \in S \cap D
    BY <1>2, <1>6, <2>1 DEF ClosedIn
  <2>3. S \cap D = D
    BY <1>2, <2>2 DEF AllBelowRoot, D
  <2>4. f \in S
    BY <1>4, <1>6, <2>3 DEF ClosedIn
  <2>. QED
    BY <2>3, <2>4
<1>11. ns[Root].parent = Root
  BY <1>1, <1>2
<1>12. D \cup {f} \subseteq Nat
  BY <1>2, <1>3
<1>. QED
  BY <1>1, <1>2, <1>5, <1>8, <1>9, <1>10, <1>11, <1>12 DEF IsTree, ns

-----------------------------------------------------------------------------
(***************************************************************************)
(* What each step does to the locals of the reader, when there is one.     *)
(***************************************************************************)
L == task[Boot]

LocalFields ==
    {"pc", "want", "buf", "i", "table", "sb", "gd", "goal", "path", "current", "todo", "data", "node"}

Same(fs) == \A f \in fs : task'[Boot][f] = task[Boot][f]

Shape == DOMAIN task = {Boot} /\ DOMAIN asked = {Boot} /\ DOMAIN L = LocalFields

LEMMA LocalsAre ==
    /\ DOMAIN Locals = LocalFields
    /\ Locals.pc = "idle" /\ Locals.want = Reads!Nothing /\ Locals.table = <<>>
    /\ Locals.path = <<>> /\ Locals.goal = <<>> /\ Locals.current = Root
    /\ Locals.todo = <<>> /\ Locals.data = <<>> /\ Locals.node = Null
BY DEF Locals, LocalFields

\* A request is no answer.
LEMMA RequestIs ==
    ASSUME NEW what, NEW part, NEW at, NEW index
    PROVE  /\ Request(what, part, at, index) # Reads!Nothing
           /\ Request(what, part, at, index).what = what
           /\ Request(what, part, at, index).part = part
           /\ Request(what, part, at, index).at = at
           /\ Request(what, part, at, index).index = index
<1>1. DOMAIN Request(what, part, at, index) = {"what", "part", "at", "index"}
  BY DEF Request
<1>2. DOMAIN Reads!Nothing = {"none"}
  BY DEF Reads!Nothing
<1>. QED
  BY <1>1, <1>2 DEF Request

LEMMA AskIs ==
    ASSUME Shape, Ask(Boot)
    PROVE  /\ Shape' /\ task' = task /\ UNCHANGED <<nodes, history>>
           /\ L.want # Reads!Nothing /\ asked'[Boot] = L.want /\ Boot \notin driveErr'
BY DEF Ask, Reads!Ask, Shape, L

LEMMA DriveErrorIs ==
    ASSUME Shape, DriveError(Boot)
    PROVE  /\ Shape' /\ UNCHANGED <<task, nodes, asked>>
           /\ mountFault' = (mountFault \/ Mounting(Boot)) /\ Boot \in fault'
BY DEF DriveError, Reads!DriveError, Failing, Shape, L

LEMMA FilledIs ==
    ASSUME Shape, NEW c, Filled(Boot, c)
    PROVE  /\ DOMAIN task' = {Boot} /\ DOMAIN L' = LocalFields
           /\ L'.buf = Buffer(asked[Boot].what, c) /\ L'.want = Reads!Nothing
           /\ Same(LocalFields \ {"buf", "want"})
BY DEF Filled, Shape, L, LocalFields, Same

LEMMA ReplyIs ==
    ASSUME Shape, Reply(Boot)
    PROVE  /\ Shape' /\ UNCHANGED <<nodes, history>> /\ Same(LocalFields \ {"buf", "want"})
           /\ asked[Boot] # Reads!Nothing /\ asked'[Boot] = Reads!Nothing
           /\ L'.want = Reads!Nothing
           /\ Boot \notin driveErr => L'.buf = Buffer(asked[Boot].what, Content(asked[Boot]))
<1>1. PICK c : /\ Reads!Answer(Boot, Reads!Success(Buffer(asked[Boot].what, c)))
               /\ Filled(Boot, c)
               /\ Boot \notin driveErr => c = Content(asked[Boot])
  BY DEF Reply
<1>2. /\ asked[Boot] # Reads!Nothing /\ DOMAIN asked' = {Boot}
      /\ asked'[Boot] = Reads!Nothing
  BY <1>1 DEF Reads!Answer, Shape
<1>3. UNCHANGED <<nodes, history>>
  BY DEF Reply
<1>4. /\ DOMAIN task' = {Boot} /\ DOMAIN L' = LocalFields
      /\ L'.buf = Buffer(asked[Boot].what, c) /\ L'.want = Reads!Nothing
      /\ Same(LocalFields \ {"buf", "want"})
  BY <1>1, FilledIs
<1>. QED
  BY <1>1, <1>2, <1>3, <1>4 DEF Shape

LEMMA ReplyFailureIs ==
    ASSUME Shape, ReplyFailure(Boot)
    PROVE  /\ Shape' /\ UNCHANGED nodes /\ Same(LocalFields \ {"buf", "want"})
           /\ asked'[Boot] = Reads!Nothing /\ L'.want = Reads!Nothing
           /\ mountFault' = (mountFault \/ Mounting(Boot)) /\ Boot \in fault'
<1>1. PICK c : Filled(Boot, c)
  BY DEF ReplyFailure
<1>2. DOMAIN asked' = {Boot} /\ asked'[Boot] = Reads!Nothing
  BY DEF ReplyFailure, Reads!Answer, Shape
<1>3. UNCHANGED nodes /\ mountFault' = (mountFault \/ Mounting(Boot)) /\ Boot \in fault'
  BY DEF ReplyFailure, Failing
<1>4. /\ DOMAIN task' = {Boot} /\ DOMAIN L' = LocalFields /\ L'.want = Reads!Nothing
      /\ Same(LocalFields \ {"buf", "want"})
  BY <1>1, FilledIs
<1>. QED
  BY <1>2, <1>3, <1>4 DEF Shape

\* Nothing but the locals and the nodes changes, and the buffer was filled.
Runs(pc) ==
    /\ Shape' /\ UNCHANGED <<asked, driveErr, history>>
    /\ L.pc = pc /\ L.want = Reads!Nothing

\* mountAll goes on.
ToPart(table, i) ==
    \/ /\ \A j \in i + 1 .. NParts : table[j] \notin Ext2Types
       /\ L' = Locals
    \/ \E j \in i + 1 .. NParts :
          /\ table[j] \in Ext2Types
          /\ \A k \in i + 1 .. j - 1 : table[k] \notin Ext2Types
          /\ L'.pc = "sb" /\ L'.table = table /\ L'.i = j
          /\ L'.want = Request("sb", j, 0, 0)

LEMMA NextPartIs ==
    ASSUME Shape, NEW table, NEW i \in 0 .. NParts, NextPart(Boot, table, i)
    PROVE  DOMAIN task' = {Boot} /\ DOMAIN L' = LocalFields /\ ToPart(table, i)
<1> DEFINE due == {j \in i + 1 .. NParts : table[j] \in Ext2Types}
           j0 == CHOOSE k \in due : \A l \in due : k <= l
<1>1. task' = [task EXCEPT ![Boot] =
                   IF due = {} THEN Locals
                   ELSE [Locals EXCEPT !.pc = "sb", !.table = table, !.i = j0,
                                       !.want = Request("sb", j0, 0, 0)]]
  BY DEF NextPart
<1> HIDE DEF j0
<1>2. L' = IF due = {} THEN Locals
           ELSE [Locals EXCEPT !.pc = "sb", !.table = table, !.i = j0,
                               !.want = Request("sb", j0, 0, 0)]
  BY <1>1 DEF L, Shape
<1>3. CASE due = {}
  BY <1>1, <1>2, <1>3, LocalsAre DEF Shape, ToPart
<1>4. CASE due # {}
  <2>1. \E k \in due : \A l \in due : k <= l
    <3>1. due \subseteq 1 .. 4
      BY DEF NParts
    <3>2. due \in SUBSET Nat
      BY <3>1
    <3> HIDE DEF due
    <3>. QED
      BY <1>4, <3>2, HasLeast
  <2>2. j0 \in due /\ \A l \in due : j0 <= l
    BY <2>1, Zenon DEF j0
  <2>3. /\ j0 \in i + 1 .. NParts /\ table[j0] \in Ext2Types
        /\ \A k \in i + 1 .. j0 - 1 : table[k] \notin Ext2Types
    BY <2>2 DEF NParts
  <2>4. /\ L'.pc = "sb" /\ L'.table = table /\ L'.i = j0 /\ L'.want = Request("sb", j0, 0, 0)
        /\ DOMAIN L' = LocalFields
    BY <1>2, <1>4, LocalsAre DEF LocalFields
  <2>5. DOMAIN task' = {Boot}
    BY <1>1 DEF Shape
  <2>. QED
    BY <2>3, <2>4, <2>5 DEF ToPart
<1>. QED
  BY <1>3, <1>4

LEMMA IsMBRIs ==
    ASSUME Shape, IsMBR(Boot)
    PROVE  /\ Runs("mbr") /\ UNCHANGED nodes
           /\ IF L.buf["mbr"]
              THEN /\ L'.pc = "entry" /\ L'.i = 1 /\ L'.table = <<>>
                   /\ L'.want = Request("entry", 1, 1, 0)
              ELSE L' = Locals
<1>1. /\ L' = IF L.buf["mbr"]
              THEN [Locals EXCEPT !.pc = "entry", !.i = 1, !.want = Request("entry", 1, 1, 0)]
              ELSE Locals
      /\ DOMAIN task' = {Boot}
  BY DEF IsMBR, L, Shape
<1>2. /\ L.pc = "mbr" /\ L.want = Reads!Nothing
      /\ UNCHANGED <<asked, driveErr, history, nodes>>
  BY DEF IsMBR, At, L, Silent, disk
<1>. QED
  BY <1>1, <1>2, LocalsAre DEF Runs, Shape, LocalFields

LEMMA ReadMBRIs ==
    ASSUME Shape, ReadMBR(Boot)
    PROVE  /\ Runs("entry") /\ UNCHANGED nodes
           /\ L.i = NParts => ToPart(Append(L.table, L.buf["entry"]), 0)
           /\ L.i # NParts => /\ L'.pc = "entry" /\ L'.i = L.i + 1
                              /\ L'.table = Append(L.table, L.buf["entry"])
                              /\ L'.want = Request("entry", 1, L.i + 1, 0)
<1>1. /\ L.pc = "entry" /\ L.want = Reads!Nothing
      /\ UNCHANGED <<asked, driveErr, history, nodes>>
  BY DEF ReadMBR, At, L, Silent, disk
<1>2. CASE L.i = NParts
  <2>1. NextPart(Boot, Append(L.table, L.buf["entry"]), 0)
    BY <1>2 DEF ReadMBR, L
  <2>2. 0 \in 0 .. NParts
    BY DEF NParts
  <2>3. /\ DOMAIN task' = {Boot} /\ DOMAIN L' = LocalFields
        /\ ToPart(Append(L.table, L.buf["entry"]), 0)
    BY <2>1, <2>2, NextPartIs
  <2>. QED
    BY <1>1, <1>2, <2>3 DEF Runs, Shape
<1>3. CASE L.i # NParts
  <2>1. /\ DOMAIN task' = {Boot} /\ DOMAIN L' = LocalFields
        /\ L'.pc = L.pc /\ L'.i = L.i + 1 /\ L'.table = Append(L.table, L.buf["entry"])
        /\ L'.want = Request("entry", 1, L.i + 1, 0)
    BY <1>3 DEF ReadMBR, L, Shape, LocalFields
  <2>. QED
    BY <1>1, <1>3, <2>1 DEF Runs, Shape
<1>. QED
  BY <1>2, <1>3

GoodSb(sb) == sb.magic /\ sb.blocksPerGroup # 0 /\ sb.inodesPerGroup # 0

LEMMA ReadSbIs ==
    ASSUME Shape, ReadSb(Boot), L.i \in 1 .. NParts
    PROVE  /\ Runs("sb") /\ UNCHANGED nodes
           /\ GoodSb(L.buf["sb"]) => /\ L'.pc = "gd" /\ L'.sb = L.buf["sb"]
                                     /\ Same({"i", "table"})
                                     /\ L'.want = Request("gd", L.i, Groups(L.buf["sb"]), 0)
           /\ ~GoodSb(L.buf["sb"]) => ToPart(L.table, L.i)
<1>1. /\ L.pc = "sb" /\ L.want = Reads!Nothing
      /\ UNCHANGED <<asked, driveErr, history, nodes>>
  BY DEF ReadSb, At, L, Silent, disk
<1>2. CASE ~GoodSb(L.buf["sb"])
  <2>1. NextPart(Boot, L.table, L.i)
    BY <1>2 DEF ReadSb, GoodSb, L
  <2>2. L.i \in 0 .. NParts
    BY DEF NParts
  <2>3. DOMAIN task' = {Boot} /\ DOMAIN L' = LocalFields /\ ToPart(L.table, L.i)
    BY <2>1, <2>2, NextPartIs
  <2>. QED
    BY <1>1, <1>2, <2>3 DEF Runs, Shape
<1>3. CASE GoodSb(L.buf["sb"])
  <2>1. task' = [task EXCEPT ![Boot].pc = "gd", ![Boot].sb = L.buf["sb"],
                             ![Boot].want = Request("gd", L.i, Groups(L.buf["sb"]), 0)]
    BY <1>3 DEF ReadSb, GoodSb, L
  <2>2. /\ DOMAIN task' = {Boot} /\ DOMAIN L' = LocalFields
        /\ L'.pc = "gd" /\ L'.sb = L.buf["sb"] /\ Same({"i", "table"})
        /\ L'.want = Request("gd", L.i, Groups(L.buf["sb"]), 0)
    BY <2>1 DEF L, Shape, LocalFields, Same
  <2>. QED
    BY <1>1, <1>3, <2>2 DEF Runs, Shape
<1>. QED
  BY <1>2, <1>3

LEMMA ReadGdIs ==
    ASSUME Shape, ReadGd(Boot), L.i \in 1 .. NParts
    PROVE  /\ Runs("gd") /\ UNCHANGED nodes
           /\ L.sb.incompat \cap Unsupported = {} =>
                 /\ L'.pc = "root" /\ L'.gd = L.buf["gd"] /\ Same({"i", "table", "sb"})
                 /\ L'.want = InodeAt(Ext2Disk(Boot)', EXT2_ROOT_INUM)
           /\ L.sb.incompat \cap Unsupported # {} => ToPart(L.table, L.i)
<1>1. /\ L.pc = "gd" /\ L.want = Reads!Nothing
      /\ UNCHANGED <<asked, driveErr, history, nodes>>
  BY DEF ReadGd, At, L, Silent, disk
<1>2. CASE L.sb.incompat \cap Unsupported # {}
  <2>1. NextPart(Boot, L.table, L.i)
    BY <1>2 DEF ReadGd, L
  <2>2. L.i \in 0 .. NParts
    BY DEF NParts
  <2>3. DOMAIN task' = {Boot} /\ DOMAIN L' = LocalFields /\ ToPart(L.table, L.i)
    BY <2>1, <2>2, NextPartIs
  <2>. QED
    BY <1>1, <1>2, <2>3 DEF Runs, Shape
<1>3. CASE L.sb.incompat \cap Unsupported = {}
  <2> DEFINE w == InodeAt([Ext2Disk(Boot) EXCEPT !.gd = L.buf["gd"]], EXT2_ROOT_INUM)
  <2>1. task' = [task EXCEPT ![Boot].pc = "root", ![Boot].gd = L.buf["gd"], ![Boot].want = w]
    BY <1>3 DEF ReadGd, L
  <2> HIDE DEF w
  <2>2. /\ DOMAIN task' = {Boot} /\ DOMAIN L' = LocalFields
        /\ L'.pc = "root" /\ L'.gd = L.buf["gd"] /\ Same({"i", "table", "sb"})
        /\ L'.want = w
    BY <2>1 DEF L, Shape, LocalFields, Same
  <2>3. Ext2Disk(Boot)' = [Ext2Disk(Boot) EXCEPT !.gd = L.buf["gd"]]
    BY <2>2 DEF Ext2Disk, L, Same
  <2>. QED
    BY <1>1, <1>3, <2>2, <2>3 DEF Runs, Shape, w
<1>. QED
  BY <1>2, <1>3

LEMMA MountIs ==
    ASSUME Shape, Mount(Boot), L.i \in 1 .. NParts
    PROVE  /\ Runs("root") /\ ToPart(L.table, L.i)
           /\ nodes' = Child(Root, MountName(Len(nodes[Root].childs)), Ext2Disk(Boot),
                             L.buf["inode"], NODE_ROOT)
<1>1. /\ L.pc = "root" /\ L.want = Reads!Nothing
      /\ UNCHANGED <<asked, driveErr, history>>
  BY DEF Mount, At, L, Silent, disk
<1>2. NextPart(Boot, L.table, L.i)
  BY DEF Mount, L
<1>3. L.i \in 0 .. NParts
  BY DEF NParts
<1>4. DOMAIN task' = {Boot} /\ DOMAIN L' = LocalFields /\ ToPart(L.table, L.i)
  BY <1>2, <1>3, NextPartIs
<1>. QED
  BY <1>1, <1>4 DEF Runs, Shape, Mount, L

PathFields == {"goal", "path", "current", "node"}

\* A file begins to be read.
Starts(n, pc) ==
    /\ L'.pc = pc /\ L'.todo = Blocks(nodes[n].inode) /\ L'.data = <<>>
    /\ L'.want = BlockRequest(nodes[n].hd, Blocks(nodes[n].inode))

LEMMA LookupIs ==
    ASSUME Shape, Lookup(Boot)
    PROVE  /\ Runs("walk") /\ L.path # <<>> /\ Same(PathFields)
           /\ L.current = Root => /\ UNCHANGED nodes
                                  /\ L'.pc = "pick" /\ L'.want = Reads!Nothing
           /\ L.current # Root =>
                 /\ nodes' = Emptied(L.current)
                 /\ isDirectory(nodes[L.current].inode) => Starts(L.current, "lookup")
                 /\ ~isDirectory(nodes[L.current].inode) => /\ L'.pc = "pick"
                                                            /\ L'.want = Reads!Nothing
<1>1. /\ L.pc = "walk" /\ L.want = Reads!Nothing /\ L.path # <<>>
      /\ UNCHANGED <<asked, driveErr, history>>
  BY DEF Lookup, At, L, Silent, disk
<1>2. CASE L.current = Root
  <2>1. UNCHANGED nodes /\ task' = [task EXCEPT ![Boot].pc = "pick"]
    BY <1>2 DEF Lookup, L
  <2>2. /\ DOMAIN task' = {Boot} /\ DOMAIN L' = LocalFields /\ Same(PathFields)
        /\ L'.pc = "pick" /\ L'.want = L.want
    BY <2>1 DEF L, Shape, LocalFields, PathFields, Same
  <2>. QED
    BY <1>1, <1>2, <2>1, <2>2 DEF Runs, Shape
<1>3. CASE L.current # Root
  <2> DEFINE n == L.current
             todo == Blocks(nodes[n].inode)
             want == BlockRequest(nodes[n].hd, todo)
  <2>1. /\ nodes' = Emptied(n)
        /\ task' = [task EXCEPT ![Boot] =
                      IF isDirectory(nodes[n].inode)
                      THEN [L EXCEPT !.pc = "lookup", !.todo = todo, !.data = <<>>, !.want = want]
                      ELSE [L EXCEPT !.pc = "pick"]]
    BY <1>3 DEF Lookup, L, StartFile
  <2> HIDE DEF todo, want
  <2>2. /\ L' = IF isDirectory(nodes[n].inode)
                THEN [L EXCEPT !.pc = "lookup", !.todo = todo, !.data = <<>>, !.want = want]
                ELSE [L EXCEPT !.pc = "pick"]
        /\ DOMAIN task' = {Boot}
    BY <2>1 DEF Shape, L
  <2>3. DOMAIN L' = LocalFields /\ \A f \in PathFields : L'[f] = L[f]
    BY <2>2 DEF Shape, LocalFields, PathFields
  <2>4. /\ isDirectory(nodes[n].inode) =>
              L'.pc = "lookup" /\ L'.todo = todo /\ L'.data = <<>> /\ L'.want = want
        /\ ~isDirectory(nodes[n].inode) => L'.pc = "pick" /\ L'.want = L.want
    BY <2>2 DEF Shape, LocalFields
  <2>5. Same(PathFields)
    BY <2>3 DEF Same, L
  <2>. QED
    BY <1>1, <1>3, <2>1, <2>2, <2>3, <2>4, <2>5 DEF Runs, Shape, Starts, todo, want
<1>. QED
  BY <1>2, <1>3

\* The blocks below block b, which p lists.
Below(b, p) ==
    IF b.depth = 0 THEN <<>> ELSE [i \in 1 .. Len(p) |-> Block(b.depth - 1, p[i])]

\* One block of the file of node n has been read.
Advances(n) ==
    /\ L.todo # <<>> /\ Same(PathFields \cup {"pc"})
    /\ L'.todo = Below(Head(L.todo), UpToZero(L.buf["pointers"])) \o Tail(L.todo)
    /\ L'.data = IF Head(L.todo).depth = 0 THEN Kept(L.data, L.buf["data"], nodes[n].inode.size)
                 ELSE L.data
    /\ L'.want = BlockRequest(nodes[n].hd, L'.todo)

LEMMA ReadBlockIs ==
    ASSUME Shape, NEW n, ReadBlock(Boot, n), NEW pc, At(Boot, pc)
    PROVE  Runs(pc) /\ UNCHANGED nodes /\ Advances(n)
<1> DEFINE todo == Below(Head(L.todo), UpToZero(L.buf["pointers"])) \o Tail(L.todo)
           data == IF Head(L.todo).depth = 0 THEN Kept(L.data, L.buf["data"], nodes[n].inode.size)
                   ELSE L.data
           want == BlockRequest(nodes[n].hd, todo)
<1>1. /\ L.todo # <<>> /\ UNCHANGED nodes
      /\ task' = [task EXCEPT ![Boot] = [L EXCEPT !.todo = todo, !.data = data, !.want = want]]
  BY DEF ReadBlock, Below, L
<1>2. /\ L.pc = pc /\ L.want = Reads!Nothing
      /\ UNCHANGED <<asked, driveErr, history>>
  BY DEF ReadBlock, At, L, Silent, disk
<1> HIDE DEF todo, data, want
<1>3. L' = [L EXCEPT !.todo = todo, !.data = data, !.want = want] /\ DOMAIN task' = {Boot}
  BY <1>1 DEF L, Shape
<1>4. /\ DOMAIN L' = LocalFields /\ L'.todo = todo /\ L'.data = data /\ L'.want = want
      /\ \A f \in PathFields \cup {"pc"} : L'[f] = L[f]
  BY <1>3 DEF Shape, LocalFields, PathFields
<1>5. Same(PathFields \cup {"pc"})
  BY <1>4 DEF Same, L
<1>. QED
  BY <1>1, <1>2, <1>3, <1>4, <1>5 DEF Runs, Shape, Advances, todo, data, want

LEMMA LookupReadIs ==
    ASSUME Shape, LookupRead(Boot)
    PROVE  /\ Runs("lookup") /\ UNCHANGED nodes /\ Same(PathFields)
           /\ L.todo = <<>> /\ L'.pc = "dentry" /\ L'.want = Reads!Nothing
           /\ ~Spoilt(Boot) => L'.data \in Mapped(Boot, L.current)
<1>1. /\ L.pc = "lookup" /\ L.want = Reads!Nothing /\ L.todo = <<>>
      /\ UNCHANGED <<asked, driveErr, history, nodes>>
  BY DEF LookupRead, At, L, Silent, disk
<1>2. PICK d : /\ ~Spoilt(Boot) => d \in Mapped(Boot, L.current)
               /\ task' = [task EXCEPT ![Boot].pc = "dentry", ![Boot].data = d]
  BY DEF LookupRead, L
<1>3. /\ L' = [L EXCEPT !.pc = "dentry", !.data = d] /\ DOMAIN task' = {Boot}
  <2>1. task' = [task EXCEPT ![Boot].pc = "dentry", ![Boot].data = d]
    BY <1>2
  <2>. QED
    BY <2>1 DEF L, Shape
<1>4. /\ DOMAIN L' = LocalFields /\ L'.pc = "dentry" /\ L'.data = d /\ L'.want = L.want
      /\ \A f \in PathFields : L'[f] = L[f]
  BY <1>3 DEF Shape, LocalFields, PathFields
<1>5. Same(PathFields)
  BY <1>4 DEF Same, L
<1>. QED
  BY <1>1, <1>2, <1>3, <1>4, <1>5 DEF Runs, Shape

LEMMA DentryIs ==
    ASSUME Shape, Dentry(Boot)
    PROVE  /\ Runs("dentry") /\ UNCHANGED nodes /\ Same(PathFields)
           /\ \/ /\ L.data = <<>> \/ Head(L.data).inum = 0
                 /\ L'.pc = "pick" /\ L'.want = Reads!Nothing
              \/ /\ L.data # <<>> /\ Head(L.data).inum # 0 /\ Head(L.data).name \in Dots
                 /\ L'.pc = "dentry" /\ L'.data = Following(L.data) /\ L'.want = Reads!Nothing
              \/ /\ L.data # <<>> /\ Head(L.data).inum # 0 /\ Head(L.data).name \notin Dots
                 /\ L'.pc = "child" /\ L'.data = L.data
                 /\ L'.want = InodeAt(nodes[L.current].hd, Head(L.data).inum)
<1> DEFINE want == InodeAt(nodes[L.current].hd, Head(L.data).inum)
           one == L.data = <<>> \/ Head(L.data).inum = 0
           two == Head(L.data).name \in Dots
<1>1. /\ L.pc = "dentry" /\ L.want = Reads!Nothing
      /\ UNCHANGED <<asked, driveErr, history, nodes>>
  BY DEF Dentry, At, L, Silent, disk
<1>2. task' = [task EXCEPT ![Boot] =
                 IF one THEN [L EXCEPT !.pc = "pick"]
                 ELSE IF two THEN [L EXCEPT !.data = Following(L.data)]
                 ELSE [L EXCEPT !.pc = "child", !.want = want]]
  BY DEF Dentry, L
<1> HIDE DEF want, one, two
<1>3. /\ L' = IF one THEN [L EXCEPT !.pc = "pick"]
              ELSE IF two THEN [L EXCEPT !.data = Following(L.data)]
              ELSE [L EXCEPT !.pc = "child", !.want = want]
      /\ DOMAIN task' = {Boot}
  BY <1>2 DEF L, Shape
<1>4. DOMAIN L' = LocalFields /\ \A f \in PathFields : L'[f] = L[f]
  BY <1>3 DEF Shape, LocalFields, PathFields
<1>5. /\ one => L'.pc = "pick" /\ L'.want = L.want
      /\ ~one /\ two => L'.pc = L.pc /\ L'.want = L.want /\ L'.data = Following(L.data)
      /\ ~one /\ ~two => L'.pc = "child" /\ L'.want = want /\ L'.data = L.data
  BY <1>3 DEF Shape, LocalFields
<1>6. Same(PathFields)
  BY <1>4 DEF Same, L
<1>. QED
  BY <1>1, <1>3, <1>4, <1>5, <1>6 DEF Runs, Shape, one, two, want

LEMMA CreateChildIs ==
    ASSUME Shape, CreateChild(Boot)
    PROVE  /\ Runs("child") /\ Same(PathFields)
           /\ L'.pc = "dentry" /\ L'.data = Following(L.data) /\ L'.want = Reads!Nothing
           /\ nodes' = Child(L.current, Head(L.data).name, nodes[L.current].hd, L.buf["inode"],
                             IF isDirectory(L.buf["inode"]) THEN NODE_DIRECTORY ELSE NODE_FILE)
<1>1. /\ L.pc = "child" /\ L.want = Reads!Nothing
      /\ UNCHANGED <<asked, driveErr, history>>
  BY DEF CreateChild, At, L, Silent, disk
<1>2. task' = [task EXCEPT ![Boot].pc = "dentry", ![Boot].data = Following(L.data)]
  BY DEF CreateChild, L
<1>3. /\ DOMAIN task' = {Boot} /\ DOMAIN L' = LocalFields /\ Same(PathFields)
      /\ L'.pc = "dentry" /\ L'.data = Following(L.data) /\ L'.want = L.want
  BY <1>2 DEF L, Shape, LocalFields, PathFields, Same
<1>. QED
  BY <1>1, <1>3 DEF Runs, Shape, CreateChild, L

LEMMA LoadTaskIs ==
    ASSUME Shape, NEW p \in Paths, LoadTask(Boot, p)
    PROVE  /\ Shape' /\ UNCHANGED <<asked, driveErr, nodes, mountFault>>
           /\ L.pc = "idle" /\ L.want = Reads!Nothing /\ ~Mounting(Boot)
           /\ fault' = fault \ {Boot}
           /\ L'.goal = p /\ L'.path = p /\ L'.current = Root /\ L'.node = Null
           /\ L'.want = Reads!Nothing
           /\ L'.pc = IF p = NoPath THEN "done" ELSE "walk"
<1>1. /\ L.pc = "idle" /\ L.want = Reads!Nothing /\ ~Mounting(Boot)
      /\ UNCHANGED <<asked, driveErr, nodes, mountFault>> /\ fault' = fault \ {Boot}
  BY DEF LoadTask, At, L, Mounted, disk
<1>2. /\ L' = [Locals EXCEPT !.goal = p, !.path = p,
                             !.pc = IF p = NoPath THEN "done" ELSE "walk"]
      /\ DOMAIN task' = {Boot}
  BY DEF LoadTask, L, Shape
<1>. QED
  BY <1>1, <1>2, LocalsAre DEF Shape, LocalFields

\* The component is a child of the current node, or "." or "..".
PickFound ==
    LET kids == nodes[L.current].childs
    IN  /\ kids # <<>>
        /\ \/ Head(L.path) \in Dots
           \/ \E i \in 1 .. Len(kids) : nodes[kids[i]].name = Head(L.path)

LEMMA SelectIs ==
    ASSUME NEW kids, Len(kids) \in Nat, NEW name
    PROVE  LET i == SelectInSeq(kids, LAMBDA c : nodes[c].name = name)
           IN  \/ i = 0 /\ ~\E j \in 1 .. Len(kids) : nodes[kids[j]].name = name
               \/ i \in 1 .. Len(kids) /\ nodes[kids[i]].name = name
<1> DEFINE I == {j \in 1 .. Len(kids) : nodes[kids[j]].name = name}
           i == SelectInSeq(kids, LAMBDA c : nodes[c].name = name)
<1>1. i = IF I # {} THEN Min(I) ELSE 0
  BY DEF SelectInSeq
<1>2. CASE I = {}
  BY <1>1, <1>2
<1>3. CASE I # {}
  <2>1. I \in SUBSET Nat
    OBVIOUS
  <2> HIDE DEF I
  <2>2. \E m \in I : \A n \in I : m <= n
    BY <1>3, <2>1, HasLeast
  <2>3. i = CHOOSE m \in I : \A n \in I : m <= n
    BY <1>1, <1>3 DEF Min
  <2>4. i \in I
    BY <2>2, <2>3, Zenon
  <2>. QED
    BY <2>4 DEF I
<1>. QED
  BY <1>2, <1>3

LEMMA PickIs ==
    ASSUME Shape, Pick(Boot), Len(nodes[L.current].childs) \in Nat
    PROVE  /\ Runs("pick") /\ UNCHANGED nodes /\ Same({"goal", "node"})
           /\ L'.want = Reads!Nothing
           /\ ~PickFound => L'.pc = "done"
           /\ PickFound =>
                 /\ L'.pc = "walk" /\ L'.path = Tail(L.path)
                 /\ Head(L.path) = ".." => L'.current = nodes[L.current].parent
                 /\ Head(L.path) = "." => L'.current = L.current
                 /\ Head(L.path) \notin Dots =>
                       \E i \in 1 .. Len(nodes[L.current].childs) :
                          /\ L'.current = nodes[L.current].childs[i]
                          /\ nodes[L'.current].name = Head(L.path)
<1> DEFINE name == Head(L.path)
           kids == nodes[L.current].childs
           i == SelectInSeq(kids, LAMBDA c : nodes[c].name = name)
           found == kids # <<>> /\ (name \in Dots \/ i # 0)
           next == IF name = ".." THEN nodes[L.current].parent
                   ELSE IF name = "." THEN L.current ELSE kids[i]
<1>1. /\ L.pc = "pick" /\ L.want = Reads!Nothing
      /\ UNCHANGED <<asked, driveErr, history, nodes>>
  BY DEF Pick, At, L, Silent, disk
<1>2. task' = [task EXCEPT ![Boot] =
                 IF ~found THEN [L EXCEPT !.pc = "done"]
                 ELSE [L EXCEPT !.pc = "walk", !.path = Tail(L.path), !.current = next]]
  BY DEF Pick, L
<1>3. \/ i = 0 /\ ~\E j \in 1 .. Len(kids) : nodes[kids[j]].name = name
      \/ i \in 1 .. Len(kids) /\ nodes[kids[i]].name = name
  BY SelectIs
<1> HIDE DEF i
<1>4. found <=> PickFound
  BY <1>3 DEF PickFound
<1>5. name \notin Dots /\ found => i \in 1 .. Len(kids) /\ nodes[kids[i]].name = name /\ next = kids[i]
  BY <1>3 DEF Dots
<1>6. (name = ".." => next = nodes[L.current].parent) /\ (name = "." => next = L.current)
  OBVIOUS
<1> HIDE DEF found, next
<1>7. /\ L' = IF ~found THEN [L EXCEPT !.pc = "done"]
              ELSE [L EXCEPT !.pc = "walk", !.path = Tail(L.path), !.current = next]
      /\ DOMAIN task' = {Boot}
  BY <1>2 DEF L, Shape
<1>8. DOMAIN L' = LocalFields /\ L'.goal = L.goal /\ L'.node = L.node /\ L'.want = L.want
  BY <1>7 DEF Shape, LocalFields
<1>9. /\ ~found => L'.pc = "done"
      /\ found => L'.pc = "walk" /\ L'.path = Tail(L.path) /\ L'.current = next
  BY <1>7 DEF Shape, LocalFields
<1>10. Same({"goal", "node"})
  BY <1>8 DEF Same, L
<1>. QED
  BY <1>1, <1>4, <1>5, <1>6, <1>7, <1>8, <1>9, <1>10 DEF Runs, Shape

LEMMA FoundIs ==
    ASSUME Shape, Found(Boot)
    PROVE  /\ Runs("walk") /\ UNCHANGED nodes /\ L.path = <<>> /\ L'.node = L.current
           /\ Same({"goal", "path", "current"})
           /\ nodes[L.current].type = NODE_FILE => Starts(L.current, "load")
           /\ nodes[L.current].type # NODE_FILE => /\ L'.pc = "done" /\ L'.data = <<>>
                                                   /\ L'.want = Reads!Nothing
<1> DEFINE n == L.current
           todo == Blocks(nodes[n].inode)
           want == BlockRequest(nodes[n].hd, todo)
           file == nodes[n].type = NODE_FILE
<1>1. /\ L.pc = "walk" /\ L.want = Reads!Nothing /\ L.path = <<>>
      /\ UNCHANGED <<asked, driveErr, history, nodes>>
  BY DEF Found, At, L, Silent, disk
<1>2. task' = [task EXCEPT ![Boot] =
                 IF file
                 THEN [[L EXCEPT !.pc = "load", !.todo = todo, !.data = <<>>, !.want = want]
                         EXCEPT !.node = n]
                 ELSE [L EXCEPT !.pc = "done", !.data = <<>>, !.node = n]]
  BY DEF Found, L, StartFile
<1> HIDE DEF todo, want, file
<1>3. /\ L' = IF file
              THEN [[L EXCEPT !.pc = "load", !.todo = todo, !.data = <<>>, !.want = want]
                      EXCEPT !.node = n]
              ELSE [L EXCEPT !.pc = "done", !.data = <<>>, !.node = n]
      /\ DOMAIN task' = {Boot}
  BY <1>2 DEF L, Shape
<1>4. /\ DOMAIN L' = LocalFields /\ L'.node = n /\ L'.goal = L.goal /\ L'.path = L.path
      /\ L'.current = L.current
  BY <1>3 DEF Shape, LocalFields
<1>5. /\ file => L'.pc = "load" /\ L'.todo = todo /\ L'.data = <<>> /\ L'.want = want
      /\ ~file => L'.pc = "done" /\ L'.data = <<>> /\ L'.want = L.want
  BY <1>3 DEF Shape, LocalFields
<1>6. Same({"goal", "path", "current"})
  BY <1>4 DEF Same, L
<1>. QED
  BY <1>1, <1>3, <1>4, <1>5, <1>6 DEF Runs, Shape, Starts, todo, want, file

LEMMA LoadReadIs ==
    ASSUME Shape, LoadRead(Boot)
    PROVE  /\ Runs("load") /\ UNCHANGED nodes /\ Same(PathFields)
           /\ L.todo = <<>> /\ L'.pc = "done" /\ L'.want = Reads!Nothing
           /\ L'.data \in Mapped(Boot, L.node)
<1>1. /\ L.pc = "load" /\ L.want = Reads!Nothing /\ L.todo = <<>>
      /\ UNCHANGED <<asked, driveErr, history, nodes>>
  BY DEF LoadRead, At, L, Silent, disk
<1>2. PICK d \in Mapped(Boot, L.node) :
          task' = [task EXCEPT ![Boot].pc = "done", ![Boot].data = d]
  BY DEF LoadRead, L
<1>3. /\ DOMAIN task' = {Boot} /\ DOMAIN L' = LocalFields /\ Same(PathFields)
      /\ L'.pc = "done" /\ L'.data = d /\ L'.want = L.want
  BY <1>2 DEF L, Shape, LocalFields, PathFields, Same
<1>. QED
  BY <1>1, <1>3 DEF Runs, Shape

LEMMA ReturnIs ==
    ASSUME Shape, Return(Boot)
    PROVE  Runs("done") /\ UNCHANGED nodes /\ L' = Locals
<1>1. /\ L.pc = "done" /\ L.want = Reads!Nothing
      /\ UNCHANGED <<asked, driveErr, history, nodes>>
  BY DEF Return, At, L, Silent, disk
<1>2. L' = Locals /\ DOMAIN task' = {Boot}
  BY DEF Return, L, Shape
<1>. QED
  BY <1>1, <1>2, LocalsAre DEF Runs, Shape

\* The steps that end a load, or the kernel, before it is done.
Ends == Killed(Boot) \/ Crash(Boot) \/ OutOfMemory(Boot)

LEMMA EndsIs ==
    ASSUME OneReader, Shape, Ends
    PROVE  /\ Shape' /\ UNCHANGED <<asked, driveErr, nodes, history>>
           /\ L' = Locals
           /\ asked[Boot] = Reads!Nothing \/ L.want = Reads!Nothing
           /\ mountFault \/ Boot \in fault \/ L.pc = "child"
<1>1. /\ task' = [task EXCEPT ![Boot] = Locals] \/ task' = [t \in {Boot} |-> Locals]
      /\ UNCHANGED <<asked, driveErr, nodes, history>>
      /\ asked[Boot] = Reads!Nothing \/ L.want = Reads!Nothing
      /\ mountFault \/ Boot \in fault \/ L.pc = "child"
  BY DEF Ends, Killed, Crash, OutOfMemory, Stops, Astray, Spoilt, At, Silent, disk, OneReader, L
<1>2. L' = Locals /\ DOMAIN task' = {Boot}
  BY <1>1 DEF L, Shape
<1>. QED
  BY <1>1, <1>2, LocalsAre DEF Shape

\* Every step is one of these.
LEMMA NextIs ==
    ASSUME OneReader, [Next]_vars
    PROVE  \/ UNCHANGED vars
           \/ Ask(Boot) \/ DriveError(Boot) \/ Reply(Boot) \/ ReplyFailure(Boot)
           \/ IsMBR(Boot) \/ ReadMBR(Boot) \/ ReadSb(Boot) \/ ReadGd(Boot) \/ Mount(Boot)
           \/ Lookup(Boot) \/ LookupBlock(Boot) \/ LookupRead(Boot) \/ Dentry(Boot)
           \/ CreateChild(Boot) \/ Pick(Boot) \/ Found(Boot) \/ LoadBlock(Boot)
           \/ LoadRead(Boot) \/ Return(Boot) \/ Ends
           \/ \E p \in Paths : LoadTask(Boot, p)
  BY DEF Next, ReaderStep, Halt, Ends, OneReader

-----------------------------------------------------------------------------
(***************************************************************************)
(* The nodes are a tree at all times, and the reader holds nodes of it.    *)
(***************************************************************************)
Walking == {"walk", "lookup", "dentry", "child", "pick"}

Live ==
    /\ Shape /\ IsTree(nodes)
    /\ L.pc \in {"entry", "sb", "gd", "root"} => L.i \in 1 .. NParts
    /\ L.pc \in Walking => L.current \in DOMAIN nodes
    /\ L.pc = "load" => L.node \in DOMAIN nodes

LEMMA LiveInit == ASSUME OneReader, Init PROVE Live
<1>1. DOMAIN nodes = {Root} /\ nodes[Root].parent = Root /\ nodes[Root].childs = <<>>
      /\ DOMAIN nodes[Root] = NodeFields
  BY DEF Init, NodeFields
<1>2. <<>> \in Seq(DOMAIN nodes \ {Root}) /\ 1 .. Len(<<>>) = {}
  BY EmptySeq
<1>3. KidsOK(nodes, Root) /\ ParentOK(nodes, Root)
  BY <1>1, <1>2 DEF KidsOK, ParentOK
<1>4. IsFiniteSet(DOMAIN nodes)
  BY <1>1, FS_Singleton
<1>5. IsTree(nodes)
  BY <1>1, <1>3, <1>4 DEF IsTree, AllBelowRoot, Root
<1>6. Shape /\ L.pc = "mbr"
  <2>1. L = [Locals EXCEPT !.pc = "mbr", !.want = Request("mbr", 1, 0, 0)]
    BY DEF Init, OneReader, L
  <2>2. DOMAIN L = LocalFields /\ L.pc = "mbr"
    BY <2>1, LocalsAre DEF LocalFields
  <2>3. DOMAIN task = {Boot} /\ DOMAIN asked = {Boot}
    BY DEF Init, OneReader, Reads!DiskInit
  <2>. QED
    BY <2>2, <2>3 DEF Shape
<1>. QED
  BY <1>5, <1>6 DEF Live, Walking

\* What mountAll goes on with is a partition, and holds no node.
LEMMA ToPartLive ==
    ASSUME NEW table, NEW i \in 0 .. NParts, ToPart(table, i)
    PROVE  L'.pc = "idle" \/ (L'.pc = "sb" /\ L'.i \in 1 .. NParts)
<1>1. CASE L' = Locals
  BY <1>1, LocalsAre
<1>2. CASE L' # Locals
  <2>1. PICK j \in i + 1 .. NParts : L'.pc = "sb" /\ L'.i = j
    BY <1>2 DEF ToPart
  <2>. QED
    BY <2>1 DEF NParts
<1>. QED
  BY <1>1, <1>2

LEMMA LiveStep == ASSUME OneReader, Live, [Next]_vars PROVE Live'
<1>0. Shape /\ IsTree(nodes)
  BY DEF Live
<1>1. CASE UNCHANGED vars
  BY <1>1 DEF Live, Shape, L, vars, disk
<1>2. CASE Ask(Boot) \/ DriveError(Boot)
  <2>1. Shape' /\ UNCHANGED <<task, nodes>>
    BY <1>0, <1>2, AskIs, DriveErrorIs
  <2>. QED
    BY <1>0, <2>1 DEF Live, L
<1>3. CASE Reply(Boot) \/ ReplyFailure(Boot)
  <2>1. Shape' /\ UNCHANGED nodes /\ Same(LocalFields \ {"buf", "want"})
    BY <1>0, <1>3, ReplyIs, ReplyFailureIs
  <2>2. L'.pc = L.pc /\ L'.i = L.i /\ L'.current = L.current /\ L'.node = L.node
    BY <2>1 DEF Same, L, LocalFields
  <2>. QED
    BY <1>0, <2>1, <2>2 DEF Live
<1>4. CASE IsMBR(Boot)
  <2>1. Runs("mbr") /\ UNCHANGED nodes /\ ((L'.pc = "entry" /\ L'.i = 1) \/ L' = Locals)
    BY <1>0, <1>4, IsMBRIs
  <2>. QED
    BY <1>0, <2>1, LocalsAre DEF Live, Walking, Runs, NParts
<1>5. CASE ReadMBR(Boot)
  <2>1. /\ Runs("entry") /\ UNCHANGED nodes
        /\ L.i = NParts => ToPart(Append(L.table, L.buf["entry"]), 0)
        /\ L.i # NParts => L'.pc = "entry" /\ L'.i = L.i + 1
    BY <1>0, <1>5, ReadMBRIs
  <2>2. L.i \in 1 .. NParts
    BY <2>1 DEF Live, Runs
  <2>3. 0 \in 0 .. NParts
    BY DEF NParts
  <2>4. L'.pc = "idle" \/ (L'.pc \in {"sb", "entry"} /\ L'.i \in 1 .. NParts)
    <3>1. CASE L.i = NParts
      BY <2>1, <2>3, <3>1, ToPartLive
    <3>2. CASE L.i # NParts
      BY <2>1, <2>2, <3>2 DEF NParts
    <3>. QED
      BY <3>1, <3>2
  <2>. QED
    BY <1>0, <2>1, <2>4 DEF Live, Walking, Runs
<1>6. CASE ReadSb(Boot) \/ ReadGd(Boot)
  <2>1. L.pc \in {"sb", "gd"}
    BY <1>6 DEF ReadSb, ReadGd, At, L
  <2>2. L.i \in 1 .. NParts
    BY <2>1 DEF Live
  <2>3. /\ Shape' /\ UNCHANGED nodes
        /\ \/ L'.pc \in {"gd", "root"} /\ Same({"i", "table"})
           \/ ToPart(L.table, L.i)
    BY <1>0, <1>6, <2>2, ReadSbIs, ReadGdIs DEF Runs, Same
  <2>4. L.i \in 0 .. NParts
    BY <2>2 DEF NParts
  <2>5. L'.pc = "idle" \/ (L'.pc \in {"sb", "gd", "root"} /\ L'.i \in 1 .. NParts)
    BY <2>2, <2>3, <2>4, ToPartLive DEF Same, L
  <2>. QED
    BY <1>0, <2>3, <2>5 DEF Live, Walking
<1>7. CASE Mount(Boot)
  <2>1. L.pc = "root"
    BY <1>7 DEF Mount, At, L
  <2>2. L.i \in 1 .. NParts
    BY <2>1 DEF Live
  <2>3. /\ Shape' /\ ToPart(L.table, L.i)
        /\ nodes' = Child(Root, MountName(Len(nodes[Root].childs)), Ext2Disk(Boot),
                          L.buf["inode"], NODE_ROOT)
    BY <1>0, <1>7, <2>2, MountIs DEF Runs
  <2>4. IsTree(nodes')
    BY <1>0, <2>3, ChildTree DEF IsTree
  <2>5. L.i \in 0 .. NParts
    BY <2>2 DEF NParts
  <2>6. L'.pc = "idle" \/ (L'.pc = "sb" /\ L'.i \in 1 .. NParts)
    BY <2>3, <2>5, ToPartLive
  <2>. QED
    BY <2>3, <2>4, <2>6 DEF Live, Walking
<1>8. CASE Lookup(Boot)
  <2>1. /\ Runs("walk") /\ Same(PathFields) /\ L'.pc \in {"pick", "lookup"}
        /\ nodes' \in {nodes, Emptied(L.current)}
    BY <1>0, <1>8, LookupIs DEF Starts
  <2>2. L.current \in DOMAIN nodes /\ L'.current = L.current
    BY <2>1 DEF Live, Walking, Runs, Same, PathFields, L
  <2>3. IsTree(nodes') /\ L.current \in DOMAIN nodes'
    BY <1>0, <2>1, <2>2, EmptiedTree
  <2>. QED
    BY <2>1, <2>2, <2>3 DEF Live, Walking, Runs
<1>9. CASE LookupBlock(Boot) \/ LoadBlock(Boot)
  <2>1. /\ Shape' /\ UNCHANGED nodes /\ L.pc \in {"lookup", "load"}
        /\ Same(PathFields \cup {"pc"})
    BY <1>0, <1>9, ReadBlockIs DEF LookupBlock, LoadBlock, Runs, Advances
  <2>2. L'.pc = L.pc /\ L'.current = L.current /\ L'.node = L.node
    BY <2>1 DEF Same, PathFields, L
  <2>. QED
    BY <1>0, <2>1, <2>2 DEF Live, Walking
<1>10. CASE LookupRead(Boot) \/ Dentry(Boot)
  <2>1. /\ Shape' /\ UNCHANGED nodes /\ L.pc \in {"lookup", "dentry"}
        /\ L'.pc \in {"dentry", "child", "pick"} /\ Same(PathFields)
    BY <1>0, <1>10, LookupReadIs, DentryIs DEF Runs
  <2>2. L'.current = L.current
    BY <2>1 DEF Same, PathFields, L
  <2>. QED
    BY <1>0, <2>1, <2>2 DEF Live, Walking
<1>11. CASE CreateChild(Boot)
  <2>1. /\ Runs("child") /\ L'.pc = "dentry" /\ Same(PathFields)
        /\ nodes' = Child(L.current, Head(L.data).name, nodes[L.current].hd, L.buf["inode"],
                          IF isDirectory(L.buf["inode"]) THEN NODE_DIRECTORY ELSE NODE_FILE)
    BY <1>0, <1>11, CreateChildIs
  <2>2. L'.current = L.current /\ L.current \in DOMAIN nodes
    BY <2>1 DEF Same, PathFields, L, Live, Walking, Runs
  <2>3. IsTree(nodes') /\ L.current \in DOMAIN nodes'
    BY <1>0, <2>1, <2>2, ChildTree, ChildIs DEF Grown
  <2>. QED
    BY <2>1, <2>2, <2>3 DEF Live, Walking, Runs
<1>12. ASSUME NEW p \in Paths, LoadTask(Boot, p) PROVE Live'
  <2>1. Shape' /\ UNCHANGED nodes /\ L'.current = Root /\ L'.pc \in {"done", "walk"}
    BY <1>0, <1>12, LoadTaskIs
  <2>. QED
    BY <1>0, <2>1 DEF Live, Walking, IsTree
<1>13. CASE Pick(Boot)
  <2>1. L.pc = "pick" /\ L.current \in DOMAIN nodes
    BY <1>13 DEF Pick, At, L, Live, Walking
  <2>2. nodes[L.current].childs \in Seq(DOMAIN nodes \ {Root}) /\ nodes[L.current].parent \in DOMAIN nodes
    BY <1>0, <2>1 DEF IsTree, KidsOK, ParentOK
  <2>3. /\ Len(nodes[L.current].childs) \in Nat
        /\ \A i \in 1 .. Len(nodes[L.current].childs) : nodes[L.current].childs[i] \in DOMAIN nodes
    BY <2>2, LenProperties, ElementOfSeq
  <2>4. /\ Runs("pick") /\ UNCHANGED nodes
        /\ L'.pc = "done" \/ (L'.pc = "walk" /\ L'.current \in DOMAIN nodes)
    BY <1>0, <1>13, <2>1, <2>2, <2>3, PickIs DEF Dots
  <2>. QED
    BY <1>0, <2>4 DEF Live, Walking, Runs
<1>14. CASE Found(Boot)
  <2>1. /\ Runs("walk") /\ UNCHANGED nodes /\ L'.node = L.current /\ L'.pc \in {"load", "done"}
    BY <1>0, <1>14, FoundIs DEF Starts
  <2>. QED
    BY <1>0, <2>1 DEF Live, Walking, Runs
<1>15. CASE LoadRead(Boot) \/ Return(Boot)
  <2>1. Shape' /\ UNCHANGED nodes /\ L'.pc \in {"done", "idle"}
    BY <1>0, <1>15, LoadReadIs, ReturnIs, LocalsAre DEF Runs
  <2>. QED
    BY <1>0, <2>1 DEF Live, Walking
<1>16. CASE Ends
  <2>1. Shape' /\ UNCHANGED nodes /\ L' = Locals
    BY <1>0, <1>16, EndsIs
  <2>. QED
    BY <1>0, <2>1, LocalsAre DEF Live, Walking
<1>. QED
  BY <1>1, <1>2, <1>3, <1>4, <1>5, <1>6, <1>7, <1>8, <1>9, <1>10, <1>11, <1>12, <1>13, <1>14,
     <1>15, <1>16, NextIs

\* The inductive invariant holds in every reachable state.
LEMMA AlwaysLive == OneReader => (Spec => []Live)
<1> SUFFICES ASSUME OneReader PROVE Spec => []Live
  OBVIOUS
<1>1. Init => Live
  BY LiveInit
<1>2. Live /\ [Next]_vars => Live'
  BY LiveStep
<1>. QED
  BY <1>1, <1>2, PTL DEF Spec

\* One node is at one index.
LEMMA OnlyOnce ==
    ASSUME NEW s, NEW S, s \in Seq(S), NEW i \in 1 .. Len(s),
           \A j, k \in 1 .. Len(s) : s[j] = s[k] => j = k
    PROVE  Cardinality({j \in DOMAIN s : s[j] = s[i]}) = 1
<1>1. DOMAIN s = 1 .. Len(s)
  BY LenProperties
<1>2. {j \in DOMAIN s : s[j] = s[i]} = {i}
  BY <1>1
<1>. QED
  BY <1>2, FS_Singleton

\* Whatever the disk holds and whichever reads fail, and through every lookup that
\* deletes what an earlier one made, the Nodes in memory are the tree below
\* VFS::root: none leaks, and none is in two lists of children.
THEOREM TreeOfNodes == OneReader => (Spec => []NodesFormTree)
<1> SUFFICES ASSUME OneReader PROVE Spec => []NodesFormTree
  OBVIOUS
<1>1. Live => NodesFormTree
  <2> SUFFICES ASSUME Live PROVE NodesFormTree
    OBVIOUS
  <2>1. IsTree(nodes) /\ Root \in DOMAIN nodes
    BY DEF Live, IsTree
  <2>2. /\ Subtree(Root) \in SUBSET DOMAIN nodes /\ Root \in Subtree(Root)
        /\ ClosedIn(nodes, Subtree(Root))
    BY <2>1, SubtreeIs
  <2>3. DOMAIN nodes = Subtree(Root)
    BY <2>1, <2>2 DEF IsTree, AllBelowRoot
  <2>4. ASSUME NEW n \in DOMAIN nodes \ {Root}
        PROVE  /\ nodes[n].parent \in DOMAIN nodes
               /\ Cardinality({i \in DOMAIN nodes[nodes[n].parent].childs :
                                 nodes[nodes[n].parent].childs[i] = n}) = 1
    <3> DEFINE ch == nodes[nodes[n].parent].childs
    <3>1. nodes[n].parent \in DOMAIN nodes /\ n \in Kids(nodes, nodes[n].parent)
      BY <2>1 DEF IsTree, ParentOK
    <3>2. /\ ch \in Seq(DOMAIN nodes \ {Root})
          /\ \A i, j \in 1 .. Len(ch) : ch[i] = ch[j] => i = j
      BY <2>1, <3>1 DEF IsTree, KidsOK
    <3>3. PICK i \in 1 .. Len(ch) : ch[i] = n
      BY <3>1, <3>2, KidsAre
    <3> HIDE DEF ch
    <3>4. Cardinality({j \in DOMAIN ch : ch[j] = n}) = 1
      BY <3>2, <3>3, OnlyOnce
    <3>. QED
      BY <3>1, <3>4 DEF ch
  <2>. QED
    BY <2>3, <2>4 DEF NodesFormTree
<1>. QED
  BY <1>1, AlwaysLive, PTL

\* With one load at a time, resolvePath and loadTask hold no Node that a lookup has
\* deleted.
THEOREM LiveNodes == OneReader => (Spec => []UsesLiveNodes)
<1> SUFFICES ASSUME OneReader PROVE Spec => []UsesLiveNodes
  OBVIOUS
<1>1. Live => UsesLiveNodes
  BY DEF Live, UsesLiveNodes, InUse, Walking, OneReader, L
<1>. QED
  BY <1>1, AlwaysLive, PTL

-----------------------------------------------------------------------------
(***************************************************************************)
(* The blocks of a file: what is left to read is what the stack stands     *)
(* for.                                                                    *)
(***************************************************************************)
Stacked == [depth : 0 .. 3, at : Nat]

\* What is in the blocks on the stack and below them.
Trees(v, todo) == [i \in 1 .. Len(todo) |-> Tree(v, todo[i].depth, todo[i].at)]

Rest(v, todo) == FlattenSeq(Trees(v, todo))

LEMMA DataType ==
    ASSUME NEW part, SoundVolume(part), NEW b
    PROVE  DataAt(Disk.vol[part], b) \in Seq(Words(part))
<1>1. <<>> \in Seq(Words(part))
  BY EmptySeq
<1>. QED
  BY <1>1 DEF SoundVolume, DataAt

\* The pointers that ext2ReadFile goes through are those that the block has.
LEMMA PointersIs ==
    ASSUME NEW part, SoundVolume(part), NEW b
    PROVE  /\ PointersAt(Disk.vol[part], b) \in Seq(0 .. Wrap - 1)
           /\ UpToZero(Content(Request("pointers", part, b, 0))) = PointersAt(Disk.vol[part], b)
<1> DEFINE v == Disk.vol[part]
           p == Content(Request("pointers", part, b, 0))
<1>0. Wrap \in Nat
  BY FilesAssumption
<1>1. p = IF b \in DOMAIN v.pointers THEN v.pointers[b] ELSE <<>>
  BY DEF Content, Request
<1>2. p \in Seq(0 .. Wrap - 1) /\ NoHoles(p)
  <2>1. CASE b \in DOMAIN v.pointers
    BY <1>1, <2>1 DEF SoundVolume
  <2>2. CASE b \notin DOMAIN v.pointers
    <3>1. p = <<>>
      BY <1>1, <2>2
    <3>2. <<>> \in Seq(0 .. Wrap - 1) /\ DOMAIN <<>> = {}
      BY EmptySeq
    <3> HIDE DEF p
    <3>. QED
      BY <3>1, <3>2 DEF NoHoles
  <2>. QED
    BY <2>1, <2>2
<1> HIDE DEF p
<1>3. p \in Seq(Nat)
  <2>1. 0 .. Wrap - 1 \subseteq Nat
    BY <1>0
  <2>. QED
    BY <1>2, <2>1, SeqMonotonic
<1> DEFINE u == Used(p)
<1>4. /\ UpToZero(p) = u /\ u \in Seq(Nat) /\ Len(u) <= Len(p)
      /\ \A i \in 1 .. Len(u) : u[i] = p[i]
  BY <1>2, <1>3, UsedIs
<1> HIDE DEF u
<1>5. Len(u) \in Nat /\ Len(p) \in Nat /\ u \in [1 .. Len(u) -> Nat]
  BY <1>3, <1>4, LenProperties
<1>6. \A i \in 1 .. Len(p) : p[i] \in 0 .. Wrap - 1
  BY <1>2, ElementOfSeq
<1>7. \A i \in 1 .. Len(u) : u[i] \in 0 .. Wrap - 1
  BY <1>4, <1>5, <1>6
<1>8. u \in [1 .. Len(u) -> 0 .. Wrap - 1]
  BY <1>5, <1>7
<1>9. u \in Seq(0 .. Wrap - 1)
  BY <1>5, <1>8, FunctionIsSeq
<1>10. PointersAt(v, b) = u
  <2>1. CASE b \in DOMAIN v.pointers
    BY <1>1, <2>1 DEF PointersAt, u
  <2>2. CASE b \notin DOMAIN v.pointers
    <3>1. p = <<>> /\ PointersAt(v, b) = <<>>
      BY <1>1, <2>2 DEF PointersAt
    <3>2. Len(p) = 0
      BY <3>1, EmptySeq
    <3>3. Len(u) = 0
      BY <1>4, <1>5, <3>2
    <3>. QED
      BY <1>4, <3>1, <3>3, EmptySeq
  <2>. QED
    BY <2>1, <2>2
<1>. QED
  BY <1>4, <1>9, <1>10 DEF p

\* What is below a block of pointers is what is below the blocks that it lists.
LEMMA TreeIs ==
    ASSUME NEW part, SoundVolume(part), NEW b
    PROVE  LET v == Disk.vol[part]
               p == PointersAt(v, b)
           IN  /\ Tree(v, 0, b) = DataAt(v, b)
               /\ \A d \in 1 .. 3 :
                     Tree(v, d, b) = FlattenSeq([i \in 1 .. Len(p) |-> Tree(v, d - 1, p[i])])
<1> DEFINE v == Disk.vol[part]
           p == PointersAt(v, b)
<1>1. p \in Seq(0 .. Wrap - 1)
  BY PointersIs
<1>2. DOMAIN p = 1 .. Len(p)
  BY <1>1, LenProperties
<1>3. \A x : Tree(v, 0, x) = DataAt(v, x) /\ Tree(v, 1, x) = Tree1(v, x)
             /\ Tree(v, 2, x) = Tree2(v, x) /\ Tree(v, 3, x) = Tree3(v, x)
  BY DEF Tree
<1>4. Tree1(v, b) = FlattenSeq([i \in DOMAIN p |-> DataAt(v, p[i])])
  BY DEF Tree1
<1>5. Tree2(v, b) = FlattenSeq([i \in DOMAIN p |-> Tree1(v, p[i])])
  BY DEF Tree2
<1>6. Tree3(v, b) = FlattenSeq([i \in DOMAIN p |-> Tree2(v, p[i])])
  BY DEF Tree3
<1> HIDE DEF p, v
<1>7. ASSUME NEW d \in 1 .. 3
      PROVE  Tree(v, d, b) = FlattenSeq([i \in 1 .. Len(p) |-> Tree(v, d - 1, p[i])])
  <2>1. CASE d = 1
    <3>1. [i \in 1 .. Len(p) |-> Tree(v, 0, p[i])] = [i \in DOMAIN p |-> DataAt(v, p[i])]
      BY <1>2, <1>3
    <3>2. d - 1 = 0
      BY <2>1
    <3>. QED
      BY <1>3, <1>4, <2>1, <3>1, <3>2
  <2>2. CASE d = 2
    <3>1. [i \in 1 .. Len(p) |-> Tree(v, 1, p[i])] = [i \in DOMAIN p |-> Tree1(v, p[i])]
      BY <1>2, <1>3
    <3>2. d - 1 = 1
      BY <2>2
    <3>. QED
      BY <1>3, <1>5, <2>2, <3>1, <3>2
  <2>3. CASE d = 3
    <3>1. [i \in 1 .. Len(p) |-> Tree(v, 2, p[i])] = [i \in DOMAIN p |-> Tree2(v, p[i])]
      BY <1>2, <1>3
    <3>2. d - 1 = 2
      BY <2>3
    <3>. QED
      BY <1>3, <1>6, <2>3, <3>1, <3>2
  <2>. QED
    BY <2>1, <2>2, <2>3
<1>. QED
  BY <1>3, <1>7 DEF p, v

LEMMA TreeType ==
    ASSUME NEW part, SoundVolume(part)
    PROVE  \A d \in 0 .. 3, b \in Nat : Tree(Disk.vol[part], d, b) \in Seq(Words(part))
<1> DEFINE v == Disk.vol[part]
           W == Words(part)
           OK(d) == \A b \in Nat : Tree(v, d, b) \in Seq(W)
<1>1. OK(0)
  BY DataType DEF Tree
<1>2. ASSUME NEW d \in 1 .. 3, OK(d - 1) PROVE OK(d)
  <2> SUFFICES ASSUME NEW b \in Nat PROVE Tree(v, d, b) \in Seq(W)
    OBVIOUS
  <2> DEFINE p == PointersAt(v, b)
             q == [i \in 1 .. Len(p) |-> Tree(v, d - 1, p[i])]
  <2>1. p \in Seq(0 .. Wrap - 1)
    BY PointersIs
  <2>2. Tree(v, d, b) = FlattenSeq(q)
    BY TreeIs
  <2> HIDE DEF p, v, W
  <2>3. Len(p) \in Nat /\ \A i \in 1 .. Len(p) : p[i] \in Nat
    <3>1. Wrap \in Nat
      BY FilesAssumption
    <3>2. Len(p) \in Nat /\ \A i \in 1 .. Len(p) : p[i] \in 0 .. Wrap - 1
      BY <2>1, LenProperties, ElementOfSeq
    <3>. QED
      BY <3>1, <3>2
  <2>4. q \in [1 .. Len(p) -> Seq(W)]
    BY <1>2, <2>3
  <2> HIDE DEF q
  <2>5. q \in Seq(Seq(W))
    BY <2>3, <2>4, FunctionIsSeq
  <2>. QED
    BY <2>2, <2>5, FlattenType
<1> HIDE DEF OK
<1>3. OK(0) /\ OK(1) /\ OK(2) /\ OK(3)
  <2>1. OK(1)
    BY <1>1, <1>2
  <2>2. OK(2)
    BY <1>2, <2>1
  <2>3. OK(3)
    BY <1>2, <2>2
  <2>. QED
    BY <1>1, <2>1, <2>2, <2>3
<1>4. \A d \in 0 .. 3 : d = 0 \/ d = 1 \/ d = 2 \/ d = 3
  OBVIOUS
<1>5. \A d \in 0 .. 3 : OK(d)
  BY <1>3, <1>4
<1>. QED
  BY <1>5 DEF OK

LEMMA TreesType ==
    ASSUME NEW part, SoundVolume(part), NEW s \in Seq(Stacked)
    PROVE  /\ Trees(Disk.vol[part], s) \in Seq(Seq(Words(part)))
           /\ Len(Trees(Disk.vol[part], s)) = Len(s)
           /\ \A i \in 1 .. Len(s) :
                 Trees(Disk.vol[part], s)[i] = Tree(Disk.vol[part], s[i].depth, s[i].at)
<1> DEFINE v == Disk.vol[part]
           W == Words(part)
           q == Trees(v, s)
<1>1. Len(s) \in Nat /\ \A i \in 1 .. Len(s) : s[i] \in Stacked
  BY LenProperties, ElementOfSeq
<1>2. \A i \in 1 .. Len(s) : s[i].depth \in 0 .. 3 /\ s[i].at \in Nat
  BY <1>1 DEF Stacked
<1>3. \A i \in 1 .. Len(s) : Tree(v, s[i].depth, s[i].at) \in Seq(W)
  BY <1>2, TreeType
<1>4. q = [i \in 1 .. Len(s) |-> Tree(v, s[i].depth, s[i].at)]
  BY DEF Trees
<1> HIDE DEF q, v, W
<1>5. q \in [1 .. Len(s) -> Seq(W)]
  BY <1>3, <1>4
<1>6. q \in Seq(Seq(W)) /\ Len(q) = Len(s)
  BY <1>1, <1>5, FunctionIsSeq
<1>. QED
  BY <1>4, <1>6 DEF q, v, W

LEMMA RestType ==
    ASSUME NEW part, SoundVolume(part), NEW s \in Seq(Stacked)
    PROVE  Rest(Disk.vol[part], s) \in Seq(Words(part))
BY TreesType, FlattenType DEF Rest

LEMMA RestConcat ==
    ASSUME NEW part, SoundVolume(part), NEW s \in Seq(Stacked), NEW t \in Seq(Stacked)
    PROVE  Rest(Disk.vol[part], s \o t) = Cat(Rest(Disk.vol[part], s), Rest(Disk.vol[part], t))
<1> DEFINE v == Disk.vol[part]
           W == Words(part)
           u == s \o t
           a == Trees(v, s)
           b == Trees(v, t)
           c == Trees(v, u)
           d == a \o b
           m == Len(s)
           n == Len(t)
<1>1. /\ m \in Nat /\ n \in Nat /\ u \in Seq(Stacked) /\ Len(u) = m + n
      /\ \A i \in 1 .. m + n : u[i] = IF i <= m THEN s[i] ELSE t[i - m]
  BY LenProperties, ConcatProperties
<1>2. a \in Seq(Seq(W)) /\ Len(a) = m /\ \A i \in 1 .. m : a[i] = Tree(v, s[i].depth, s[i].at)
  BY TreesType
<1>3. b \in Seq(Seq(W)) /\ Len(b) = n /\ \A i \in 1 .. n : b[i] = Tree(v, t[i].depth, t[i].at)
  BY TreesType
<1> HIDE DEF u, m, n
<1>4. /\ c \in Seq(Seq(W)) /\ Len(c) = m + n
      /\ \A i \in 1 .. m + n : c[i] = Tree(v, u[i].depth, u[i].at)
  <2>1. u \in Seq(Stacked)
    BY <1>1
  <2>2. /\ c \in Seq(Seq(W)) /\ Len(c) = Len(u)
        /\ \A i \in 1 .. Len(u) : c[i] = Tree(v, u[i].depth, u[i].at)
    BY <2>1, TreesType
  <2> HIDE DEF c, W, v
  <2>. QED
    BY <1>1, <2>2
<1> HIDE DEF a, b
<1>5. /\ d \in Seq(Seq(W)) /\ Len(d) = Len(a) + Len(b)
      /\ \A i \in 1 .. Len(a) + Len(b) : d[i] = IF i <= Len(a) THEN a[i] ELSE b[i - Len(a)]
  BY <1>2, <1>3, ConcatProperties
<1>6. d = a \o b
  OBVIOUS
<1> HIDE DEF c, d, v, W
<1>7. ASSUME NEW i \in 1 .. m + n PROVE c[i] = d[i]
  <2>1. CASE i <= m
    <3>1. i \in 1 .. m /\ u[i] = s[i]
      BY <1>1, <1>7, <2>1
    <3>2. d[i] = a[i]
      BY <1>2, <1>3, <1>5, <1>7, <2>1
    <3>. QED
      BY <1>2, <1>4, <1>7, <3>1, <3>2
  <2>2. CASE ~(i <= m)
    <3>1. i - m \in 1 .. n /\ u[i] = t[i - m]
      BY <1>1, <1>7, <2>2
    <3>2. d[i] = b[i - m]
      BY <1>2, <1>3, <1>5, <1>7, <2>2
    <3>. QED
      BY <1>3, <1>4, <1>7, <3>1, <3>2
  <2>. QED
    BY <2>1, <2>2
<1>8. Len(c) = Len(d)
  BY <1>2, <1>3, <1>4, <1>5
<1>9. c = d
  BY <1>4, <1>5, <1>7, <1>8, SeqEqual
<1>10. FlattenSeq(a \o b) = Cat(FlattenSeq(a), FlattenSeq(b))
  BY <1>2, <1>3, FlattenConcat
<1>11. FlattenSeq(c) = Cat(FlattenSeq(a), FlattenSeq(b))
  BY <1>6, <1>9, <1>10, Zenon
<1>. QED
  BY <1>11, Zenon DEF Rest, a, b, c, u, v

LEMMA RestEmpty == ASSUME NEW v PROVE Rest(v, <<>>) = <<>>
<1>1. Trees(v, <<>>) = <<>>
  <2>1. Len(<<>>) = 0
    BY EmptySeq
  <2>. QED
    BY <2>1 DEF Trees
<1>. QED
  BY <1>1, FlattenEmpty DEF Rest

\* The block on top comes first.
LEMMA RestHead ==
    ASSUME NEW part, SoundVolume(part), NEW s \in Seq(Stacked), s # <<>>
    PROVE  LET v == Disk.vol[part]
               b == Head(s)
           IN  /\ b \in Stacked /\ Tail(s) \in Seq(Stacked)
               /\ Tree(v, b.depth, b.at) \in Seq(Words(part))
               /\ Rest(v, s) = Cat(Tree(v, b.depth, b.at), Rest(v, Tail(s)))
<1> DEFINE v == Disk.vol[part]
           b == Head(s)
           t == Tail(s)
           x == Tree(v, b.depth, b.at)
<1>1. b \in Stacked /\ t \in Seq(Stacked) /\ Len(s) \in Nat \ {0}
  BY HeadTailProperties, EmptySeq
<1>2. s = <<b>> \o t
  OBVIOUS
<1>3. x \in Seq(Words(part))
  BY <1>1, TreeType DEF Stacked
<1> HIDE DEF b, t
<1>4. <<b>> \in Seq(Stacked) /\ Len(<<b>>) = 1 /\ <<b>>[1] = b
  BY <1>1
<1>5. Rest(v, s) = Cat(Rest(v, <<b>>), Rest(v, t))
  BY <1>1, <1>2, <1>4, RestConcat
<1>6. Trees(v, <<b>>) = <<x>>
  BY <1>4 DEF Trees
<1> HIDE DEF x, v
<1>7. Rest(v, <<b>>) = x
  BY <1>3, <1>6, FlattenOne DEF Rest
<1>. QED
  BY <1>1, <1>3, <1>5, <1>7, Zenon DEF b, t, x, v

\* Numbers of blocks that 32 bits of bytes address are not changed.
LEMMA BlockIs ==
    ASSUME NEW d \in 0 .. 3, NEW b \in 0 .. Wrap - 1
    PROVE  Block(d, b) \in Stacked /\ Block(d, b).depth = d /\ Block(d, b).at = b
<1>1. Wrap \in Nat \ {0} /\ b \in Nat /\ b < Wrap
  BY FilesAssumption
<1>2. b % Wrap = b
  BY <1>1
<1>. QED
  BY <1>1, <1>2 DEF Block, Stacked

\* A list of blocks of one depth.
LEMMA ListIs ==
    ASSUME NEW part, SoundVolume(part), NEW d \in 0 .. 3, NEW p \in Seq(0 .. Wrap - 1)
    PROVE  LET s == [i \in 1 .. Len(p) |-> Block(d, p[i])]
           IN  /\ s \in Seq(Stacked)
               /\ Rest(Disk.vol[part], s)
                    = FlattenSeq([i \in 1 .. Len(p) |-> Tree(Disk.vol[part], d, p[i])])
<1> DEFINE v == Disk.vol[part]
           s == [i \in 1 .. Len(p) |-> Block(d, p[i])]
<1>1. Len(p) \in Nat /\ \A i \in 1 .. Len(p) : p[i] \in 0 .. Wrap - 1
  BY LenProperties, ElementOfSeq
<1>3. \A i \in 1 .. Len(p) : /\ Block(d, p[i]) \in Stacked
                              /\ Block(d, p[i]).depth = d /\ Block(d, p[i]).at = p[i]
  BY <1>1, BlockIs
<1>5. s \in [1 .. Len(p) -> Stacked]
  BY <1>3
<1>6. \A i \in 1 .. Len(p) : s[i].depth = d /\ s[i].at = p[i]
  BY <1>3
<1> HIDE DEF s, v
<1>7. s \in Seq(Stacked) /\ Len(s) = Len(p)
  BY <1>1, <1>5, FunctionIsSeq
<1>8. Trees(v, s) = [i \in 1 .. Len(p) |-> Tree(v, d, p[i])]
  BY <1>6, <1>7 DEF Trees
<1>. QED
  BY <1>7, <1>8 DEF Rest, s, v

\* What is below the block on top takes its place.
LEMMA RestBelow ==
    ASSUME NEW part, SoundVolume(part), NEW b \in Stacked, b.depth # 0
    PROVE  LET v == Disk.vol[part]
               s == Below(b, PointersAt(v, b.at))
           IN  s \in Seq(Stacked) /\ Rest(v, s) = Tree(v, b.depth, b.at)
<1> DEFINE v == Disk.vol[part]
           p == PointersAt(v, b.at)
           d == b.depth
           s == [i \in 1 .. Len(p) |-> Block(d - 1, p[i])]
<1>1. d \in 1 .. 3 /\ d - 1 \in 0 .. 3
  BY DEF Stacked
<1>2. p \in Seq(0 .. Wrap - 1)
  BY PointersIs
<1>3. Below(b, p) = s
  BY DEF Below
<1>4. Tree(v, d, b.at) = FlattenSeq([i \in 1 .. Len(p) |-> Tree(v, d - 1, p[i])])
  BY <1>1, TreeIs
<1> HIDE DEF p, d
<1>5. s \in Seq(Stacked) /\ Rest(v, s) = FlattenSeq([i \in 1 .. Len(p) |-> Tree(v, d - 1, p[i])])
  BY <1>1, <1>2, ListIs
<1>. QED
  BY <1>3, <1>4, <1>5 DEF p, d

LEMMA RestOne ==
    ASSUME NEW part, SoundVolume(part), NEW b \in Stacked
    PROVE  /\ <<b>> \in Seq(Stacked)
           /\ Rest(Disk.vol[part], <<b>>) = Tree(Disk.vol[part], b.depth, b.at)
           /\ Tree(Disk.vol[part], b.depth, b.at) \in Seq(Words(part))
<1> DEFINE v == Disk.vol[part]
           x == Tree(v, b.depth, b.at)
<1>1. <<b>> \in Seq(Stacked) /\ Len(<<b>>) = 1 /\ <<b>>[1] = b
  OBVIOUS
<1>2. x \in Seq(Words(part))
  BY TreeType DEF Stacked
<1>3. Trees(v, <<b>>) = <<x>>
  BY <1>1 DEF Trees
<1> HIDE DEF x, v
<1>4. Rest(v, <<b>>) = x
  BY <1>2, <1>3, FlattenOne DEF Rest
<1>. QED
  BY <1>1, <1>2, <1>4 DEF x, v

\* The direct blocks of an inode.
LEMMA DirectIs ==
    ASSUME NEW part, SoundVolume(part), NEW inode, SoundInode(part, inode)
    PROVE  LET v == Disk.vol[part]
               q == SubSeq(inode.block, 1, NDirect)
               p == Used(q)
               s == [i \in 1 .. Len(p) |-> Block(0, p[i])]
           IN  /\ UpToZero(q) = p /\ s \in Seq(Stacked)
               /\ Rest(v, s) = FlattenSeq([i \in DOMAIN p |-> DataAt(v, p[i])])
<1> DEFINE v == Disk.vol[part]
           q == SubSeq(inode.block, 1, NDirect)
           p == Used(q)
           s == [i \in 1 .. Len(p) |-> Block(0, p[i])]
<1>1. NDirect \in Nat \ {0} /\ Wrap \in Nat \ {0}
  BY FilesAssumption
<1>2. /\ inode.block \in [1 .. NDirect + 3 -> Nat] /\ NoHoles(q)
      /\ \A i \in 1 .. NDirect + 3 : i # NDirect + 1 => inode.block[i] < Wrap
  BY DEF SoundInode
<1>3. \A i \in 1 .. NDirect : inode.block[i] \in Nat /\ inode.block[i] \in 0 .. Wrap - 1
  <2> SUFFICES ASSUME NEW i \in 1 .. NDirect
               PROVE  inode.block[i] \in Nat /\ inode.block[i] \in 0 .. Wrap - 1
    OBVIOUS
  <2>1. i \in 1 .. NDirect + 3 /\ i # NDirect + 1
    BY <1>1
  <2>2. inode.block[i] \in Nat /\ inode.block[i] < Wrap
    BY <1>2, <2>1
  <2>. QED
    BY <1>1, <2>2
<1>4. q \in Seq(Nat) /\ Len(q) = NDirect /\ \A i \in 1 .. NDirect : q[i] = inode.block[i]
  <2>1. 1 \in Int /\ NDirect \in Int
    BY <1>1
  <2>2. /\ q \in Seq(Nat) /\ Len(q) = IF 1 <= NDirect THEN NDirect - 1 + 1 ELSE 0
        /\ \A i \in 1 .. NDirect - 1 + 1 : q[i] = inode.block[1 + i - 1]
    BY <1>3, <2>1, SubSeqProperties
  <2> HIDE DEF q
  <2>3. NDirect - 1 + 1 = NDirect /\ \A i \in 1 .. NDirect : 1 + i - 1 = i
    BY <1>1
  <2>. QED
    BY <1>1, <2>2, <2>3
<1> HIDE DEF q
<1>5. /\ UpToZero(q) = p /\ p \in Seq(Nat) /\ Len(p) <= Len(q)
      /\ \A i \in 1 .. Len(p) : p[i] = q[i]
  BY <1>2, <1>4, UsedIs
<1> HIDE DEF p
<1>6. Len(p) \in Nat /\ DOMAIN p = 1 .. Len(p) /\ p \in [1 .. Len(p) -> Nat]
  BY <1>5, LenProperties
<1>7. \A i \in 1 .. Len(p) : p[i] \in 0 .. Wrap - 1
  <2> SUFFICES ASSUME NEW i \in 1 .. Len(p) PROVE p[i] \in 0 .. Wrap - 1
    OBVIOUS
  <2>1. p[i] = q[i] /\ Len(p) <= NDirect
    BY <1>4, <1>5
  <2>2. i \in 1 .. NDirect
    BY <1>1, <1>6, <2>1
  <2>3. q[i] = inode.block[i] /\ inode.block[i] \in 0 .. Wrap - 1
    BY <1>3, <1>4, <2>2
  <2>. QED
    BY <2>1, <2>3
<1>8. p \in [1 .. Len(p) -> 0 .. Wrap - 1]
  BY <1>6, <1>7
<1>9. p \in Seq(0 .. Wrap - 1)
  BY <1>6, <1>8, FunctionIsSeq
<1>10. /\ s \in Seq(Stacked)
       /\ Rest(v, s) = FlattenSeq([i \in 1 .. Len(p) |-> Tree(v, 0, p[i])])
  BY <1>9, ListIs
<1>11. [i \in 1 .. Len(p) |-> Tree(v, 0, p[i])] = [i \in DOMAIN p |-> DataAt(v, p[i])]
  <2>1. \A b : Tree(v, 0, b) = DataAt(v, b)
    BY DEF Tree
  <2>. QED
    BY <1>6, <2>1
<1>. QED
  BY <1>5, <1>10, <1>11 DEF p, q

\* The blocks that ext2ReadFile starts with stand for all that the inode has.
LEMMA RestBlocks ==
    ASSUME NEW part, SoundVolume(part), NEW inode, SoundInode(part, inode)
    PROVE  /\ Blocks(inode) \in Seq(Stacked)
           /\ Rest(Disk.vol[part], Blocks(inode)) = Whole(part, inode)
           /\ Whole(part, inode) \in Seq(Words(part))
<1> DEFINE v == Disk.vol[part]
           W == Words(part)
           bl == inode.block
           q == SubSeq(bl, 1, NDirect)
           p == Used(q)
           s == [i \in 1 .. Len(p) |-> Block(0, p[i])]
           tree(d) == IF bl[NDirect + d] = 0 THEN <<>>
                      ELSE IF d = 1 THEN <<[depth |-> 1, at |-> bl[NDirect + 1]]>>
                      ELSE <<Block(d, bl[NDirect + d])>>
           top(d) == IF bl[NDirect + d] = 0 THEN <<>> ELSE Tree(v, d, bl[NDirect + d])
           direct == FlattenSeq([i \in DOMAIN p |-> DataAt(v, p[i])])
<1>1. UpToZero(q) = p /\ s \in Seq(Stacked) /\ Rest(v, s) = direct
  BY DirectIs
<1>2. Blocks(inode) = ((s \o tree(1)) \o tree(2)) \o tree(3)
  BY <1>1 DEF Blocks
<1>3. Whole(part, inode) = Cat(Cat(Cat(direct, top(1)), top(2)), top(3))
  BY DEF Whole, Cat
<1>4. /\ NDirect \in Nat \ {0} /\ Wrap \in Nat \ {0} /\ bl \in [1 .. NDirect + 3 -> Nat]
      /\ \A i \in 1 .. NDirect + 3 : i # NDirect + 1 => bl[i] < Wrap
  BY FilesAssumption DEF SoundInode
<1> HIDE DEF q, p, s, bl, direct
<1>5. ASSUME NEW d \in 1 .. 3
      PROVE  tree(d) \in Seq(Stacked) /\ Rest(v, tree(d)) = top(d)
  <2>1. bl[NDirect + d] \in Nat /\ (d # 1 => bl[NDirect + d] \in 0 .. Wrap - 1)
    BY <1>4, <1>5
  <2>2. CASE bl[NDirect + d] = 0
    <3>1. tree(d) = <<>> /\ top(d) = <<>>
      BY <2>2
    <3>2. <<>> \in Seq(Stacked) /\ Rest(v, <<>>) = <<>>
      BY EmptySeq, RestEmpty
    <3> HIDE DEF tree, top
    <3>. QED
      BY <3>1, <3>2
  <2>3. CASE bl[NDirect + d] # 0
    <3>1. PICK b \in Stacked : b.depth = d /\ b.at = bl[NDirect + d] /\ tree(d) = <<b>>
      <4>1. CASE d = 1
        <5> DEFINE b == [depth |-> 1, at |-> bl[NDirect + 1]]
        <5>1. b \in Stacked /\ b.depth = d /\ b.at = bl[NDirect + d]
          BY <2>1, <4>1 DEF Stacked
        <5>2. tree(d) = <<b>>
          BY <2>3, <4>1
        <5>. QED
          BY <5>1, <5>2
      <4>2. CASE d # 1
        <5> DEFINE b == Block(d, bl[NDirect + d])
        <5>1. b \in Stacked /\ b.depth = d /\ b.at = bl[NDirect + d]
          BY <1>5, <2>1, <4>2, BlockIs
        <5>2. tree(d) = <<b>>
          BY <2>3, <4>2
        <5>. QED
          BY <5>1, <5>2
      <4>. QED
        BY <4>1, <4>2
    <3>2. top(d) = Tree(v, d, bl[NDirect + d])
      BY <2>3
    <3>3. <<b>> \in Seq(Stacked) /\ Rest(v, <<b>>) = Tree(v, b.depth, b.at)
      BY RestOne
    <3> HIDE DEF tree, top, v
    <3>. QED
      BY <3>1, <3>2, <3>3
  <2>. QED
    BY <2>2, <2>3
<1>6. /\ tree(1) \in Seq(Stacked) /\ tree(2) \in Seq(Stacked) /\ tree(3) \in Seq(Stacked)
      /\ Rest(v, tree(1)) = top(1) /\ Rest(v, tree(2)) = top(2) /\ Rest(v, tree(3)) = top(3)
  BY <1>5
<1> HIDE DEF tree, top
<1> DEFINE s1 == s \o tree(1)
           s2 == s1 \o tree(2)
           s3 == s2 \o tree(3)
<1>7. s1 \in Seq(Stacked) /\ Rest(v, s1) = Cat(direct, top(1))
  BY <1>1, <1>6, ConcatProperties, RestConcat
<1> HIDE DEF s1
<1>8. s2 \in Seq(Stacked) /\ Rest(v, s2) = Cat(Rest(v, s1), top(2))
  BY <1>6, <1>7, ConcatProperties, RestConcat
<1> HIDE DEF s2
<1>9. s3 \in Seq(Stacked) /\ Rest(v, s3) = Cat(Rest(v, s2), top(3))
  BY <1>6, <1>8, ConcatProperties, RestConcat
<1> HIDE DEF s3
<1>10. Blocks(inode) = s3
  BY <1>2, Zenon DEF s1, s2, s3
<1>11. Rest(v, s3) \in Seq(W)
  BY <1>9, RestType
<1>12. Rest(v, s3) = Whole(part, inode)
  BY <1>3, <1>7, <1>8, <1>9
<1>. QED
  BY <1>9, <1>10, <1>11, <1>12

\* A part P of the file has been read, and the stack stands for the rest.
Partial(part, inode, todo, data) ==
    /\ todo \in Seq(Stacked)
    /\ \E P \in Seq(Words(part)) :
          /\ Whole(part, inode) = Cat(P, Rest(Disk.vol[part], todo))
          /\ data = Kept(P, <<>>, inode.size)

LEMMA PartialStart ==
    ASSUME NEW part, SoundVolume(part), NEW inode, SoundInode(part, inode)
    PROVE  Partial(part, inode, Blocks(inode), <<>>)
<1>1. /\ Blocks(inode) \in Seq(Stacked)
      /\ Rest(Disk.vol[part], Blocks(inode)) = Whole(part, inode)
      /\ Whole(part, inode) \in Seq(Words(part))
  BY RestBlocks
<1>2. PICK P : P = <<>>
  OBVIOUS
<1>3. P \in Seq(Words(part))
  BY <1>2, EmptySeq
<1>4. Cat(<<>>, Whole(part, inode)) = Whole(part, inode)
  BY <1>1, CatEmpty
<1>5. Kept(<<>>, <<>>, inode.size) = <<>>
  BY KeptNothing DEF SoundInode
<1>6. Whole(part, inode) = Cat(P, Rest(Disk.vol[part], Blocks(inode))) /\ <<>> = Kept(P, <<>>, inode.size)
  BY <1>1, <1>2, <1>4, <1>5
<1>. QED
  BY <1>1, <1>3, <1>6 DEF Partial

LEMMA PartialData ==
    ASSUME NEW part, SoundVolume(part), NEW inode, SoundInode(part, inode),
           NEW todo, NEW data, Partial(part, inode, todo, data), todo # <<>>,
           Head(todo).depth = 0, NEW p
    PROVE  Partial(part, inode, Below(Head(todo), p) \o Tail(todo),
                   Kept(data, Content(Request("data", part, Head(todo).at, 0)), inode.size))
<1> DEFINE v == Disk.vol[part]
           W == Words(part)
           b == Head(todo)
           t == Tail(todo)
           x == Tree(v, b.depth, b.at)
           R == Rest(v, t)
<1>1. PICK P \in Seq(W) : Whole(part, inode) = Cat(P, Rest(v, todo)) /\ data = Kept(P, <<>>, inode.size)
  BY DEF Partial
<1>2. todo \in Seq(Stacked)
  BY DEF Partial
<1>3. t \in Seq(Stacked) /\ x \in Seq(W) /\ Rest(v, todo) = Cat(x, R)
  BY <1>2, RestHead
<1>4. Content(Request("data", part, b.at, 0)) = x
  <2>1. x = DataAt(v, b.at)
    BY DEF Tree
  <2>. QED
    BY <2>1 DEF Content, Request, DataAt
<1>5. R \in Seq(W)
  BY <1>3, RestType
<1>6. Below(b, p) = <<>>
  BY DEF Below
<1> HIDE DEF v, W, b, t, x, R
<1>7. Below(b, p) \o t = t
  BY <1>3, <1>6, ConcatEmptySeq
<1>8. Whole(part, inode) = Cat(Cat(P, x), R)
  BY <1>1, <1>3, <1>5, CatAssociative
<1>9. Cat(P, x) \in Seq(W)
  BY <1>3, CatType
<1>10. inode.size \in Nat
  BY DEF SoundInode
<1>11. Kept(data, x, inode.size) = Kept(Cat(P, x), <<>>, inode.size)
  BY <1>1, <1>3, <1>10, KeptTwice
<1>12. Partial(part, inode, t, Kept(data, x, inode.size))
  BY <1>3, <1>8, <1>9, <1>11 DEF Partial, R, v, W
<1>. QED
  BY <1>4, <1>7, <1>12 DEF b, t

LEMMA PartialPointers ==
    ASSUME NEW part, SoundVolume(part), NEW inode, SoundInode(part, inode),
           NEW todo, NEW data, Partial(part, inode, todo, data), todo # <<>>,
           Head(todo).depth # 0
    PROVE  Partial(part, inode,
                   Below(Head(todo), UpToZero(Content(Request("pointers", part, Head(todo).at, 0))))
                     \o Tail(todo), data)
<1> DEFINE v == Disk.vol[part]
           W == Words(part)
           b == Head(todo)
           t == Tail(todo)
           x == Tree(v, b.depth, b.at)
           s == Below(b, PointersAt(v, b.at))
<1>1. PICK P \in Seq(W) : Whole(part, inode) = Cat(P, Rest(v, todo)) /\ data = Kept(P, <<>>, inode.size)
  BY DEF Partial
<1>2. todo \in Seq(Stacked)
  BY DEF Partial
<1>3. b \in Stacked /\ t \in Seq(Stacked) /\ Rest(v, todo) = Cat(x, Rest(v, t))
  BY <1>2, RestHead
<1>4. UpToZero(Content(Request("pointers", part, b.at, 0))) = PointersAt(v, b.at)
  BY PointersIs
<1>5. s \in Seq(Stacked) /\ Rest(v, s) = x
  BY <1>3, RestBelow
<1> HIDE DEF b, t, x, s
<1>6. s \o t \in Seq(Stacked) /\ Rest(v, s \o t) = Cat(x, Rest(v, t))
  BY <1>3, <1>5, ConcatProperties, RestConcat
<1> DEFINE u == s \o t
<1>7. u \in Seq(Stacked) /\ Rest(v, u) = Rest(v, todo)
  BY <1>3, <1>6
<1> HIDE DEF u
<1>8. Partial(part, inode, u, data)
  BY <1>1, <1>7 DEF Partial
<1>9. Below(b, UpToZero(Content(Request("pointers", part, b.at, 0)))) \o t = u
  BY <1>4 DEF s, u
<1>. QED
  BY <1>8, <1>9 DEF b, t

LEMMA PartialEnd ==
    ASSUME NEW part, SoundVolume(part), NEW inode, SoundInode(part, inode),
           NEW data, Partial(part, inode, <<>>, data)
    PROVE  data = Items(part, inode) /\ Len(data) >= inode.size
<1> DEFINE w == Whole(part, inode)
<1>1. PICK P \in Seq(Words(part)) : w = Cat(P, Rest(Disk.vol[part], <<>>)) /\ data = Kept(P, <<>>, inode.size)
  BY DEF Partial
<1>2. Rest(Disk.vol[part], <<>>) = <<>> /\ Cat(P, <<>>) = P
  BY RestEmpty, CatEmpty
<1>3. w = P
  BY <1>1, <1>2
<1>4. inode.size \in Nat /\ inode.size <= Len(w)
  BY DEF SoundInode
<1>5. data = Items(part, inode)
  BY <1>1, <1>3 DEF Items
<1>6. Len(data) = Least(Len(P), inode.size) /\ Len(P) \in Nat
  BY <1>1, <1>4, CutIs, LenProperties
<1> DEFINE n == Len(P)
           k == Len(data)
<1>7. n \in Nat /\ inode.size <= n /\ k = Least(n, inode.size)
  BY <1>3, <1>4, <1>6
<1> HIDE DEF n, k, w
<1>8. k >= inode.size
  BY <1>4, <1>7 DEF Least
<1>. QED
  BY <1>5, <1>8 DEF k

-----------------------------------------------------------------------------
(***************************************************************************)
(* What is in the buffer when no read has failed.                          *)
(***************************************************************************)
Clean == ~mountFault /\ Boot \notin fault

\* The request that belongs to where the reader is.
Due ==
    IF L.pc = "mbr" THEN Request("mbr", 1, 0, 0)
    ELSE IF L.pc = "entry" THEN Request("entry", 1, L.i, 0)
    ELSE IF L.pc = "sb" THEN Request("sb", L.i, 0, 0)
    ELSE IF L.pc = "gd" THEN Request("gd", L.i, Groups(L.sb), 0)
    ELSE IF L.pc = "root" THEN InodeAt(Ext2Disk(Boot), EXT2_ROOT_INUM)
    ELSE IF L.pc = "lookup" THEN BlockRequest(nodes[L.current].hd, L.todo)
    ELSE IF L.pc = "load" THEN BlockRequest(nodes[L.node].hd, L.todo)
    ELSE IF L.pc = "child" THEN InodeAt(nodes[L.current].hd, Head(L.data).inum)
    ELSE Reads!Nothing

Asks ==
    /\ L.want \in {Reads!Nothing, Due}
    /\ asked[Boot] \in {Reads!Nothing, L.want}
    /\ Mounting(Boot) /\ ~mountFault => Boot \notin fault
    /\ Clean /\ asked[Boot] # Reads!Nothing => Boot \notin driveErr
    /\ Clean /\ L.want = Reads!Nothing /\ Due # Reads!Nothing => L.buf = OnDisk(Due)

LEMMA AsksInit == ASSUME OneReader, Init PROVE Asks
<1>1. L = [Locals EXCEPT !.pc = "mbr", !.want = Request("mbr", 1, 0, 0)]
  BY DEF Init, OneReader, L
<1>2. L.pc = "mbr" /\ L.want = Request("mbr", 1, 0, 0)
  BY <1>1, LocalsAre DEF LocalFields
<1>3. Due = Request("mbr", 1, 0, 0)
  BY <1>2 DEF Due
<1>4. asked[Boot] = Reads!Nothing /\ fault = {}
  BY DEF Init, OneReader, Reads!DiskInit
<1>5. L.want # Reads!Nothing
  BY <1>2, RequestIs
<1>. QED
  BY <1>2, <1>3, <1>4, <1>5 DEF Asks

\* A step that goes on with another request, or with none.
LEMMA AsksRuns ==
    ASSUME Asks, NEW pc, Runs(pc), L'.want = Due', Mounting(Boot)' => Mounting(Boot)
    PROVE  Asks'
<1>1. asked'[Boot] = Reads!Nothing
  BY DEF Asks, Runs
<1>2. UNCHANGED <<mountFault, fault>>
  BY DEF Runs, history
<1>3. (Mounting(Boot) /\ ~mountFault => Boot \notin fault)'
  BY <1>2 DEF Asks
<1>. QED
  BY <1>1, <1>3 DEF Asks

\* The steps that read nothing, or a request at a fixed place.
LEMMA DueToPart ==
    ASSUME NEW table, NEW i, ToPart(table, i)
    PROVE  L'.want = Due'
<1>1. CASE L' = Locals
  <2>1. L'.pc = "idle" /\ L'.want = Reads!Nothing
    BY <1>1, LocalsAre
  <2>. QED
    BY <2>1 DEF Due
<1>2. CASE L' # Locals
  <2>1. L'.pc = "sb" /\ L'.want = Request("sb", L'.i, 0, 0)
    BY <1>2 DEF ToPart
  <2>. QED
    BY <2>1 DEF Due
<1>. QED
  BY <1>1, <1>2

LEMMA AsksStep == ASSUME OneReader, Live, Asks, [Next]_vars PROVE Asks'
<1>0. Shape /\ IsTree(nodes)
  BY DEF Live
<1>1. CASE UNCHANGED vars
  BY <1>1 DEF Asks, Due, Clean, Mounting, Ext2Disk, L, vars, disk, history
<1>2. CASE Ask(Boot)
  <2>1. /\ UNCHANGED <<nodes, task, mountFault, fault>>
        /\ L.want # Reads!Nothing /\ asked'[Boot] = L.want /\ Boot \notin driveErr'
    BY <1>0, <1>2, AskIs DEF history
  <2>2. L' = L /\ Due' = Due
    BY <2>1 DEF L, Due, Ext2Disk
  <2>. QED
    BY <2>1, <2>2 DEF Asks, Clean, Mounting
<1>3. CASE DriveError(Boot)
  <2>1. /\ UNCHANGED <<nodes, task, asked>>
        /\ mountFault' = (mountFault \/ Mounting(Boot)) /\ Boot \in fault'
    BY <1>0, <1>3, DriveErrorIs
  <2>2. L' = L /\ Due' = Due /\ Mounting(Boot)' = Mounting(Boot)
    BY <2>1 DEF L, Due, Ext2Disk, Mounting
  <2>. QED
    BY <2>1, <2>2 DEF Asks, Clean
<1>4. CASE Reply(Boot) \/ ReplyFailure(Boot)
  <2>1. /\ Shape' /\ UNCHANGED nodes /\ Same(LocalFields \ {"buf", "want"})
        /\ asked'[Boot] = Reads!Nothing /\ L'.want = Reads!Nothing
    BY <1>0, <1>4, ReplyIs, ReplyFailureIs
  <2>2. /\ L'.pc = L.pc /\ L'.i = L.i /\ L'.current = L.current /\ L'.node = L.node
        /\ L'.sb = L.sb /\ L'.gd = L.gd /\ L'.todo = L.todo /\ L'.data = L.data
    BY <2>1 DEF Same, L, LocalFields
  <2>3. Due' = Due /\ Mounting(Boot)' = Mounting(Boot)
    BY <2>1, <2>2 DEF L, Due, Ext2Disk, Mounting
  <2>4. CASE Reply(Boot)
    <3>1. /\ UNCHANGED <<mountFault, fault>> /\ asked[Boot] # Reads!Nothing
          /\ Boot \notin driveErr => L'.buf = Buffer(asked[Boot].what, Content(asked[Boot]))
      BY <1>0, <2>4, ReplyIs DEF history
    <3>2. asked[Boot] = Due
      BY <3>1 DEF Asks
    <3>3. Boot \notin driveErr => L'.buf = OnDisk(Due)
      BY <3>1, <3>2 DEF OnDisk
    <3>4. Clean' => Boot \notin driveErr
      BY <3>1 DEF Asks, Clean
    <3>. QED
      BY <2>1, <2>3, <3>1, <3>3, <3>4 DEF Asks
  <2>5. CASE ReplyFailure(Boot)
    <3>1. mountFault' = (mountFault \/ Mounting(Boot)) /\ Boot \in fault'
      BY <1>0, <2>5, ReplyFailureIs
    <3>. QED
      BY <2>1, <2>3, <3>1 DEF Asks, Clean
  <2>. QED
    BY <1>4, <2>4, <2>5
<1>5. CASE IsMBR(Boot)
  <2>1. /\ Runs("mbr")
        /\ L' = Locals \/ (L'.pc = "entry" /\ L'.i = 1 /\ L'.want = Request("entry", 1, 1, 0))
    BY <1>0, <1>5, IsMBRIs
  <2>2. L'.want = Due'
    BY <2>1, LocalsAre DEF Due
  <2>3. Mounting(Boot)
    BY <2>1 DEF Runs, Mounting, L
  <2>. QED
    BY <2>1, <2>2, <2>3, AsksRuns
<1>6. CASE ReadMBR(Boot)
  <2>1. /\ Runs("entry")
        /\ \/ ToPart(Append(L.table, L.buf["entry"]), 0)
           \/ L'.pc = "entry" /\ L'.i = L.i + 1 /\ L'.want = Request("entry", 1, L.i + 1, 0)
    BY <1>0, <1>6, ReadMBRIs
  <2>2. L'.want = Due'
    BY <2>1, DueToPart DEF Due
  <2>3. Mounting(Boot)
    BY <2>1 DEF Runs, Mounting, L
  <2>. QED
    BY <2>1, <2>2, <2>3, AsksRuns
<1>7. CASE ReadSb(Boot)
  <2>1. L.pc = "sb"
    BY <1>7 DEF ReadSb, At, L
  <2>2. /\ Runs("sb")
        /\ \/ /\ L'.pc = "gd" /\ L'.sb = L.buf["sb"] /\ Same({"i", "table"})
              /\ L'.want = Request("gd", L.i, Groups(L.buf["sb"]), 0)
           \/ ToPart(L.table, L.i)
    BY <1>0, <1>7, <2>1, ReadSbIs DEF Live
  <2>3. L'.want = Due'
    <3>1. CASE ToPart(L.table, L.i)
      BY <3>1, DueToPart
    <3>2. CASE ~ToPart(L.table, L.i)
      <4>1. /\ L'.pc = "gd" /\ L'.sb = L.buf["sb"] /\ L'.i = L.i
            /\ L'.want = Request("gd", L.i, Groups(L.buf["sb"]), 0)
        BY <2>2, <3>2 DEF Same, L
      <4>. QED
        BY <4>1 DEF Due
    <3>. QED
      BY <3>1, <3>2
  <2>4. Mounting(Boot)
    BY <2>1 DEF Mounting, L
  <2>. QED
    BY <2>2, <2>3, <2>4, AsksRuns
<1>8. CASE ReadGd(Boot)
  <2>1. L.pc = "gd"
    BY <1>8 DEF ReadGd, At, L
  <2>2. /\ Runs("gd")
        /\ \/ L'.pc = "root" /\ L'.want = InodeAt(Ext2Disk(Boot)', EXT2_ROOT_INUM)
           \/ ToPart(L.table, L.i)
    BY <1>0, <1>8, <2>1, ReadGdIs DEF Live
  <2>3. L'.want = Due'
    BY <2>2, DueToPart DEF Due
  <2>4. Mounting(Boot)
    BY <2>1 DEF Mounting, L
  <2>. QED
    BY <2>2, <2>3, <2>4, AsksRuns
<1>9. CASE Mount(Boot)
  <2>1. L.pc = "root"
    BY <1>9 DEF Mount, At, L
  <2>2. Runs("root") /\ ToPart(L.table, L.i)
    BY <1>0, <1>9, <2>1, MountIs DEF Live
  <2>3. L'.want = Due'
    BY <2>2, DueToPart
  <2>4. Mounting(Boot)
    BY <2>1 DEF Mounting, L
  <2>. QED
    BY <2>2, <2>3, <2>4, AsksRuns
<1>10. CASE Lookup(Boot)
  <2>1. /\ Runs("walk") /\ Same(PathFields)
        /\ \/ L'.pc = "pick" /\ L'.want = Reads!Nothing
           \/ nodes' = Emptied(L.current) /\ Starts(L.current, "lookup")
    BY <1>0, <1>10, LookupIs
  <2>2. L'.pc \in {"pick", "lookup"} /\ L'.current = L.current /\ L.current \in DOMAIN nodes
    BY <2>1 DEF Starts, Same, PathFields, L, Live, Walking, Runs
  <2>3. L'.want = Due'
    <3>1. CASE L'.pc = "pick"
      BY <2>1, <3>1 DEF Due, Starts
    <3>2. CASE L'.pc # "pick"
      <4>1. nodes' = Emptied(L.current) /\ Starts(L.current, "lookup")
        BY <2>1, <3>2
      <4>2. L.current \in DOMAIN nodes \ Gone(L.current)
        BY <1>0, <2>2, GoneIs
      <4>3. nodes'[L.current].hd = nodes[L.current].hd
        BY <1>0, <2>2, <4>1, <4>2, EmptiedIs
      <4>. QED
        BY <2>2, <4>1, <4>3 DEF Starts, Due
    <3>. QED
      BY <3>1, <3>2
  <2>4. ~Mounting(Boot)'
    BY <2>2 DEF Mounting, L
  <2>. QED
    BY <2>1, <2>3, <2>4, AsksRuns
<1>11. CASE LookupBlock(Boot)
  <2>1. Runs("lookup") /\ UNCHANGED nodes /\ Advances(L.current)
    BY <1>0, <1>11, ReadBlockIs DEF LookupBlock, L
  <2>2. L'.pc = "lookup" /\ L'.current = L.current
    BY <2>1 DEF Advances, Same, PathFields, L, Runs
  <2>3. L'.want = Due' /\ ~Mounting(Boot)'
    BY <2>1, <2>2 DEF Due, Advances, Mounting, L
  <2>. QED
    BY <2>1, <2>3, AsksRuns
<1>12. CASE LoadBlock(Boot)
  <2>1. Runs("load") /\ UNCHANGED nodes /\ Advances(L.node)
    BY <1>0, <1>12, ReadBlockIs DEF LoadBlock, L
  <2>2. L'.pc = "load" /\ L'.node = L.node
    BY <2>1 DEF Advances, Same, PathFields, L, Runs
  <2>3. L'.want = Due' /\ ~Mounting(Boot)'
    BY <2>1, <2>2 DEF Due, Advances, Mounting, L
  <2>. QED
    BY <2>1, <2>3, AsksRuns
<1>13. CASE Dentry(Boot)
  <2>1. /\ Runs("dentry") /\ UNCHANGED nodes /\ Same(PathFields)
        /\ \/ L'.pc \in {"pick", "dentry"} /\ L'.want = Reads!Nothing
           \/ /\ L'.pc = "child" /\ L'.data = L.data
              /\ L'.want = InodeAt(nodes[L.current].hd, Head(L.data).inum)
    BY <1>0, <1>13, DentryIs
  <2>2. L'.current = L.current
    BY <2>1 DEF Same, PathFields, L
  <2>3. L'.want = Due' /\ ~Mounting(Boot)'
    BY <2>1, <2>2 DEF Due, Mounting, L
  <2>. QED
    BY <2>1, <2>3, AsksRuns
<1>14. CASE LookupRead(Boot) \/ CreateChild(Boot) \/ Pick(Boot)
  <2>1. /\ Runs("lookup") \/ Runs("child") \/ Runs("pick")
        /\ L'.want = Reads!Nothing /\ L'.pc \in {"dentry", "walk", "done"}
    <3>1. CASE Pick(Boot)
      <4>1. L.pc = "pick" /\ L.current \in DOMAIN nodes
        BY <3>1 DEF Pick, At, L, Live, Walking
      <4>2. nodes[L.current].childs \in Seq(DOMAIN nodes \ {Root})
        BY <1>0, <4>1 DEF IsTree, KidsOK
      <4>3. Len(nodes[L.current].childs) \in Nat
        BY <4>2, LenProperties
      <4>. QED
        BY <1>0, <3>1, <4>3, PickIs
    <3>2. CASE LookupRead(Boot) \/ CreateChild(Boot)
      BY <1>0, <3>2, LookupReadIs, CreateChildIs
    <3>. QED
      BY <1>14, <3>1, <3>2
  <2>2. L'.want = Due' /\ ~Mounting(Boot)'
    BY <2>1 DEF Due, Mounting, L
  <2>. QED
    BY <2>1, <2>2, AsksRuns
<1>15. ASSUME NEW p \in Paths, LoadTask(Boot, p) PROVE Asks'
  <2>1. /\ UNCHANGED asked /\ L.want = Reads!Nothing
        /\ L'.want = Reads!Nothing /\ L'.pc \in {"done", "walk"}
    BY <1>0, <1>15, LoadTaskIs
  <2>2. asked'[Boot] = Reads!Nothing
    BY <2>1 DEF Asks
  <2>3. L'.want = Due' /\ ~Mounting(Boot)'
    BY <2>1 DEF Due, Mounting, L
  <2>. QED
    BY <2>1, <2>2, <2>3 DEF Asks
<1>16. CASE Found(Boot)
  <2>1. /\ Runs("walk") /\ UNCHANGED nodes /\ L'.node = L.current
        /\ Starts(L.current, "load") \/ (L'.pc = "done" /\ L'.want = Reads!Nothing)
    BY <1>0, <1>16, FoundIs
  <2>2. L'.want = Due' /\ ~Mounting(Boot)'
    BY <2>1 DEF Due, Mounting, Starts, L
  <2>. QED
    BY <2>1, <2>2, AsksRuns
<1>17. CASE LoadRead(Boot) \/ Return(Boot)
  <2>1. /\ Runs("load") \/ Runs("done")
        /\ L'.want = Reads!Nothing /\ L'.pc \in {"done", "idle"}
    BY <1>0, <1>17, LoadReadIs, ReturnIs, LocalsAre
  <2>2. L'.want = Due' /\ ~Mounting(Boot)'
    BY <2>1 DEF Due, Mounting, L
  <2>. QED
    BY <2>1, <2>2, AsksRuns
<1>18. CASE Ends
  <2>1. /\ L' = Locals /\ UNCHANGED asked
        /\ asked[Boot] = Reads!Nothing \/ L.want = Reads!Nothing
    BY <1>0, <1>18, EndsIs
  <2>2. asked'[Boot] = Reads!Nothing
    BY <2>1 DEF Asks
  <2>3. L'.want = Reads!Nothing /\ L'.pc = "idle"
    BY <2>1, LocalsAre
  <2>4. Due' = Reads!Nothing /\ ~Mounting(Boot)'
    BY <2>3 DEF Due, Mounting, L
  <2>. QED
    BY <2>2, <2>3, <2>4 DEF Asks
<1>. QED
  BY <1>1, <1>2, <1>3, <1>4, <1>5, <1>6, <1>7, <1>8, <1>9, <1>10, <1>11, <1>12, <1>13, <1>14,
     <1>15, <1>16, <1>17, <1>18, NextIs

-----------------------------------------------------------------------------
(***************************************************************************)
(* Nodes and the entries of the disk that they stand for.                  *)
(***************************************************************************)
Is(ns, n, e) == ns[n].name = e.name /\ ns[n].hd = DiskOf(e.part) /\ ns[n].inode = Inode(e)

\* The children of n stand for the entries in E.
Represents(ns, n, E) ==
    /\ \A c \in Kids(ns, n) : \E e \in E : Is(ns, c, e)
    /\ \A e \in E : \E c \in Kids(ns, n) : Is(ns, c, e)

\* One child more.
LEMMA GrownKids ==
    ASSUME IsTree(nodes), NEW p \in DOMAIN nodes, NEW ns, NEW name, NEW hd, NEW inode, NEW type,
           Grown(ns, p, name, hd, inode, type)
    PROVE  /\ Kids(ns, p) = Kids(nodes, p) \cup {Fresh}
           /\ Len(ns[p].childs) = Len(nodes[p].childs) + 1
           /\ Kids(nodes, p) \subseteq DOMAIN nodes
<1> DEFINE s == nodes[p].childs
           D == DOMAIN nodes \cup {Fresh}
<1>1. s \in Seq(DOMAIN nodes \ {Root}) /\ Kids(nodes, p) \subseteq DOMAIN nodes
  BY TreeKids DEF IsTree, KidsOK
<1>2. ns[p].childs = Append(s, Fresh)
  BY DEF Grown
<1>3. s \in Seq(D)
  BY <1>1, SeqMonotonic
<1> HIDE DEF s, D
<1>4. Fresh \in D
  BY DEF D
<1>5. /\ Append(s, Fresh) \in Seq(D) /\ Len(Append(s, Fresh)) = Len(s) + 1
      /\ \A i \in 1 .. Len(s) : Append(s, Fresh)[i] = s[i]
      /\ Append(s, Fresh)[Len(s) + 1] = Fresh /\ Len(s) \in Nat
  BY <1>3, <1>4, AppendProperties, LenProperties
<1>6. \A k : k \in Kids(nodes, p) <=> \E i \in 1 .. Len(s) : s[i] = k
  BY <1>3, KidsAre DEF s
<1>7. \A k : k \in Kids(ns, p) <=> \E i \in 1 .. Len(s) + 1 : Append(s, Fresh)[i] = k
  <2>1. ns[p].childs \in Seq(D)
    BY <1>2, <1>5
  <2>2. \A k : k \in Kids(ns, p) <=> \E i \in 1 .. Len(ns[p].childs) : ns[p].childs[i] = k
    BY <2>1, KidsAre
  <2>. QED
    BY <1>2, <1>5, <2>2
<1>8. Kids(ns, p) = Kids(nodes, p) \cup {Fresh}
  <2>1. ASSUME NEW k PROVE k \in Kids(ns, p) <=> k \in Kids(nodes, p) \cup {Fresh}
    <3>1. ASSUME k \in Kids(ns, p) PROVE k \in Kids(nodes, p) \cup {Fresh}
      <4>1. PICK i \in 1 .. Len(s) + 1 : Append(s, Fresh)[i] = k
        BY <1>7, <3>1
      <4>2. CASE i = Len(s) + 1
        BY <1>5, <4>1, <4>2
      <4>3. CASE i # Len(s) + 1
        <5>1. i \in 1 .. Len(s)
          BY <1>5, <4>1, <4>3
        <5>. QED
          BY <1>5, <1>6, <4>1, <5>1
      <4>. QED
        BY <4>2, <4>3
    <3>2. ASSUME k \in Kids(nodes, p) PROVE k \in Kids(ns, p)
      <4>1. PICK i \in 1 .. Len(s) : s[i] = k
        BY <1>6, <3>2
      <4>2. i \in 1 .. Len(s) + 1
        BY <1>5, <4>1
      <4>. QED
        BY <1>5, <1>7, <4>1, <4>2
    <3>3. Fresh \in Kids(ns, p)
      <4>1. Len(s) + 1 \in 1 .. Len(s) + 1
        BY <1>5
      <4>. QED
        BY <1>5, <1>7, <4>1
    <3>. QED
      BY <3>1, <3>2, <3>3
  <2>. QED
    BY <2>1
<1>. QED
  BY <1>1, <1>2, <1>5, <1>8 DEF s

\* The new child stands for a new entry.
LEMMA GrownRepresents ==
    ASSUME IsTree(nodes), NEW p \in DOMAIN nodes, NEW ns, NEW E, NEW e, NEW type,
           Grown(ns, p, e.name, DiskOf(e.part), Inode(e), type), Represents(nodes, p, E)
    PROVE  Represents(ns, p, E \cup {e})
<1>1. Kids(ns, p) = Kids(nodes, p) \cup {Fresh} /\ Kids(nodes, p) \subseteq DOMAIN nodes
  BY GrownKids
<1>2. Is(ns, Fresh, e)
  BY DEF Grown, Is
<1>3. \A c \in DOMAIN nodes : \A f : Is(ns, c, f) <=> Is(nodes, c, f)
  BY DEF Grown, Is
<1>. QED
  BY <1>1, <1>2, <1>3 DEF Represents

\* The children of other nodes stand for what they stood for.
LEMMA GrownElsewhere ==
    ASSUME IsTree(nodes), NEW p \in DOMAIN nodes, NEW ns, NEW name, NEW hd, NEW inode, NEW type,
           Grown(ns, p, name, hd, inode, type), NEW m \in DOMAIN nodes, m # p, NEW E,
           Represents(nodes, m, E)
    PROVE  Represents(ns, m, E)
<1>1. Kids(ns, m) = Kids(nodes, m)
  BY DEF Grown, Kids
<1>2. Kids(nodes, m) \subseteq DOMAIN nodes
  BY TreeKids
<1>3. \A c \in DOMAIN nodes : \A f : Is(ns, c, f) <=> Is(nodes, c, f)
  BY DEF Grown, Is
<1>. QED
  BY <1>1, <1>2, <1>3 DEF Represents

\* A lookup does not touch the mount points.
LEMMA EmptiedElsewhere ==
    ASSUME IsTree(nodes), NEW n \in DOMAIN nodes, n # Root, NEW E, Represents(nodes, Root, E)
    PROVE  Represents(Emptied(n), Root, E)
<1>1. Root \in DOMAIN nodes \ Gone(n)
  BY GoneIs DEF IsTree
<1>2. Kids(Emptied(n), Root) = Kids(nodes, Root)
  BY <1>1, EmptiedIs DEF Kids
<1>3. \A c \in Kids(nodes, Root) : c \in DOMAIN nodes \ {Root} /\ nodes[c].parent = Root
  BY <1>1, TreeKids
<1>4. \A c \in Kids(nodes, Root) : c \in DOMAIN nodes \ Gone(n)
  BY <1>1, <1>3, GoneIs
<1>5. \A c \in Kids(nodes, Root) : \A e : Is(Emptied(n), c, e) <=> Is(nodes, c, e)
  BY <1>4, EmptiedIs DEF Is
<1>. QED
  BY <1>2, <1>5 DEF Represents

-----------------------------------------------------------------------------
(***************************************************************************)
(* The mount points.                                                       *)
(***************************************************************************)
Before(k) == {j \in 1 .. k - 1 : Mountable(j)}

MountedBefore(k) == {MountEntry(j) : j \in Before(k)}

RootHas(ns, k) ==
    Represents(ns, Root, MountedBefore(k)) /\ Len(ns[Root].childs) = Cardinality(Before(k))

LEMMA BeforeIs ==
    /\ Before(1) = {}
    /\ \A k \in 1 .. NParts + 1 : Before(k) \subseteq 1 .. k - 1 /\ IsFiniteSet(Before(k))
    /\ \A k \in 1 .. NParts : Before(k + 1) = IF Mountable(k) THEN Before(k) \cup {k} ELSE Before(k)
    /\ \A i \in 0 .. NParts : \A j \in i + 1 .. NParts + 1 :
          (\A k \in i + 1 .. j - 1 : ~Mountable(k)) => Before(j) = Before(i + 1)
<1>1. Before(1) = {}
  BY DEF Before
<1>2. ASSUME NEW k \in 1 .. NParts + 1 PROVE Before(k) \subseteq 1 .. k - 1 /\ IsFiniteSet(Before(k))
  <2>1. Before(k) \subseteq 1 .. k - 1
    BY DEF Before
  <2>2. IsFiniteSet(1 .. k - 1)
    BY FS_Interval DEF NParts
  <2>. QED
    BY <2>1, <2>2, FS_Subset
<1>3. ASSUME NEW k \in 1 .. NParts
      PROVE  Before(k + 1) = IF Mountable(k) THEN Before(k) \cup {k} ELSE Before(k)
  BY DEF Before, NParts
<1>4. ASSUME NEW i \in 0 .. NParts, NEW j \in i + 1 .. NParts + 1,
             \A k \in i + 1 .. j - 1 : ~Mountable(k)
      PROVE  Before(j) = Before(i + 1)
  BY <1>4 DEF Before, NParts
<1>. QED
  BY <1>1, <1>2, <1>3, <1>4

\* What is in a buffer after a read that did not fail.
LEMMA OnDiskIs ==
    ASSUME NEW what, NEW part, NEW at, NEW index
    PROVE  OnDisk(Request(what, part, at, index))[what] = Content(Request(what, part, at, index))
<1>1. Request(what, part, at, index).what = what
  BY RequestIs
<1>. QED
  BY <1>1 DEF OnDisk, Buffer

LEMMA ContentIs ==
    /\ Content(Request("mbr", 1, 0, 0)) = Disk.mbr
    /\ \A i : Content(Request("entry", 1, i, 0)) = Disk.table[i]
    /\ \A i : Content(Request("sb", i, 0, 0)) = Disk.vol[i].sb
    /\ \A i, n : Content(Request("gd", i, n, 0)) = SubSeq(Disk.vol[i].gd, 1, n)
  BY DEF Content, Request

\* A read that did not fail while the partitions were mounted.
LEMMA MountRead ==
    ASSUME Asks, ~mountFault, NEW pc \in {"mbr", "entry", "sb", "gd", "root"}, Runs(pc),
           NEW what, NEW part, NEW at, NEW index, Due = Request(what, part, at, index)
    PROVE  L.buf[what] = Content(Due)
<1>1. Clean
  BY DEF Asks, Clean, Mounting, Runs, L
<1>2. L.buf = OnDisk(Due)
  BY <1>1, RequestIs DEF Asks, Runs
<1>. QED
  BY <1>2, OnDiskIs

\* The table that has been read.
TableRead(table) == \A j \in 1 .. NParts : table[j] = Disk.table[j]

\* What mountAll has done when no read has failed.
MountsRight ==
    /\ L.pc = "mbr" => RootHas(nodes, 1)
    /\ L.pc = "entry" =>
          /\ Disk.mbr /\ RootHas(nodes, 1)
          /\ L.table \in Seq(STRING) /\ Len(L.table) = L.i - 1
          /\ \A j \in 1 .. L.i - 1 : L.table[j] = Disk.table[j]
    /\ L.pc \in {"sb", "gd", "root"} =>
          Disk.mbr /\ TableRead(L.table) /\ L.table[L.i] \in Ext2Types /\ RootHas(nodes, L.i)
    /\ L.pc \in {"gd", "root"} => L.sb = Disk.vol[L.i].sb /\ GoodSb(L.sb)
    /\ L.pc = "root" =>
          /\ L.sb.incompat \cap Unsupported = {}
          /\ L.gd = SubSeq(Disk.vol[L.i].gd, 1, Groups(L.sb))
    /\ ~Mounting(Boot) => Represents(nodes, Root, Entries(<<>>))

Mounts ==
    /\ nodes[Root].type = NODE_UNKNOWN
    /\ L.pc \in {"lookup", "dentry", "child"} => L.current # Root
    /\ ~mountFault => MountsRight

LEMMA MountsInit == ASSUME OneReader, Init PROVE Mounts
<1>1. L = [Locals EXCEPT !.pc = "mbr", !.want = Request("mbr", 1, 0, 0)]
  BY DEF Init, OneReader, L
<1>2. L.pc = "mbr"
  BY <1>1, LocalsAre DEF LocalFields
<1>3. nodes[Root].type = NODE_UNKNOWN /\ nodes[Root].childs = <<>>
  BY DEF Init
<1>4. Kids(nodes, Root) = {} /\ Len(nodes[Root].childs) = 0
  BY <1>3 DEF Kids, ToSet
<1>5. Before(1) = {} /\ MountedBefore(1) = {} /\ Cardinality(Before(1)) = 0
  BY BeforeIs, FS_EmptySet DEF MountedBefore
<1>6. RootHas(nodes, 1)
  BY <1>4, <1>5 DEF RootHas, Represents
<1>. QED
  BY <1>2, <1>3, <1>6 DEF Mounts, MountsRight, Mounting, L

\* The mount points when all partitions have been tried.
LEMMA EntriesOfRoot ==
    /\ Disk.mbr => Entries(<<>>) = MountedBefore(NParts + 1)
    /\ ~Disk.mbr => Entries(<<>>) = {}
<1>1. Before(NParts + 1) = {j \in 1 .. NParts : Mountable(j)}
  BY DEF Before, NParts
<1>2. Entries(<<>>) = {MountEntry(i) : i \in {j \in 1 .. NParts : Disk.mbr /\ Mountable(j)}}
  BY DEF Entries
<1>. QED
  BY <1>1, <1>2 DEF MountedBefore

\* mountAll goes on, when all partitions up to i have been tried.
LEMMA MountsToPart ==
    ASSUME NEW table, NEW i \in 0 .. NParts, ToPart(table, i), TableRead(table), Disk.mbr,
           RootHas(nodes', i + 1)
    PROVE  MountsRight'
<1>0. \A j \in 1 .. NParts : table[j] \notin Ext2Types => ~Mountable(j)
  BY DEF TableRead, Mountable
<1>1. CASE L' = Locals /\ \A j \in i + 1 .. NParts : table[j] \notin Ext2Types
  <2>1. L'.pc = "idle"
    BY <1>1, LocalsAre
  <2>2. \A k \in i + 1 .. (NParts + 1) - 1 : ~Mountable(k)
    BY <1>0, <1>1 DEF NParts
  <2>3. NParts + 1 \in i + 1 .. NParts + 1
    BY DEF NParts
  <2>4. Before(NParts + 1) = Before(i + 1)
    BY <2>2, <2>3, BeforeIs
  <2>5. Represents(nodes', Root, Entries(<<>>))
    BY <2>4, EntriesOfRoot DEF RootHas, MountedBefore
  <2>. QED
    BY <2>1, <2>5 DEF MountsRight
<1>2. CASE ~(L' = Locals /\ \A j \in i + 1 .. NParts : table[j] \notin Ext2Types)
  <2>1. PICK j \in i + 1 .. NParts :
           /\ table[j] \in Ext2Types
           /\ \A k \in i + 1 .. j - 1 : table[k] \notin Ext2Types
           /\ L'.pc = "sb" /\ L'.table = table /\ L'.i = j
    BY <1>2 DEF ToPart
  <2>2. \A k \in i + 1 .. j - 1 : ~Mountable(k)
    BY <1>0, <2>1 DEF NParts
  <2>3. j \in i + 1 .. NParts + 1
    BY DEF NParts
  <2>4. Before(j) = Before(i + 1)
    BY <2>2, <2>3, BeforeIs
  <2>5. RootHas(nodes', j)
    BY <2>4 DEF RootHas, MountedBefore
  <2>6. Mounting(Boot)'
    BY <2>1 DEF Mounting, L
  <2>. QED
    BY <2>1, <2>5, <2>6 DEF MountsRight
<1>. QED
  BY <1>1, <1>2

\* The steps that change neither the mount points nor what has been read of them.
LEMMA MountsSame ==
    ASSUME Mounts, UNCHANGED nodes, ~mountFault' => ~mountFault,
           ~Mounting(Boot), ~Mounting(Boot)',
           L'.pc \in {"lookup", "dentry", "child"} => L'.current # Root
    PROVE  Mounts'
<1>1. L'.pc \notin {"mbr", "entry", "sb", "gd", "root"}
  BY DEF Mounting, L
<1>. QED
  BY <1>1 DEF Mounts, MountsRight

\* A step after mountAll that changes the nodes below a mount point.
LEMMA MountsBelow ==
    ASSUME Mounts, NEW pc, Runs(pc), ~Mounting(Boot), ~Mounting(Boot)',
           nodes'[Root].type = nodes[Root].type,
           Represents(nodes, Root, Entries(<<>>)) => Represents(nodes', Root, Entries(<<>>)),
           L'.pc \in {"lookup", "dentry", "child"} => L'.current # Root
    PROVE  Mounts'
<1>1. L'.pc \notin {"mbr", "entry", "sb", "gd", "root"}
  BY DEF Mounting, L
<1>2. mountFault' = mountFault
  BY DEF Runs, history
<1>. QED
  BY <1>1, <1>2 DEF Mounts, MountsRight

\* No group of a sound volume is lost.
LEMMA GroupsIs ==
    ASSUME NEW part, SoundVolume(part)
    PROVE  Groups(Disk.vol[part].sb) = AllGroups(Disk.vol[part].sb)
<1> DEFINE n == AllGroups(Disk.vol[part].sb)
<1>1. n \in 0 .. GroupWrap - 1 /\ GroupWrap \in Nat \ {0}
  BY FilesAssumption DEF SoundVolume
<1> HIDE DEF n
<1>2. n % GroupWrap = n
  BY <1>1
<1>. QED
  BY <1>2 DEF Groups, n

LEMMA MountsStep == ASSUME OneReader, SoundDisk, Live, Asks, Mounts, [Next]_vars PROVE Mounts'
<1>0. Shape /\ IsTree(nodes) /\ Root \in DOMAIN nodes
  BY DEF Live, IsTree
<1>1. CASE UNCHANGED vars
  BY <1>1 DEF Mounts, MountsRight, Mounting, L, vars, history
<1>2. CASE Ask(Boot) \/ DriveError(Boot)
  <2>1. UNCHANGED <<nodes, task>> /\ (~mountFault' => ~mountFault)
    <3>1. CASE Ask(Boot)
      BY <1>0, <3>1, AskIs DEF history
    <3>2. CASE DriveError(Boot)
      <4>1. UNCHANGED <<nodes, task>> /\ mountFault' = (mountFault \/ Mounting(Boot))
        BY <1>0, <3>2, DriveErrorIs
      <4>. QED
        BY <4>1
    <3>. QED
      BY <1>2, <3>1, <3>2
  <2>. QED
    BY <2>1 DEF Mounts, MountsRight, Mounting, L
<1>3. CASE Reply(Boot) \/ ReplyFailure(Boot)
  <2>1. /\ UNCHANGED nodes /\ Same(LocalFields \ {"buf", "want"})
        /\ ~mountFault' => ~mountFault
    <3>1. CASE Reply(Boot)
      BY <1>0, <3>1, ReplyIs DEF history
    <3>2. CASE ReplyFailure(Boot)
      <4>1. /\ UNCHANGED nodes /\ Same(LocalFields \ {"buf", "want"})
            /\ mountFault' = (mountFault \/ Mounting(Boot))
        BY <1>0, <3>2, ReplyFailureIs
      <4>. QED
        BY <4>1
    <3>. QED
      BY <1>3, <3>1, <3>2
  <2>2. /\ L'.pc = L.pc /\ L'.i = L.i /\ L'.current = L.current
        /\ L'.sb = L.sb /\ L'.gd = L.gd /\ L'.table = L.table
    BY <2>1 DEF Same, L, LocalFields
  <2>3. Mounting(Boot)' = Mounting(Boot)
    BY <2>2 DEF Mounting, L
  <2>. QED
    BY <2>1, <2>2, <2>3 DEF Mounts, MountsRight
<1>4. CASE IsMBR(Boot)
  <2>1. /\ Runs("mbr") /\ UNCHANGED nodes
        /\ IF L.buf["mbr"] THEN L'.pc = "entry" /\ L'.i = 1 /\ L'.table = <<>>
           ELSE L' = Locals
    BY <1>0, <1>4, IsMBRIs
  <2>2. L'.pc \in {"entry", "idle"} /\ mountFault' = mountFault /\ L.pc = "mbr"
    BY <2>1, LocalsAre DEF Runs, history
  <2>3. ASSUME ~mountFault' PROVE MountsRight'
    <3>1. RootHas(nodes, 1)
      BY <2>2, <2>3 DEF Mounts, MountsRight
    <3>2. Due = Request("mbr", 1, 0, 0)
      BY <2>2 DEF Due
    <3>3. L.buf["mbr"] = Disk.mbr
      BY <2>1, <2>2, <2>3, <3>2, MountRead, ContentIs
    <3>4. CASE Disk.mbr
      <4>1. L'.pc = "entry" /\ L'.i = 1 /\ L'.table = <<>>
        BY <2>1, <3>3, <3>4
      <4>2. L'.table \in Seq(STRING) /\ Len(L'.table) = L'.i - 1
            /\ \A j \in 1 .. L'.i - 1 : L'.table[j] = Disk.table[j]
        BY <4>1, EmptySeq
      <4>3. Mounting(Boot)'
        BY <4>1 DEF Mounting, L
      <4>. QED
        BY <2>1, <3>1, <3>4, <4>1, <4>2, <4>3 DEF MountsRight
    <3>5. CASE ~Disk.mbr
      <4>1. L'.pc = "idle"
        BY <2>1, <3>3, <3>5, LocalsAre
      <4>2. MountedBefore(1) = {} /\ Entries(<<>>) = {}
        BY <3>5, BeforeIs, EntriesOfRoot DEF MountedBefore
      <4>3. Represents(nodes', Root, Entries(<<>>))
        BY <2>1, <3>1, <4>2 DEF RootHas
      <4>. QED
        BY <4>1, <4>3 DEF MountsRight
    <3>. QED
      BY <3>4, <3>5
  <2>. QED
    BY <2>1, <2>2, <2>3 DEF Mounts
<1>5. CASE ReadMBR(Boot)
  <2>1. /\ Runs("entry") /\ UNCHANGED nodes
        /\ L.i = NParts => ToPart(Append(L.table, L.buf["entry"]), 0)
        /\ L.i # NParts => /\ L'.pc = "entry" /\ L'.i = L.i + 1
                           /\ L'.table = Append(L.table, L.buf["entry"])
    BY <1>0, <1>5, ReadMBRIs
  <2>2. mountFault' = mountFault /\ L.pc = "entry" /\ L.i \in 1 .. NParts
    BY <2>1 DEF Runs, history, Live
  <2>3. 0 \in 0 .. NParts
    BY DEF NParts
  <2>4. L'.pc \in {"idle", "sb", "entry"}
    BY <2>1, <2>3, ToPartLive
  <2>5. ASSUME ~mountFault' PROVE MountsRight'
    <3> DEFINE i == L.i
               table == L.table
               new == Append(table, L.buf["entry"])
    <3>1. /\ Disk.mbr /\ RootHas(nodes, 1)
          /\ table \in Seq(STRING) /\ Len(table) = i - 1
          /\ \A j \in 1 .. i - 1 : table[j] = Disk.table[j]
      BY <2>2, <2>5 DEF Mounts, MountsRight
    <3>2. Due = Request("entry", 1, i, 0)
      BY <2>2 DEF Due
    <3>3. L.buf["entry"] = Disk.table[i]
      BY <2>1, <2>2, <2>5, <3>2, MountRead, ContentIs
    <3>4. Disk.table[i] \in STRING
      BY <2>2, ElementOfSeq DEF SoundDisk
    <3>5. i \in 1 .. NParts
      BY <2>2
    <3> HIDE DEF i, table
    <3>6. /\ new \in Seq(STRING) /\ Len(new) = i
          /\ \A j \in 1 .. i : new[j] = Disk.table[j]
      <4>1. /\ new \in Seq(STRING) /\ Len(new) = Len(table) + 1
            /\ \A j \in 1 .. Len(table) : new[j] = table[j]
            /\ new[Len(table) + 1] = Disk.table[i]
        BY <3>1, <3>3, <3>4, AppendProperties
      <4> HIDE DEF new
      <4>2. Len(table) + 1 = i
        BY <3>1, <3>5 DEF NParts
      <4>3. \A j \in 1 .. i : j = i \/ j \in 1 .. i - 1
        BY <3>5 DEF NParts
      <4>. QED
        BY <3>1, <4>1, <4>2, <4>3
    <3> HIDE DEF new
    <3>7. CASE i = NParts
      <4>1. TableRead(new) /\ ToPart(new, 0)
        BY <2>1, <3>6, <3>7 DEF TableRead, i, table, new
      <4>2. RootHas(nodes', 0 + 1)
        BY <2>1, <3>1
      <4>. QED
        BY <2>3, <3>1, <4>1, <4>2, MountsToPart
    <3>8. CASE i # NParts
      <4>1. L'.pc = "entry" /\ L'.i = i + 1 /\ L'.table = new
        BY <2>1, <3>8 DEF i, table, new
      <4>2. Len(L'.table) = L'.i - 1 /\ \A j \in 1 .. L'.i - 1 : L'.table[j] = Disk.table[j]
        BY <3>5, <3>6, <4>1 DEF NParts
      <4>3. Mounting(Boot)'
        BY <4>1 DEF Mounting, L
      <4>. QED
        BY <2>1, <3>1, <3>6, <4>1, <4>2, <4>3 DEF MountsRight
    <3>. QED
      BY <3>7, <3>8
  <2>. QED
    BY <2>1, <2>4, <2>5 DEF Mounts
<1>6. CASE ReadSb(Boot)
  <2>1. L.pc = "sb" /\ L.i \in 1 .. NParts
    BY <1>6 DEF ReadSb, At, L, Live
  <2>2. /\ Runs("sb") /\ UNCHANGED nodes
        /\ GoodSb(L.buf["sb"]) => L'.pc = "gd" /\ L'.sb = L.buf["sb"] /\ Same({"i", "table"})
        /\ ~GoodSb(L.buf["sb"]) => ToPart(L.table, L.i)
    BY <1>0, <1>6, <2>1, ReadSbIs
  <2>3. mountFault' = mountFault /\ L.i \in 0 .. NParts
    BY <2>1, <2>2 DEF Runs, history, NParts
  <2>4. L'.pc \in {"idle", "sb", "gd"}
    BY <2>2, <2>3, ToPartLive
  <2>5. ASSUME ~mountFault' PROVE MountsRight'
    <3>1. Disk.mbr /\ TableRead(L.table) /\ L.table[L.i] \in Ext2Types /\ RootHas(nodes, L.i)
      BY <2>1, <2>3, <2>5 DEF Mounts, MountsRight
    <3>2. Due = Request("sb", L.i, 0, 0)
      BY <2>1 DEF Due
    <3>3. L.buf["sb"] = Disk.vol[L.i].sb
      BY <2>2, <2>3, <2>5, <3>2, MountRead, ContentIs
    <3>4. CASE GoodSb(L.buf["sb"])
      <4>1. L'.pc = "gd" /\ L'.sb = L.buf["sb"] /\ L'.i = L.i /\ L'.table = L.table
        BY <2>2, <3>4 DEF Same, L
      <4>2. Mounting(Boot)'
        BY <4>1 DEF Mounting, L
      <4>. QED
        BY <2>2, <3>1, <3>3, <3>4, <4>1, <4>2 DEF MountsRight
    <3>5. CASE ~GoodSb(L.buf["sb"])
      <4>1. ~Mountable(L.i)
        BY <3>3, <3>5 DEF Mountable, GoodSb
      <4>2. Before(L.i + 1) = Before(L.i)
        BY <2>1, <4>1, BeforeIs
      <4>3. RootHas(nodes', L.i + 1)
        BY <2>2, <3>1, <4>2 DEF RootHas, MountedBefore
      <4>. QED
        BY <2>2, <2>3, <3>1, <3>5, <4>3, MountsToPart
    <3>. QED
      BY <3>4, <3>5
  <2>. QED
    BY <2>2, <2>4, <2>5 DEF Mounts
<1>7. CASE ReadGd(Boot)
  <2>1. L.pc = "gd" /\ L.i \in 1 .. NParts
    BY <1>7 DEF ReadGd, At, L, Live
  <2>2. /\ Runs("gd") /\ UNCHANGED nodes
        /\ L.sb.incompat \cap Unsupported = {} =>
              L'.pc = "root" /\ L'.gd = L.buf["gd"] /\ Same({"i", "table", "sb"})
        /\ L.sb.incompat \cap Unsupported # {} => ToPart(L.table, L.i)
    BY <1>0, <1>7, <2>1, ReadGdIs
  <2>3. mountFault' = mountFault /\ L.i \in 0 .. NParts
    BY <2>1, <2>2 DEF Runs, history, NParts
  <2>4. L'.pc \in {"idle", "sb", "root"}
    BY <2>2, <2>3, ToPartLive
  <2>5. ASSUME ~mountFault' PROVE MountsRight'
    <3>1. /\ Disk.mbr /\ TableRead(L.table) /\ L.table[L.i] \in Ext2Types /\ RootHas(nodes, L.i)
          /\ L.sb = Disk.vol[L.i].sb /\ GoodSb(L.sb)
      BY <2>1, <2>3, <2>5 DEF Mounts, MountsRight
    <3>2. Due = Request("gd", L.i, Groups(L.sb), 0)
      BY <2>1 DEF Due
    <3>3. L.buf["gd"] = SubSeq(Disk.vol[L.i].gd, 1, Groups(L.sb))
      BY <2>2, <2>3, <2>5, <3>2, MountRead, ContentIs
    <3>4. CASE L.sb.incompat \cap Unsupported = {}
      <4>1. L'.pc = "root" /\ L'.gd = L.buf["gd"] /\ L'.i = L.i /\ L'.table = L.table /\ L'.sb = L.sb
        BY <2>2, <3>4 DEF Same, L
      <4>2. Mounting(Boot)'
        BY <4>1 DEF Mounting, L
      <4>. QED
        BY <2>2, <3>1, <3>3, <3>4, <4>1, <4>2 DEF MountsRight
    <3>5. CASE L.sb.incompat \cap Unsupported # {}
      <4>1. ~Mountable(L.i)
        BY <3>1, <3>5 DEF Mountable
      <4>2. Before(L.i + 1) = Before(L.i)
        BY <2>1, <4>1, BeforeIs
      <4>3. RootHas(nodes', L.i + 1)
        BY <2>2, <3>1, <4>2 DEF RootHas, MountedBefore
      <4>. QED
        BY <2>2, <2>3, <3>1, <3>5, <4>3, MountsToPart
    <3>. QED
      BY <3>4, <3>5
  <2>. QED
    BY <2>2, <2>4, <2>5 DEF Mounts
<1>8. CASE Mount(Boot)
  <2>1. L.pc = "root" /\ L.i \in 1 .. NParts
    BY <1>8 DEF Mount, At, L, Live
  <2> DEFINE name == MountName(Len(nodes[Root].childs))
             hd == Ext2Disk(Boot)
             inode == L.buf["inode"]
  <2>2. Runs("root") /\ ToPart(L.table, L.i) /\ nodes' = Child(Root, name, hd, inode, NODE_ROOT)
    BY <1>0, <1>8, <2>1, MountIs
  <2>3. mountFault' = mountFault /\ L.i \in 0 .. NParts
    BY <2>1, <2>2 DEF Runs, history, NParts
  <2>4. L'.pc \in {"idle", "sb"}
    BY <2>2, <2>3, ToPartLive
  <2>5. Grown(nodes', Root, name, hd, inode, NODE_ROOT)
    BY <1>0, <2>2, ChildIs
  <2>6. ASSUME ~mountFault' PROVE MountsRight'
    <3> DEFINE i == L.i
               e == MountEntry(i)
    <3>1. /\ Disk.mbr /\ TableRead(L.table) /\ L.table[i] \in Ext2Types /\ RootHas(nodes, i)
          /\ L.sb = Disk.vol[i].sb /\ GoodSb(L.sb) /\ L.sb.incompat \cap Unsupported = {}
          /\ L.gd = SubSeq(Disk.vol[i].gd, 1, Groups(L.sb))
      BY <2>1, <2>3, <2>6 DEF Mounts, MountsRight
    <3>2. Mountable(i)
      BY <2>1, <3>1 DEF Mountable, GoodSb, TableRead
    <3>3. hd = DiskOf(i)
      <4>1. Groups(L.sb) = AllGroups(Disk.vol[i].sb)
        BY <2>1, <3>1, <3>2, GroupsIs DEF SoundDisk
      <4>. QED
        BY <3>1, <4>1 DEF Ext2Disk, DiskOf, L
    <3>4. inode = Inode(e)
      <4>1. Due = InodeAt(hd, EXT2_ROOT_INUM)
        BY <2>1 DEF Due
      <4>2. inode = Content(Due)
        BY <2>2, <2>3, <2>6, <4>1, MountRead DEF InodeAt
      <4>3. SoundVolume(i)
        BY <2>1, <3>2 DEF SoundDisk
      <4>4. Content(InodeAt(DiskOf(i), EXT2_ROOT_INUM)) = Disk.vol[i].number[EXT2_ROOT_INUM]
        BY <4>3 DEF SoundVolume
      <4>. QED
        BY <3>3, <4>1, <4>2, <4>4 DEF Inode, MountEntry
    <3>5. name = e.name /\ e.part = i
      BY <3>1 DEF MountEntry, RootHas, Before
    <3>6. Represents(nodes', Root, MountedBefore(i) \cup {e})
      <4>1. Grown(nodes', Root, e.name, DiskOf(e.part), Inode(e), NODE_ROOT)
        BY <2>5, <3>3, <3>4, <3>5
      <4>. QED
        BY <1>0, <3>1, <4>1, GrownRepresents DEF RootHas
    <3>7. Before(i + 1) = Before(i) \cup {i} /\ i \notin Before(i) /\ IsFiniteSet(Before(i))
      BY <2>1, <3>2, BeforeIs DEF NParts
    <3>8. MountedBefore(i + 1) = MountedBefore(i) \cup {e}
      BY <3>7 DEF MountedBefore
    <3>9. Cardinality(Before(i + 1)) = Cardinality(Before(i)) + 1
      BY <3>7, FS_AddElement
    <3>10. Len(nodes'[Root].childs) = Len(nodes[Root].childs) + 1
      BY <1>0, <2>5, GrownKids
    <3>11. RootHas(nodes', i + 1)
      BY <3>1, <3>6, <3>8, <3>9, <3>10 DEF RootHas
    <3>. QED
      BY <2>2, <2>3, <3>1, <3>11, MountsToPart
  <2>7. nodes'[Root].type = nodes[Root].type
    BY <1>0, <2>5 DEF Grown
  <2>. QED
    BY <2>4, <2>6, <2>7 DEF Mounts
<1>9. CASE Lookup(Boot)
  <2>1. /\ Runs("walk") /\ Same(PathFields) /\ L'.pc \in {"pick", "lookup"}
        /\ L.current = Root => UNCHANGED nodes /\ L'.pc = "pick"
        /\ L.current # Root => nodes' = Emptied(L.current)
    BY <1>0, <1>9, LookupIs DEF Starts
  <2>2. L.current \in DOMAIN nodes /\ L'.current = L.current
    BY <2>1 DEF Live, Walking, Runs, Same, PathFields, L
  <2>3. ~Mounting(Boot) /\ ~Mounting(Boot)'
    BY <2>1 DEF Mounting, Runs, L
  <2>4. /\ nodes'[Root].type = nodes[Root].type
        /\ Represents(nodes, Root, Entries(<<>>)) => Represents(nodes', Root, Entries(<<>>))
    <3>1. CASE L.current = Root
      BY <2>1, <3>1
    <3>2. CASE L.current # Root
      <4>1. Root \in DOMAIN nodes \ Gone(L.current)
        BY <1>0, <2>2, GoneIs
      <4>2. Emptied(L.current)[Root].type = nodes[Root].type
        BY <1>0, <2>2, <4>1, EmptiedIs
      <4>3. Represents(nodes, Root, Entries(<<>>)) => Represents(Emptied(L.current), Root, Entries(<<>>))
        BY <1>0, <2>2, <3>2, EmptiedElsewhere
      <4>. QED
        BY <2>1, <3>2, <4>2, <4>3
    <3>. QED
      BY <3>1, <3>2
  <2>. QED
    BY <2>1, <2>2, <2>3, <2>4, MountsBelow
<1>10. CASE LookupBlock(Boot) \/ LoadBlock(Boot)
  <2>1. /\ Runs("lookup") \/ Runs("load")
        /\ UNCHANGED nodes /\ Same(PathFields \cup {"pc"})
    BY <1>0, <1>10, ReadBlockIs DEF LookupBlock, LoadBlock, Advances
  <2>2. L'.pc = L.pc /\ L'.current = L.current
    BY <2>1 DEF Same, PathFields, L
  <2>3. ~Mounting(Boot) /\ ~Mounting(Boot)'
    BY <2>1, <2>2 DEF Mounting, Runs, L
  <2>4. L'.pc \in {"lookup", "dentry", "child"} => L'.current # Root
    BY <2>2 DEF Mounts
  <2>. QED
    BY <2>1, <2>3, <2>4, MountsBelow
<1>11. CASE LookupRead(Boot) \/ Dentry(Boot)
  <2>1. /\ Runs("lookup") \/ Runs("dentry")
        /\ UNCHANGED nodes /\ Same(PathFields) /\ L'.pc \in {"dentry", "child", "pick"}
    BY <1>0, <1>11, LookupReadIs, DentryIs
  <2>2. L'.current = L.current
    BY <2>1 DEF Same, PathFields, L
  <2>3. ~Mounting(Boot) /\ ~Mounting(Boot)'
    BY <2>1, <2>2 DEF Mounting, Runs, L
  <2>4. L'.current # Root
    BY <2>1, <2>2 DEF Mounts, Runs
  <2>. QED
    BY <2>1, <2>3, <2>4, MountsBelow
<1>12. CASE CreateChild(Boot)
  <2> DEFINE n == L.current
             name == Head(L.data).name
             hd == nodes[n].hd
             inode == L.buf["inode"]
             type == IF isDirectory(inode) THEN NODE_DIRECTORY ELSE NODE_FILE
  <2>1. Runs("child") /\ L'.pc = "dentry" /\ Same(PathFields) /\ nodes' = Child(n, name, hd, inode, type)
    BY <1>0, <1>12, CreateChildIs
  <2>2. L'.current = L.current /\ L.current \in DOMAIN nodes /\ L.current # Root
    BY <2>1 DEF Same, PathFields, L, Live, Walking, Runs, Mounts
  <2>3. Grown(nodes', n, name, hd, inode, type)
    BY <1>0, <2>1, <2>2, ChildIs
  <2>4. nodes'[Root].type = nodes[Root].type
    BY <1>0, <2>3 DEF Grown
  <2> HIDE DEF n, name, hd, inode, type
  <2>5. Represents(nodes, Root, Entries(<<>>)) => Represents(nodes', Root, Entries(<<>>))
    BY <1>0, <2>2, <2>3, GrownElsewhere DEF n
  <2>6. ~Mounting(Boot) /\ ~Mounting(Boot)'
    BY <2>1 DEF Mounting, Runs, L
  <2>. QED
    BY <2>1, <2>2, <2>4, <2>5, <2>6, MountsBelow
<1>13. ASSUME NEW p \in Paths, LoadTask(Boot, p) PROVE Mounts'
  <2>1. /\ UNCHANGED <<nodes, mountFault>> /\ ~Mounting(Boot) /\ L'.pc \in {"done", "walk"}
    BY <1>0, <1>13, LoadTaskIs
  <2>2. ~Mounting(Boot)'
    BY <2>1 DEF Mounting, L
  <2>. QED
    BY <2>1, <2>2, MountsSame
<1>14. CASE Pick(Boot)
  <2>1. L.pc = "pick" /\ L.current \in DOMAIN nodes
    BY <1>14 DEF Pick, At, L, Live, Walking
  <2>2. nodes[L.current].childs \in Seq(DOMAIN nodes \ {Root})
    BY <1>0, <2>1 DEF IsTree, KidsOK
  <2>3. Len(nodes[L.current].childs) \in Nat
    BY <2>2, LenProperties
  <2>4. Runs("pick") /\ UNCHANGED nodes /\ L'.pc \in {"done", "walk"}
    BY <1>0, <1>14, <2>3, PickIs
  <2>5. ~Mounting(Boot) /\ ~Mounting(Boot)'
    BY <2>4 DEF Mounting, Runs, L
  <2>. QED
    BY <2>4, <2>5, MountsBelow
<1>15. CASE Found(Boot) \/ LoadRead(Boot) \/ Return(Boot)
  <2>1. /\ Runs("walk") \/ Runs("load") \/ Runs("done")
        /\ UNCHANGED nodes /\ L'.pc \in {"load", "done", "idle"}
    BY <1>0, <1>15, FoundIs, LoadReadIs, ReturnIs, LocalsAre DEF Starts
  <2>2. ~Mounting(Boot) /\ ~Mounting(Boot)'
    BY <2>1 DEF Mounting, Runs, L
  <2>. QED
    BY <2>1, <2>2, MountsBelow
<1>16. CASE Ends
  <2>1. /\ L' = Locals /\ UNCHANGED <<nodes, history>>
        /\ mountFault \/ Boot \in fault \/ L.pc = "child"
    BY <1>0, <1>16, EndsIs
  <2>2. L'.pc = "idle" /\ mountFault' = mountFault
    BY <2>1, LocalsAre DEF history
  <2>3. Mounting(Boot) => mountFault
    BY <2>1 DEF Asks, Mounting, L
  <2>4. ~Mounting(Boot)'
    BY <2>2 DEF Mounting, L
  <2>5. CASE Mounting(Boot)
    BY <2>1, <2>2, <2>3, <2>5 DEF Mounts
  <2>6. CASE ~Mounting(Boot)
    BY <2>1, <2>2, <2>4, <2>6, MountsSame
  <2>. QED
    BY <2>5, <2>6
<1>. QED
  BY <1>1, <1>2, <1>3, <1>4, <1>5, <1>6, <1>7, <1>8, <1>9, <1>10, <1>11, <1>12, <1>13, <1>14,
     <1>15, <1>16, NextIs

-----------------------------------------------------------------------------
(***************************************************************************)
(* Places on the disk.                                                     *)
(***************************************************************************)
EntryOf(part, x) == [name |-> x.name, part |-> part, inum |-> x.inum]

\* The entries of the directory that an inode is.
Listed(part, inode) ==
    IF inode.mode # 4 THEN {}
    ELSE {EntryOf(part, e) :
            e \in {x \in ToSet(Items(part, inode)) : x.inum # 0 /\ x.name \notin Dots}}

\* All that a path can lead to.
Valid ==
    Entries(<<>>) \cup
    UNION {UNION {Listed(p, Disk.vol[p].number[m]) : m \in DOMAIN Disk.vol[p].number} :
             p \in {j \in 1 .. NParts : Mountable(j)}}

LEMMA EntriesIs ==
    ASSUME NEW place, place # <<>>
    PROVE  Entries(place) = Listed(Last(place).part, Inode(Last(place)))
  BY DEF Entries, Listed, EntryOf

LEMMA ItemsType ==
    ASSUME NEW part, SoundVolume(part), NEW inode, SoundInode(part, inode)
    PROVE  /\ Items(part, inode) \in Seq(Words(part)) /\ Len(Items(part, inode)) \in Nat
           /\ DOMAIN Items(part, inode) = 1 .. Len(Items(part, inode))
<1>1. Whole(part, inode) \in Seq(Words(part)) /\ inode.size \in Nat
  BY RestBlocks DEF SoundInode
<1>2. Items(part, inode) \in Seq(Words(part))
  BY <1>1, CutIs DEF Items
<1>. QED
  BY <1>2, LenProperties

\* The inode of a directory entry.
LEMMA InodeIs ==
    ASSUME SoundDisk, NEW part \in 1 .. NParts, Mountable(part),
           NEW m \in DOMAIN Disk.vol[part].number
    PROVE  LET inode == Disk.vol[part].number[m]
           IN  /\ SoundVolume(part) /\ SoundInode(part, inode)
               /\ inode.mode = 4 => SoundDirectory(part, inode)
               /\ Content(InodeAt(DiskOf(part), m)) = inode
<1>1. SoundVolume(part)
  BY DEF SoundDisk
<1>. QED
  BY <1>1 DEF SoundVolume

\* Entries lead to inodes.
LEMMA ListedIs ==
    ASSUME SoundDisk, NEW part \in 1 .. NParts, Mountable(part),
           NEW m \in DOMAIN Disk.vol[part].number, NEW e \in Listed(part, Disk.vol[part].number[m])
    PROVE  e.part = part /\ e.inum \in DOMAIN Disk.vol[part].number
<1> DEFINE inode == Disk.vol[part].number[m]
           d == Items(part, inode)
<1>1. inode.mode = 4
  BY DEF Listed
<1>2. SoundDirectory(part, inode)
  BY <1>1, InodeIs
<1>3. PICK x \in ToSet(d) : x.inum # 0 /\ e = EntryOf(part, x)
  BY <1>1 DEF Listed
<1>4. PICK i \in DOMAIN d : x = d[i]
  BY <1>3 DEF ToSet
<1>5. d[i].inum \in DOMAIN Disk.vol[part].number
  BY <1>2, <1>3, <1>4 DEF SoundDirectory
<1>. QED
  BY <1>3, <1>4, <1>5 DEF EntryOf

LEMMA ValidIs ==
    ASSUME SoundDisk, NEW e \in Valid
    PROVE  /\ e.part \in 1 .. NParts /\ Mountable(e.part) /\ SoundVolume(e.part)
           /\ e.inum \in DOMAIN Disk.vol[e.part].number
           /\ SoundInode(e.part, Inode(e))
           /\ Inode(e).mode = 4 => SoundDirectory(e.part, Inode(e))
<1>1. /\ e.part \in 1 .. NParts /\ Mountable(e.part)
      /\ e.inum \in DOMAIN Disk.vol[e.part].number
  <2>1. CASE e \in Entries(<<>>)
    <3>1. PICK j \in 1 .. NParts : Mountable(j) /\ e = MountEntry(j)
      BY <2>1 DEF Entries
    <3>2. e.part = j /\ e.inum = EXT2_ROOT_INUM
      BY <3>1 DEF MountEntry
    <3>3. SoundVolume(j)
      BY <3>1 DEF SoundDisk
    <3>. QED
      BY <3>1, <3>2, <3>3 DEF SoundVolume
  <2>2. CASE e \notin Entries(<<>>)
    <3>1. PICK p \in {j \in 1 .. NParts : Mountable(j)} :
             e \in UNION {Listed(p, Disk.vol[p].number[m]) : m \in DOMAIN Disk.vol[p].number}
      BY <2>2 DEF Valid
    <3>2. PICK m \in DOMAIN Disk.vol[p].number : e \in Listed(p, Disk.vol[p].number[m])
      BY <3>1
    <3>. QED
      BY <3>1, <3>2, ListedIs
  <2>. QED
    BY <2>1, <2>2
<1>. QED
  BY <1>1, InodeIs DEF Inode

\* The last entry of a place.
LEMMA LastIs ==
    ASSUME NEW S, NEW place \in Seq(S), place # <<>>
    PROVE  Len(place) \in 1 .. Len(place) /\ Last(place) = place[Len(place)] /\ Last(place) \in S
<1>1. Len(place) \in Nat \ {0}
  BY EmptySeq
<1>2. Len(place) \in 1 .. Len(place)
  BY <1>1
<1>. QED
  BY <1>2, ElementOfSeq DEF Last

LEMMA EntriesValid ==
    ASSUME SoundDisk, NEW place \in Seq(Valid)
    PROVE  Entries(place) \subseteq Valid
<1>1. CASE place = <<>>
  BY <1>1 DEF Valid
<1>2. CASE place # <<>>
  <2> DEFINE e == Last(place)
  <2>1. e \in Valid
    BY <1>2, LastIs
  <2>2. e.part \in 1 .. NParts /\ Mountable(e.part) /\ e.inum \in DOMAIN Disk.vol[e.part].number
    BY <2>1, ValidIs
  <2>3. Entries(place) = Listed(e.part, Disk.vol[e.part].number[e.inum])
    BY <1>2, EntriesIs DEF Inode
  <2> HIDE DEF e
  <2>. QED
    BY <2>2, <2>3 DEF Valid
<1>. QED
  BY <1>1, <1>2

\* No two mount points have one name.
LEMMA MountNames ==
    ASSUME NEW i \in 1 .. NParts, NEW j \in 1 .. NParts, i < j, Mountable(i), Mountable(j)
    PROVE  MountEntry(i).name # MountEntry(j).name
<1>1. MountEntry(i).name = MountName(Cardinality(Before(i)))
      /\ MountEntry(j).name = MountName(Cardinality(Before(j)))
  BY DEF MountEntry, Before
<1>2. Before(i) \in SUBSET Before(j) /\ i \in Before(j) /\ i \notin Before(i)
  BY DEF Before, NParts
<1>3. IsFiniteSet(Before(j)) /\ Before(j) \in SUBSET (1 .. j - 1)
  BY BeforeIs DEF NParts
<1>4. Cardinality(Before(i)) \in Nat /\ Cardinality(Before(j)) \in Nat
      /\ Cardinality(Before(i)) <= Cardinality(Before(j))
      /\ Cardinality(Before(i)) # Cardinality(Before(j))
  <2>1. IsFiniteSet(Before(i)) /\ Cardinality(Before(i)) <= Cardinality(Before(j))
        /\ (Cardinality(Before(j)) = Cardinality(Before(i)) => Before(j) = Before(i))
    BY <1>2, <1>3, FS_Subset
  <2>. QED
    BY <1>2, <1>3, <2>1, FS_CardinalityType
<1>5. Cardinality(Before(j)) <= 3
  <2>1. IsFiniteSet(1 .. j - 1) /\ Cardinality(1 .. j - 1) <= 3
    <3>1. j - 1 \in Int /\ 1 \in Int /\ j - 1 \in 1 .. 3
      BY DEF NParts
    <3>2. IsFiniteSet(1 .. j - 1) /\ Cardinality(1 .. j - 1) = IF 1 > j - 1 THEN 0 ELSE (j - 1) - 1 + 1
      BY <3>1, FS_Interval
    <3>. QED
      BY <3>1, <3>2
  <2>2. Cardinality(Before(j)) <= Cardinality(1 .. j - 1) /\ Cardinality(1 .. j - 1) \in Nat
    BY <1>3, <2>1, FS_Subset, FS_CardinalityType
  <2>. QED
    BY <1>4, <2>1, <2>2
<1>6. \A m, n \in 0 .. 3 : m # n => MountName(m) # MountName(n)
  <2>1. MountName(0) = "0" /\ MountName(1) = "1" /\ MountName(2) = "2" /\ MountName(3) = "3"
    BY DEF MountName
  <2>2. \A m \in 0 .. 3 : m = 0 \/ m = 1 \/ m = 2 \/ m = 3
    OBVIOUS
  <2>. QED
    BY <2>1, <2>2
<1>. QED
  BY <1>1, <1>4, <1>5, <1>6

\* No two entries of a place have one name.
LEMMA NamesDiffer ==
    ASSUME SoundDisk, NEW place \in Seq(Valid), NEW e \in Entries(place), NEW f \in Entries(place),
           e.name = f.name
    PROVE  e = f
<1>1. CASE place = <<>>
  <2>1. PICK i \in 1 .. NParts : Mountable(i) /\ e = MountEntry(i)
    BY <1>1 DEF Entries
  <2>2. PICK j \in 1 .. NParts : Mountable(j) /\ f = MountEntry(j)
    BY <1>1 DEF Entries
  <2>3. ~(i < j) /\ ~(j < i)
    BY <2>1, <2>2, MountNames
  <2>4. i = j
    BY <2>3 DEF NParts
  <2>. QED
    BY <2>1, <2>2, <2>4
<1>2. CASE place # <<>>
  <2> DEFINE l == Last(place)
             d == Items(l.part, Inode(l))
  <2>1. l \in Valid
    BY <1>2, LastIs
  <2>2. Entries(place) = Listed(l.part, Inode(l))
    BY <1>2, EntriesIs
  <2>3. Inode(l).mode = 4
    BY <2>2 DEF Listed
  <2>4. SoundDirectory(l.part, Inode(l))
    BY <2>1, <2>3, ValidIs
  <2>5. PICK x \in ToSet(d) : x.inum # 0 /\ e = EntryOf(l.part, x)
    BY <2>2, <2>3 DEF Listed
  <2>6. PICK y \in ToSet(d) : y.inum # 0 /\ f = EntryOf(l.part, y)
    BY <2>2, <2>3 DEF Listed
  <2>7. PICK i \in DOMAIN d : x = d[i]
    BY <2>5 DEF ToSet
  <2>8. PICK j \in DOMAIN d : y = d[j]
    BY <2>6 DEF ToSet
  <2>9. x.name = y.name
    BY <2>5, <2>6 DEF EntryOf
  <2>10. i = j
    BY <2>4, <2>5, <2>6, <2>7, <2>8, <2>9 DEF SoundDirectory
  <2>. QED
    BY <2>5, <2>6, <2>7, <2>8, <2>10
<1>. QED
  BY <1>1, <1>2

LEMMA NotNowhere ==
    ASSUME SoundDisk, NEW place \in Seq(Valid)
    PROVE  place # Nowhere
<1> SUFFICES ASSUME place = Nowhere PROVE FALSE
  OBVIOUS
<1>1. Len(place) = 1 /\ place[1].part = 0
  BY DEF Nowhere
<1>2. place[1] \in Valid
  BY <1>1, ElementOfSeq
<1>. QED
  BY <1>1, <1>2, ValidIs DEF NParts

\* What one component leads to.
LEMMA StepIs ==
    ASSUME SoundDisk, NEW place \in Seq(Valid), NEW c
    PROVE  /\ Entries(place) = {} => Step(place, c) = Nowhere
           /\ Entries(place) # {} /\ c = "." => Step(place, c) = place
           /\ Entries(place) # {} /\ c = ".." => Step(place, c) = IF place = <<>> THEN <<>> ELSE Front(place)
           /\ c \notin Dots /\ (\A e \in Entries(place) : e.name # c) => Step(place, c) = Nowhere
           /\ \A e \in Entries(place) : c \notin Dots /\ e.name = c => Step(place, c) = Append(place, e)
<1>1. place # Nowhere
  BY NotNowhere
<1>2. ASSUME NEW e \in Entries(place), c \notin Dots, e.name = c PROVE Step(place, c) = Append(place, e)
  <2> DEFINE f == CHOOSE x \in Entries(place) : x.name = c
  <2>1. f \in Entries(place) /\ f.name = c
    BY <1>2, Zenon
  <2>2. Step(place, c) = Append(place, f)
    BY <1>1, <1>2 DEF Step, Dots
  <2> HIDE DEF f
  <2>3. f = e
    BY <1>2, <2>1, NamesDiffer
  <2>. QED
    BY <2>2, <2>3
<1>. QED
  BY <1>1, <1>2 DEF Step, Dots

\* Where the first components of a path lead: the recursive definition of Places
\* defines a function.
PlacesUpTo(f, path, n) ==
    f = [i \in 0 .. n |-> IF i = 0 THEN <<>> ELSE Step(f[i - 1], path[i])]

LEMMA OnePlaceMore ==
    ASSUME NEW path, NEW n \in Nat \ {0}, NEW f, PlacesUpTo(f, path, n - 1)
    PROVE  \E g : PlacesUpTo(g, path, n)
<1> DEFINE g == [i \in 0 .. n |-> IF i = n THEN Step(f[n - 1], path[n]) ELSE f[i]]
<1>1. ASSUME NEW i \in 0 .. n
      PROVE  g[i] = IF i = 0 THEN <<>> ELSE Step(g[i - 1], path[i])
  <2>1. CASE i = n
    <3>1. g[i] = Step(f[n - 1], path[n]) /\ g[i - 1] = f[n - 1]
      BY <2>1
    <3>. QED
      BY <2>1, <3>1
  <2>2. CASE i # n
    <3>1. i \in 0 .. n - 1
      BY <2>2
    <3>2. f[i] = IF i = 0 THEN <<>> ELSE Step(f[i - 1], path[i])
      BY <3>1 DEF PlacesUpTo
    <3>3. g[i] = f[i] /\ (i # 0 => g[i - 1] = f[i - 1])
      BY <2>2, <3>1
    <3>. QED
      BY <3>2, <3>3
  <2>. QED
    BY <2>1, <2>2
<1>2. g = [i \in 0 .. n |-> g[i]]
  OBVIOUS
<1> HIDE DEF g
<1>3. PlacesUpTo(g, path, n)
  BY <1>1, <1>2 DEF PlacesUpTo
<1>. QED
  BY <1>3

LEMMA PlacesAre ==
    ASSUME NEW path, Len(path) \in Nat
    PROVE  /\ Places(path)[0] = <<>>
           /\ \A i \in 1 .. Len(path) : Places(path)[i] = Step(Places(path)[i - 1], path[i])
<1> DEFINE n == Len(path)
           S == {i \in Nat : \E f : PlacesUpTo(f, path, i)}
<1>1. 0 \in S
  <2> DEFINE f == [i \in 0 .. 0 |-> <<>>]
  <2>1. PlacesUpTo(f, path, 0)
    BY DEF PlacesUpTo
  <2> HIDE DEF f
  <2>. QED
    BY <2>1
<1>2. ASSUME NEW i \in 1 .. n, i - 1 \in S PROVE i \in S
  <2>1. PICK f : PlacesUpTo(f, path, i - 1)
    BY <1>2
  <2>2. i \in Nat \ {0}
    OBVIOUS
  <2>3. \E g : PlacesUpTo(g, path, i)
    BY <2>1, <2>2, OnePlaceMore
  <2>. QED
    BY <2>2, <2>3
<1> HIDE DEF S
<1>3. n \in S
  <2>1. n \in Nat /\ n \in 0 .. n
    OBVIOUS
  <2> HIDE DEF n
  <2>. QED
    BY <1>1, <1>2, <2>1, UpTo
<1>4. \E f : PlacesUpTo(f, path, n)
  BY <1>3 DEF S
<1>5. PlacesUpTo(Places(path), path, n)
  <2>1. Places(path) = CHOOSE f : PlacesUpTo(f, path, n)
    BY DEF Places, PlacesUpTo
  <2>. QED
    BY <1>4, <2>1, Zenon
<1>. QED
  BY <1>5 DEF PlacesUpTo

\* A path that has gone nowhere stays there.
LEMMA NowhereStays ==
    ASSUME NEW path, Len(path) \in Nat, NEW k \in 0 .. Len(path), Places(path)[k] = Nowhere
    PROVE  Places(path)[Len(path)] = Nowhere
<1> DEFINE n == Len(path)
           S == {i \in Nat : i <= n - k => Places(path)[k + i] = Nowhere}
<1>1. 0 \in S
  OBVIOUS
<1>2. ASSUME NEW i \in 1 .. n - k, i - 1 \in S PROVE i \in S
  <2>1. k + i \in 1 .. n /\ (k + i) - 1 = k + (i - 1)
    OBVIOUS
  <2>2. Places(path)[k + i] = Step(Places(path)[k + (i - 1)], path[k + i])
    BY <2>1, PlacesAre
  <2>3. Places(path)[k + (i - 1)] = Nowhere
    BY <1>2
  <2>4. Step(Nowhere, path[k + i]) = Nowhere
    BY DEF Step
  <2>. QED
    BY <2>2, <2>3, <2>4
<1>3. n - k \in Nat /\ n - k \in 0 .. n - k
  OBVIOUS
<1>4. n - k \in S
  <2> HIDE DEF S
  <2>. QED
    BY <1>1, <1>2, <1>3, UpTo
<1>5. k + (n - k) = n
  OBVIOUS
<1>. QED
  BY <1>3, <1>4, <1>5

-----------------------------------------------------------------------------
(***************************************************************************)
(* The nodes on the way to a place.                                        *)
(***************************************************************************)
\* ch[i] is the node for the first i entries of the place.
Chain(ns, ch, n, place) ==
    /\ ch \in [0 .. Len(place) -> DOMAIN ns] /\ ch[0] = Root /\ ch[Len(place)] = n
    /\ \A i \in 1 .. Len(place) :
          ch[i] # Root /\ ns[ch[i]].parent = ch[i - 1] /\ Is(ns, ch[i], place[i])

Leads(ns, n, place) == \E ch : Chain(ns, ch, n, place)

LEMMA LeadsRoot ==
    ASSUME NEW ns, Root \in DOMAIN ns
    PROVE  Leads(ns, Root, <<>>)
<1> DEFINE ch == [i \in 0 .. 0 |-> Root]
<1>1. Len(<<>>) = 0
  OBVIOUS
<1>2. Chain(ns, ch, Root, <<>>)
  BY <1>1 DEF Chain
<1>. QED
  BY <1>2 DEF Leads

\* The node at the end stands for the last entry; only the empty place is the root.
LEMMA LeadsEnd ==
    ASSUME NEW ns, NEW n, NEW S, NEW place \in Seq(S), Leads(ns, n, place)
    PROVE  /\ n \in DOMAIN ns
           /\ n = Root <=> place = <<>>
           /\ place # <<>> => Is(ns, n, Last(place))
<1>1. PICK ch : Chain(ns, ch, n, place)
  BY DEF Leads
<1>2. Len(place) \in Nat
  BY LenProperties
<1>3. Len(place) \in 0 .. Len(place)
  BY <1>2
<1>4. n \in DOMAIN ns
  BY <1>1, <1>3 DEF Chain
<1>5. CASE place = <<>>
  <2>1. Len(place) = 0
    BY <1>5
  <2>. QED
    BY <1>1, <1>4, <1>5, <2>1 DEF Chain
<1>6. CASE place # <<>>
  <2>1. Len(place) \in 1 .. Len(place) /\ Last(place) = place[Len(place)]
    BY <1>6, LastIs
  <2>. QED
    BY <1>1, <1>4, <1>6, <2>1 DEF Chain
<1>. QED
  BY <1>5, <1>6

\* Nodes that ms has as ns has them.
Unmoved(ns, ms, m) ==
    /\ m \in DOMAIN ms /\ ms[m].parent = ns[m].parent
    /\ ms[m].name = ns[m].name /\ ms[m].hd = ns[m].hd /\ ms[m].inode = ns[m].inode

LEMMA ChainKept ==
    ASSUME NEW ns, NEW ms, NEW ch, NEW n, NEW place, Len(place) \in Nat, Chain(ns, ch, n, place),
           \A i \in 0 .. Len(place) : Unmoved(ns, ms, ch[i])
    PROVE  Chain(ms, ch, n, place)
<1>1. ch \in [0 .. Len(place) -> DOMAIN ms]
  BY DEF Chain, Unmoved
<1>2. ASSUME NEW i \in 1 .. Len(place)
      PROVE  ch[i] # Root /\ ms[ch[i]].parent = ch[i - 1] /\ Is(ms, ch[i], place[i])
  <2>1. Unmoved(ns, ms, ch[i])
    OBVIOUS
  <2>. QED
    BY <2>1 DEF Chain, Unmoved, Is
<1>. QED
  BY <1>1, <1>2 DEF Chain

\* A lookup deletes nothing on the way to its node.
LEMMA LeadsEmptied ==
    ASSUME IsTree(nodes), NEW n \in DOMAIN nodes, NEW S, NEW place \in Seq(S),
           Leads(nodes, n, place)
    PROVE  Leads(Emptied(n), n, place)
<1>1. PICK ch : Chain(nodes, ch, n, place)
  BY DEF Leads
<1>2. Len(place) \in Nat
  BY LenProperties
<1> DEFINE len == Len(place)
           U == {j \in Nat : j <= len => ch[len - j] \notin Gone(n)}
<1>3. 0 \in U
  BY <1>1, <1>2, GoneIs DEF Chain
<1>4. ASSUME NEW j \in 1 .. len, j - 1 \in U PROVE j \in U
  <2> DEFINE i == len - (j - 1)
  <2>1. i \in 1 .. len /\ i - 1 = len - j /\ i - 1 \in 0 .. len /\ i \in 0 .. len
    BY <1>2
  <2>2. ch[i] \notin Gone(n)
    BY <1>2, <1>4
  <2> HIDE DEF i
  <2>3. ch[i] \in DOMAIN nodes \ {Root} /\ nodes[ch[i]].parent = ch[i - 1]
    BY <1>1, <2>1 DEF Chain
  <2>4. ch[i - 1] \notin Gone(n)
    BY <2>2, <2>3, GoneIs
  <2>. QED
    BY <2>1, <2>4
<1> HIDE DEF U
<1>5. \A j \in 0 .. len : j \in U
  BY <1>2, <1>3, <1>4, UpTo
<1>6. ASSUME NEW i \in 0 .. len PROVE Unmoved(nodes, Emptied(n), ch[i])
  <2>1. len - i \in 0 .. len /\ len - (len - i) = i
    BY <1>2
  <2>2. ch[i] \notin Gone(n)
    BY <1>5, <2>1 DEF U
  <2>3. ch[i] \in DOMAIN nodes \ Gone(n)
    BY <1>1, <2>2 DEF Chain
  <2> DEFINE m == ch[i]
  <2> HIDE DEF m
  <2>4. m \in DOMAIN nodes \ Gone(n)
    BY <2>3 DEF m
  <2>5. /\ m \in DOMAIN Emptied(n) /\ Emptied(n)[m].parent = nodes[m].parent
        /\ Emptied(n)[m].name = nodes[m].name /\ Emptied(n)[m].hd = nodes[m].hd
        /\ Emptied(n)[m].inode = nodes[m].inode
    BY <2>4, EmptiedIs
  <2>6. Unmoved(nodes, Emptied(n), m)
    BY <2>5 DEF Unmoved
  <2>. QED
    BY <2>6 DEF m
<1>7. Chain(Emptied(n), ch, n, place)
  BY <1>1, <1>2, <1>6, ChainKept
<1>. QED
  BY <1>7 DEF Leads

LEMMA LeadsGrown ==
    ASSUME NEW p, NEW ns, NEW name, NEW hd, NEW inode, NEW type,
           Grown(ns, p, name, hd, inode, type), NEW n, NEW S, NEW place \in Seq(S),
           Leads(nodes, n, place)
    PROVE  Leads(ns, n, place)
<1>1. PICK ch : Chain(nodes, ch, n, place)
  BY DEF Leads
<1>2. Len(place) \in Nat
  BY LenProperties
<1>3. ASSUME NEW i \in 0 .. Len(place) PROVE Unmoved(nodes, ns, ch[i])
  <2>1. ch[i] \in DOMAIN nodes
    BY <1>1 DEF Chain
  <2>. QED
    BY <2>1 DEF Unmoved, Grown
<1>4. Chain(ns, ch, n, place)
  BY <1>1, <1>2, <1>3, ChainKept
<1>. QED
  BY <1>4 DEF Leads

\* ".." leads back.
LEMMA LeadsBack ==
    ASSUME NEW ns, NEW n, NEW S, NEW place \in Seq(S), place # <<>>, Leads(ns, n, place)
    PROVE  Leads(ns, ns[n].parent, Front(place)) /\ Front(place) \in Seq(S)
<1>1. PICK ch : Chain(ns, ch, n, place)
  BY DEF Leads
<1> DEFINE len == Len(place)
           f == Front(place)
           dh == [i \in 0 .. len - 1 |-> ch[i]]
<1>2. len \in Nat \ {0}
  BY EmptySeq
<1>3. /\ f \in Seq(S) /\ Len(f) = len - 1 /\ \A i \in 1 .. len - 1 : f[i] = place[i]
  <2>1. \A i \in 1 .. len - 1 : place[i] \in S
    BY <1>2, ElementOfSeq
  <2> HIDE DEF len
  <2>2. /\ SubSeq(place, 1, len - 1) \in Seq(S)
        /\ Len(SubSeq(place, 1, len - 1)) = IF 1 <= len - 1 THEN (len - 1) - 1 + 1 ELSE 0
        /\ \A i \in 1 .. (len - 1) - 1 + 1 : SubSeq(place, 1, len - 1)[i] = place[1 + i - 1]
    BY <1>2, <2>1, SubSeqProperties
  <2>3. f = SubSeq(place, 1, len - 1)
    BY DEF Front, len
  <2> HIDE DEF f
  <2>. QED
    BY <1>2, <2>2, <2>3
<1>4. ch[len] = n /\ ns[n].parent = ch[len - 1]
  BY <1>1, <1>2 DEF Chain
<1>5. Chain(ns, dh, ns[n].parent, f)
  <2> HIDE DEF f
  <2>1. ch \in [0 .. len -> DOMAIN ns] /\ ch[0] = Root
    BY <1>1 DEF Chain
  <2>2. \A i \in 1 .. len :
          ch[i] # Root /\ ns[ch[i]].parent = ch[i - 1] /\ Is(ns, ch[i], place[i])
    BY <1>1 DEF Chain
  <2> HIDE DEF len
  <2>3. dh \in [0 .. len - 1 -> DOMAIN ns] /\ dh[0] = Root /\ dh[len - 1] = ns[n].parent
    BY <1>2, <1>4, <2>1
  <2>4. ASSUME NEW i \in 1 .. len - 1
        PROVE  dh[i] # Root /\ ns[dh[i]].parent = dh[i - 1] /\ Is(ns, dh[i], f[i])
    <3>1. dh[i] = ch[i] /\ dh[i - 1] = ch[i - 1] /\ i \in 1 .. len
      BY <1>2
    <3>. QED
      BY <1>3, <2>2, <3>1
  <2> HIDE DEF dh
  <2>. QED
    BY <1>3, <2>3, <2>4 DEF Chain
<1>. QED
  BY <1>3, <1>5 DEF Leads

\* A child leads to an entry more.
LEMMA LeadsDown ==
    ASSUME NEW ns, IsTree(ns), NEW n, NEW S, NEW place \in Seq(S), Leads(ns, n, place),
           NEW c \in Kids(ns, n), NEW e \in S, Is(ns, c, e)
    PROVE  Leads(ns, c, Append(place, e)) /\ Append(place, e) \in Seq(S)
<1>1. PICK ch : Chain(ns, ch, n, place)
  BY DEF Leads
<1>2. n \in DOMAIN ns /\ Len(place) \in Nat
  BY LeadsEnd, LenProperties
<1>3. c \in DOMAIN ns \ {Root} /\ ns[c].parent = n
  BY <1>2, TreeKids
<1> DEFINE len == Len(place)
           p == Append(place, e)
           dh == [i \in 0 .. len + 1 |-> IF i = len + 1 THEN c ELSE ch[i]]
<1>4. /\ p \in Seq(S) /\ Len(p) = len + 1 /\ p[len + 1] = e
      /\ \A i \in 1 .. len : p[i] = place[i]
  BY AppendProperties
<1>5. /\ ch \in [0 .. len -> DOMAIN ns] /\ ch[0] = Root /\ ch[len] = n
      /\ \A i \in 1 .. len :
            ch[i] # Root /\ ns[ch[i]].parent = ch[i - 1] /\ Is(ns, ch[i], place[i])
  BY <1>1 DEF Chain
<1>6. len \in Nat
  BY <1>2
<1> HIDE DEF len, p
<1>7. dh \in [0 .. len + 1 -> DOMAIN ns] /\ dh[0] = Root /\ dh[len + 1] = c
  BY <1>3, <1>5, <1>6
<1>8. ASSUME NEW i \in 1 .. len + 1
      PROVE  dh[i] # Root /\ ns[dh[i]].parent = dh[i - 1] /\ Is(ns, dh[i], p[i])
  <2>1. CASE i = len + 1
    <3>1. dh[i] = c /\ dh[i - 1] = n
      BY <1>5, <1>6, <2>1
    <3>. QED
      BY <1>3, <1>4, <2>1, <3>1
  <2>2. CASE i # len + 1
    <3>1. dh[i] = ch[i] /\ dh[i - 1] = ch[i - 1] /\ i \in 1 .. len
      BY <1>6, <2>2
    <3>. QED
      BY <1>4, <1>5, <3>1
  <2>. QED
    BY <2>1, <2>2
<1> HIDE DEF dh
<1>9. Chain(ns, dh, c, p)
  BY <1>4, <1>7, <1>8 DEF Chain
<1>. QED
  BY <1>4, <1>9 DEF Leads, p

-----------------------------------------------------------------------------
(***************************************************************************)
(* The loop over the entries of a directory.                               *)
(***************************************************************************)
\* The entries among the first k items that get a node.
Named(e, k) ==
    LET items == Items(e.part, Inode(e))
    IN  {EntryOf(e.part, items[i]) : i \in {j \in 1 .. k : items[j].name \notin Dots}}

\* The first k items have been gone through, and data are the others.
Listing(ns, n, e, data, k) ==
    LET items == Items(e.part, Inode(e))
    IN  /\ k \in 0 .. Len(items)
        /\ data \in Seq(Words(e.part)) /\ Len(data) = Len(items) - k
        /\ \A i \in 1 .. Len(data) : data[i] = items[k + i]
        /\ \A i \in 1 .. k : items[i].inum # 0
        /\ Represents(ns, n, Named(e, k))

LEMMA ListingStart ==
    ASSUME SoundDisk, NEW e \in Valid, NEW ns, NEW n, Kids(ns, n) = {}
    PROVE  Listing(ns, n, e, Items(e.part, Inode(e)), 0)
<1> DEFINE items == Items(e.part, Inode(e))
<1>1. items \in Seq(Words(e.part)) /\ Len(items) \in Nat
  BY ValidIs, ItemsType
<1>2. Named(e, 0) = {}
  BY DEF Named
<1>3. Represents(ns, n, Named(e, 0))
  BY <1>2 DEF Represents
<1> HIDE DEF items
<1>4. 0 \in 0 .. Len(items) /\ Len(items) = Len(items) - 0
      /\ \A i \in 1 .. Len(items) : items[i] = items[0 + i]
  BY <1>1
<1>. QED
  BY <1>1, <1>3, <1>4 DEF Listing, items

\* What the next item is.
LEMMA ListingHead ==
    ASSUME SoundDisk, NEW e \in Valid, NEW ns, NEW n, NEW data, NEW k, Listing(ns, n, e, data, k),
           data # <<>>
    PROVE  LET items == Items(e.part, Inode(e))
           IN  /\ k \in Nat /\ k + 1 \in 1 .. Len(items) /\ Head(data) = items[k + 1]
               /\ Tail(data) \in Seq(Words(e.part)) /\ Len(Tail(data)) = Len(items) - (k + 1)
               /\ \A i \in 1 .. Len(Tail(data)) : Tail(data)[i] = items[(k + 1) + i]
<1> DEFINE items == Items(e.part, Inode(e))
<1>1. Len(items) \in Nat
  BY ValidIs, ItemsType
<1>2. /\ k \in 0 .. Len(items) /\ data \in Seq(Words(e.part)) /\ Len(data) = Len(items) - k
      /\ \A i \in 1 .. Len(data) : data[i] = items[k + i]
  BY DEF Listing
<1>3. /\ Len(data) \in Nat \ {0} /\ Tail(data) \in Seq(Words(e.part)) /\ Len(Tail(data)) = Len(data) - 1
      /\ \A i \in 1 .. Len(Tail(data)) : Tail(data)[i] = data[i + 1]
      /\ Head(data) = data[1]
  BY <1>2, EmptySeq, HeadTailProperties
<1> HIDE DEF items
<1>4. k \in Nat /\ k + 1 \in 1 .. Len(items) /\ Len(Tail(data)) = Len(items) - (k + 1)
  BY <1>1, <1>2, <1>3
<1>5. 1 \in 1 .. Len(data) /\ Head(data) = items[k + 1]
  BY <1>2, <1>3
<1>6. ASSUME NEW i \in 1 .. Len(Tail(data)) PROVE Tail(data)[i] = items[(k + 1) + i]
  <2>1. i + 1 \in 1 .. Len(data) /\ k + (i + 1) = (k + 1) + i
    BY <1>3, <1>4
  <2>. QED
    BY <1>2, <1>3, <2>1
<1>. QED
  BY <1>3, <1>4, <1>5, <1>6 DEF items

\* The next item is passed over, or has got its node.
LEMMA ListingNext ==
    ASSUME SoundDisk, NEW e \in Valid, NEW ns, NEW ms, NEW n, NEW data, NEW k,
           Listing(ns, n, e, data, k), data # <<>>, Head(data).inum # 0,
           IF Head(data).name \in Dots THEN Represents(ms, n, Named(e, k))
           ELSE Represents(ms, n, Named(e, k) \cup {EntryOf(e.part, Head(data))})
    PROVE  Listing(ms, n, e, Tail(data), k + 1)
<1> DEFINE items == Items(e.part, Inode(e))
           x == Head(data)
<1>1. /\ k \in Nat /\ k + 1 \in 1 .. Len(items) /\ x = items[k + 1]
      /\ Tail(data) \in Seq(Words(e.part)) /\ Len(Tail(data)) = Len(items) - (k + 1)
      /\ \A i \in 1 .. Len(Tail(data)) : Tail(data)[i] = items[(k + 1) + i]
  BY ListingHead
<1>2. \A i \in 1 .. k : items[i].inum # 0
  BY DEF Listing
<1>3. Named(e, k) = {EntryOf(e.part, items[i]) : i \in {j \in 1 .. k : items[j].name \notin Dots}}
      /\ Named(e, k + 1) = {EntryOf(e.part, items[i]) : i \in {j \in 1 .. k + 1 : items[j].name \notin Dots}}
  BY DEF Named
<1>4. Len(items) \in Nat
  BY ValidIs, ItemsType
<1> HIDE DEF items
<1>5. k + 1 \in 0 .. Len(items) /\ \A i \in 1 .. k + 1 : i = k + 1 \/ i \in 1 .. k
  BY <1>1, <1>4
<1>6. Named(e, k + 1) = IF x.name \in Dots THEN Named(e, k) ELSE Named(e, k) \cup {EntryOf(e.part, x)}
  <2> DEFINE I == {j \in 1 .. k : items[j].name \notin Dots}
             J == {j \in 1 .. k + 1 : items[j].name \notin Dots}
  <2>1. J = IF x.name \in Dots THEN I ELSE I \cup {k + 1}
    BY <1>1, <1>5
  <2>2. Named(e, k) = {EntryOf(e.part, items[i]) : i \in I}
        /\ Named(e, k + 1) = {EntryOf(e.part, items[i]) : i \in J}
    BY <1>3
  <2> HIDE DEF I, J
  <2>3. CASE x.name \in Dots
    BY <2>1, <2>2, <2>3
  <2>4. CASE x.name \notin Dots
    <3>1. J = I \cup {k + 1}
      BY <2>1, <2>4
    <3>2. {EntryOf(e.part, items[i]) : i \in I \cup {k + 1}}
            = {EntryOf(e.part, items[i]) : i \in I} \cup {EntryOf(e.part, items[k + 1])}
      OBVIOUS
    <3>. QED
      BY <1>1, <2>2, <2>4, <3>1, <3>2
  <2>. QED
    BY <2>3, <2>4
<1>7. Represents(ms, n, Named(e, k + 1))
  BY <1>6
<1>8. \A i \in 1 .. k + 1 : items[i].inum # 0
  BY <1>1, <1>2, <1>5
<1>. QED
  BY <1>1, <1>5, <1>7, <1>8 DEF Listing, items

\* At the end, or at the first item without an inode, every entry has its node.
LEMMA ListingEnd ==
    ASSUME SoundDisk, NEW e \in Valid, Inode(e).mode = 4, NEW ns, NEW n, NEW data, NEW k,
           Listing(ns, n, e, data, k), data = <<>> \/ Head(data).inum = 0
    PROVE  Represents(ns, n, Listed(e.part, Inode(e)))
<1> DEFINE items == Items(e.part, Inode(e))
<1>1. Len(items) \in Nat /\ DOMAIN items = 1 .. Len(items)
  BY ValidIs, ItemsType
<1>2. /\ k \in 0 .. Len(items) /\ Len(data) = Len(items) - k
      /\ \A i \in 1 .. k : items[i].inum # 0
      /\ Represents(ns, n, Named(e, k))
  BY DEF Listing
<1>3. \A i, j \in DOMAIN items : i < j /\ items[i].inum = 0 => items[j].inum = 0
  BY ValidIs DEF SoundDirectory
<1>4. Listed(e.part, Inode(e))
        = {EntryOf(e.part, x) : x \in {y \in ToSet(items) : y.inum # 0 /\ y.name \notin Dots}}
  BY DEF Listed
<1>5. ToSet(items) = {items[i] : i \in 1 .. Len(items)}
  BY <1>1 DEF ToSet
<1>6. Named(e, k) = {EntryOf(e.part, items[i]) : i \in {j \in 1 .. k : items[j].name \notin Dots}}
  BY DEF Named
<1>7. data # <<>> => k + 1 \in 1 .. Len(items) /\ items[k + 1].inum = 0
  BY ListingHead
<1>8. data = <<>> => Len(data) = 0
  OBVIOUS
<1> HIDE DEF items
<1>9. ASSUME NEW i \in 1 .. Len(items), items[i].inum # 0 PROVE i \in 1 .. k
  <2>1. CASE data = <<>>
    BY <1>1, <1>2, <1>8, <2>1
  <2>2. CASE data # <<>>
    <3>1. k + 1 \in 1 .. Len(items) /\ items[k + 1].inum = 0
      BY <1>7, <2>2
    <3>2. ~(k + 1 < i) /\ k + 1 # i
      BY <1>1, <1>3, <1>9, <3>1
    <3>. QED
      BY <1>1, <1>2, <3>2
  <2>. QED
    BY <2>1, <2>2
<1>10. ASSUME NEW i \in 1 .. k PROVE i \in 1 .. Len(items)
  BY <1>1, <1>2
<1>11. Listed(e.part, Inode(e)) = Named(e, k)
  <2>1. ASSUME NEW f \in Listed(e.part, Inode(e)) PROVE f \in Named(e, k)
    <3>1. PICK x \in ToSet(items) : x.inum # 0 /\ x.name \notin Dots /\ f = EntryOf(e.part, x)
      BY <1>4
    <3>2. PICK i \in 1 .. Len(items) : x = items[i]
      BY <1>5
    <3>3. i \in 1 .. k
      BY <1>9, <3>1, <3>2
    <3>. QED
      BY <1>6, <3>1, <3>2, <3>3
  <2>2. ASSUME NEW f \in Named(e, k) PROVE f \in Listed(e.part, Inode(e))
    <3>1. PICK i \in 1 .. k : items[i].name \notin Dots /\ f = EntryOf(e.part, items[i])
      BY <1>6
    <3>2. items[i] \in ToSet(items) /\ items[i].inum # 0
      BY <1>2, <1>5, <1>10
    <3>. QED
      BY <1>4, <3>1, <3>2
  <2>. QED
    BY <2>1, <2>2
<1>. QED
  BY <1>2, <1>11

\* An entry of a sound directory has another one after it.
LEMMA ListingFollows ==
    ASSUME SoundDisk, NEW e \in Valid, Inode(e).mode = 4, NEW ns, NEW n, NEW data, NEW k,
           Listing(ns, n, e, data, k), data # <<>>, Head(data).inum # 0
    PROVE  Following(data) = Tail(data)
<1> DEFINE items == Items(e.part, Inode(e))
<1>1. k + 1 \in 1 .. Len(items) /\ Head(data) = items[k + 1]
  BY ListingHead
<1>2. DOMAIN items = 1 .. Len(items) /\ SoundDirectory(e.part, Inode(e))
  BY ValidIs, ItemsType
<1>3. Head(data).recLen # 0
  BY <1>1, <1>2 DEF SoundDirectory
<1>. QED
  BY <1>3 DEF Following

\* The inode of an entry is where CreateChild reads it.
LEMMA ListingInode ==
    ASSUME SoundDisk, NEW e \in Valid, Inode(e).mode = 4, NEW ns, NEW n, NEW data, NEW k,
           Listing(ns, n, e, data, k), data # <<>>, Head(data).inum # 0
    PROVE  Content(InodeAt(DiskOf(e.part), Head(data).inum)) = Inode(EntryOf(e.part, Head(data)))
<1> DEFINE items == Items(e.part, Inode(e))
           m == Head(data).inum
<1>1. k + 1 \in 1 .. Len(items) /\ Head(data) = items[k + 1]
  BY ListingHead
<1>2. DOMAIN items = 1 .. Len(items) /\ SoundDirectory(e.part, Inode(e))
  BY ValidIs, ItemsType
<1>3. m \in DOMAIN Disk.vol[e.part].number
  BY <1>1, <1>2 DEF SoundDirectory
<1>4. e.part \in 1 .. NParts /\ Mountable(e.part)
  BY ValidIs
<1>5. Content(InodeAt(DiskOf(e.part), m)) = Disk.vol[e.part].number[m]
  BY <1>3, <1>4, InodeIs
<1>. QED
  BY <1>5 DEF Inode, EntryOf

-----------------------------------------------------------------------------
(***************************************************************************)
(* resolvePath and loadTask, when none of their reads has failed.          *)
(***************************************************************************)
\* What is left of the path, and the place that the components before it lead to.
OnPath ==
    /\ L.goal \in Seq(STRING) /\ L.goal # NoPath
    /\ L.path \in Seq(STRING) /\ Len(L.path) <= Len(L.goal)
    /\ \A i \in 1 .. Len(L.path) : L.path[i] = L.goal[(Len(L.goal) - Len(L.path)) + i]

Place == Places(L.goal)[Len(L.goal) - Len(L.path)]

\* The current node is the one for the place.
Here == OnPath /\ L.node = Null /\ Place \in Seq(Valid) /\ Leads(nodes, L.current, Place)

\* The place is a directory.
InDirectory == Place # <<>> /\ Inode(Last(Place)).mode = 4

\* A part of the file at a place has been read.
Reading(place) == Partial(Last(place).part, Inode(Last(place)), L.todo, L.data)

\* The result of resolvePath.
Resolved ==
    LET place == Where(L.goal)
    IN  place \in Seq(Valid) /\ Leads(nodes, L.node, place) /\ L.node \in DOMAIN nodes

WalksRight ==
    /\ L.pc \in Walking => Here
    /\ L.pc \in {"lookup", "dentry", "child", "pick"} => L.path # <<>>
    /\ L.pc = "lookup" => InDirectory /\ Kids(nodes, L.current) = {} /\ Reading(Place)
    /\ L.pc \in {"dentry", "child"} =>
          InDirectory /\ \E k : Listing(nodes, L.current, Last(Place), L.data, k)
    /\ L.pc = "child" => L.data # <<>> /\ Head(L.data).inum # 0 /\ Head(L.data).name \notin Dots
    /\ L.pc = "pick" => Represents(nodes, L.current, Entries(Place))
    /\ L.pc = "load" =>
          /\ Resolved /\ Where(L.goal) # <<>> /\ nodes[L.node].type = NODE_FILE
          /\ Reading(Where(L.goal))
    /\ L.pc = "done" =>
          \/ L.node = Null /\ Where(L.goal) = Nowhere
          \/ /\ Resolved
             /\ L.data = IF nodes[L.node].type # NODE_FILE THEN <<>>
                         ELSE Items(Last(Where(L.goal)).part, Inode(Last(Where(L.goal))))

Walks == Clean => WalksRight

\* A block of a file.
LEMMA ReadingBlock ==
    ASSUME SoundDisk, NEW e \in Valid, NEW n, Asks, Clean, L.want = Reads!Nothing,
           Due = BlockRequest(nodes[n].hd, L.todo), Is(nodes, n, e), Advances(n),
           Partial(e.part, Inode(e), L.todo, L.data)
    PROVE  Partial(e.part, Inode(e), L'.todo, L'.data)
<1> DEFINE b == Head(L.todo)
           p == UpToZero(L.buf["pointers"])
<1>1. SoundVolume(e.part) /\ SoundInode(e.part, Inode(e))
  BY ValidIs
<1>2. nodes[n].hd.part = e.part /\ nodes[n].inode = Inode(e)
  BY DEF Is, DiskOf
<1>3. /\ L.todo # <<>> /\ L'.todo = Below(b, p) \o Tail(L.todo)
      /\ L'.data = IF b.depth = 0 THEN Kept(L.data, L.buf["data"], Inode(e).size) ELSE L.data
  BY <1>2 DEF Advances
<1>4. CASE b.depth = 0
  <2>1. Due = Request("data", e.part, b.at, 0)
    BY <1>2, <1>3, <1>4 DEF BlockRequest
  <2>2. L.buf = OnDisk(Due)
    BY <2>1, RequestIs DEF Asks
  <2>3. L.buf["data"] = Content(Request("data", e.part, b.at, 0))
    BY <2>1, <2>2, OnDiskIs
  <2>. QED
    BY <1>1, <1>3, <1>4, <2>3, PartialData
<1>5. CASE b.depth # 0
  <2>1. Due = Request("pointers", e.part, b.at, 0)
    BY <1>2, <1>3, <1>5 DEF BlockRequest
  <2>2. L.buf = OnDisk(Due)
    BY <2>1, RequestIs DEF Asks
  <2>3. L.buf["pointers"] = Content(Request("pointers", e.part, b.at, 0))
    BY <2>1, <2>2, OnDiskIs
  <2>. QED
    BY <1>1, <1>3, <1>5, <2>3, PartialPointers
<1>. QED
  BY <1>4, <1>5

\* The file has been read: nothing of its memory is left as it was.
LEMMA ReadingEnd ==
    ASSUME SoundDisk, NEW e \in Valid, NEW n, Is(nodes, n, e), L.todo = <<>>,
           Partial(e.part, Inode(e), L.todo, L.data), NEW d \in Mapped(Boot, n)
    PROVE  d = Items(e.part, Inode(e))
<1>1. SoundVolume(e.part) /\ SoundInode(e.part, Inode(e))
  BY ValidIs
<1>2. nodes[n].inode = Inode(e)
  BY DEF Is
<1>3. L.data = Items(e.part, Inode(e)) /\ Len(L.data) >= Inode(e).size
  BY <1>1, PartialEnd
<1>4. d = L.data
  BY <1>2, <1>3 DEF Mapped, L
<1>. QED
  BY <1>3, <1>4

\* Steps that leave a part of the state alone.
LEMMA HereSame ==
    ASSUME Here, L'.goal = L.goal, L'.path = L.path, L'.node = L.node, L'.current = L.current,
           Leads(nodes, L.current, Place) => Leads(nodes', L.current, Place)
    PROVE  Here' /\ Place' = Place
<1>1. Place' = Place
  BY DEF Place
<1>. QED
  BY <1>1 DEF Here, OnPath

LEMMA WalksInit == ASSUME OneReader, Init PROVE Walks
<1>1. L = [Locals EXCEPT !.pc = "mbr", !.want = Request("mbr", 1, 0, 0)]
  BY DEF Init, OneReader, L
<1>2. L.pc = "mbr"
  BY <1>1, LocalsAre DEF LocalFields
<1>. QED
  BY <1>2 DEF Walks, WalksRight, Walking

\* Steps of mountAll, and the end of a load, promise nothing.
LEMMA WalksElsewhere ==
    ASSUME L'.pc \in {"idle", "mbr", "entry", "sb", "gd", "root"}
    PROVE  Walks'
  BY DEF Walks, WalksRight, Walking

LEMMA CleanRuns == ASSUME NEW pc, Runs(pc), Clean' PROVE Clean
  BY DEF Runs, Clean, history

LEMMA WalksLookup ==
    ASSUME OneReader, SoundDisk, Live, Mounts, Walks, Lookup(Boot)
    PROVE  Walks'
<1> SUFFICES ASSUME Clean' PROVE WalksRight'
  BY DEF Walks
<1> DEFINE n == L.current
<1>0. Shape /\ IsTree(nodes)
  BY DEF Live
<1>1. /\ Runs("walk") /\ L.path # <<>> /\ Same(PathFields)
      /\ n = Root => UNCHANGED nodes /\ L'.pc = "pick"
      /\ n # Root =>
            /\ nodes' = Emptied(n)
            /\ isDirectory(nodes[n].inode) => Starts(n, "lookup")
            /\ ~isDirectory(nodes[n].inode) => L'.pc = "pick"
  BY <1>0, LookupIs
<1>2. Clean /\ L.pc = "walk"
  BY <1>1, CleanRuns DEF Runs
<1>3. Here /\ n \in DOMAIN nodes
  BY <1>2 DEF Walks, WalksRight, Walking, Live
<1>4. /\ L'.goal = L.goal /\ L'.path = L.path /\ L'.node = L.node /\ L'.current = n
  BY <1>1 DEF Same, PathFields, L
<1>5. Place \in Seq(Valid) /\ Leads(nodes, n, Place)
  BY <1>3 DEF Here
<1>6. n \in DOMAIN nodes /\ (n = Root <=> Place = <<>>) /\ (Place # <<>> => Is(nodes, n, Last(Place)))
  BY <1>5, LeadsEnd
<1>7. CASE n = Root
  <2>1. UNCHANGED nodes /\ L'.pc = "pick"
    BY <1>1, <1>7
  <2>2. Here' /\ Place' = Place
    BY <1>3, <1>4, <2>1, HereSame
  <2>3. Represents(nodes, Root, Entries(<<>>))
    <3>1. ~mountFault /\ ~Mounting(Boot)
      BY <1>2 DEF Clean, Mounting, L
    <3>. QED
      BY <3>1 DEF Mounts, MountsRight
  <2>4. Represents(nodes', L'.current, Entries(Place)')
    <3>1. Place' = <<>>
      BY <1>6, <1>7, <2>2
    <3>2. Entries(Place)' = Entries(<<>>)
      BY <3>1 DEF Entries
    <3>. QED
      BY <1>4, <1>7, <2>1, <2>3, <3>2
  <2>. QED
    BY <1>1, <1>4, <2>1, <2>2, <2>4 DEF WalksRight
<1>8. CASE n # Root
  <2> DEFINE e == Last(Place)
  <2>1. nodes' = Emptied(n) /\ Place # <<>> /\ Is(nodes, n, e) /\ e \in Valid
    BY <1>1, <1>5, <1>6, <1>8, LastIs
  <2>2. Leads(nodes', n, Place)
    BY <1>0, <1>5, <1>6, <2>1, LeadsEmptied
  <2>3. Here' /\ Place' = Place
    BY <1>3, <1>4, <2>2, HereSame
  <2>4. Kids(nodes', n) = {}
    <3>1. n \in DOMAIN nodes \ Gone(n)
      BY <1>0, <1>6, GoneIs
    <3>2. nodes'[n].childs = <<>>
      BY <1>0, <1>6, <2>1, <3>1, EmptiedIs
    <3>. QED
      BY <3>2 DEF Kids, ToSet
  <2>5. nodes[n].inode = Inode(e) /\ SoundVolume(e.part) /\ SoundInode(e.part, Inode(e))
    BY <2>1, ValidIs DEF Is
  <2>6. isDirectory(Inode(e)) <=> Inode(e).mode = 4
    BY <2>5 DEF SoundInode
  <2>7. CASE isDirectory(Inode(e))
    <3>1. L'.pc = "lookup" /\ L'.todo = Blocks(Inode(e)) /\ L'.data = <<>>
      BY <1>1, <1>8, <2>5, <2>7 DEF Starts
    <3>2. Partial(e.part, Inode(e), L'.todo, L'.data)
      BY <2>5, <3>1, PartialStart
    <3>3. Reading(Place)'
      BY <2>3, <3>2 DEF Reading
    <3>4. InDirectory'
      BY <2>1, <2>3, <2>6, <2>7 DEF InDirectory
    <3>. QED
      BY <1>1, <1>4, <2>3, <2>4, <3>1, <3>3, <3>4 DEF WalksRight
  <2>8. CASE ~isDirectory(Inode(e))
    <3>1. L'.pc = "pick"
      BY <1>1, <1>8, <2>5, <2>8
    <3>2. Entries(Place) = {}
      BY <2>1, <2>6, <2>8, EntriesIs DEF Listed
    <3>3. Represents(nodes', L'.current, Entries(Place))
      BY <1>4, <2>4, <3>2 DEF Represents
    <3>4. Entries(Place)' = Entries(Place)
      BY <2>3 DEF Entries
    <3>. QED
      BY <1>1, <1>4, <2>3, <3>1, <3>3, <3>4 DEF WalksRight
  <2>. QED
    BY <2>7, <2>8
<1>. QED
  BY <1>7, <1>8

LEMMA WalksLookupBlock ==
    ASSUME OneReader, SoundDisk, Live, Asks, Walks, LookupBlock(Boot)
    PROVE  Walks'
<1> SUFFICES ASSUME Clean' PROVE WalksRight'
  BY DEF Walks
<1> DEFINE n == L.current
           e == Last(Place)
<1>1. Runs("lookup") /\ UNCHANGED nodes /\ Advances(n)
  BY ReadBlockIs DEF LookupBlock, L, Live
<1>2. Clean /\ L.pc = "lookup" /\ L.want = Reads!Nothing
  BY <1>1, CleanRuns DEF Runs
<1>3. Here /\ L.path # <<>> /\ InDirectory /\ Kids(nodes, n) = {} /\ Reading(Place)
  BY <1>2 DEF Walks, WalksRight, Walking
<1>4. /\ L'.goal = L.goal /\ L'.path = L.path /\ L'.node = L.node /\ L'.current = n
      /\ L'.pc = "lookup"
  BY <1>1, <1>2 DEF Advances, Same, PathFields, L
<1>5. Here' /\ Place' = Place
  BY <1>1, <1>3, <1>4, HereSame
<1>6. Is(nodes, n, e) /\ e \in Valid
  BY <1>3, LeadsEnd, LastIs DEF Here, InDirectory
<1>7. Due = BlockRequest(nodes[n].hd, L.todo)
  BY <1>2 DEF Due
<1>8. Partial(e.part, Inode(e), L'.todo, L'.data)
  BY <1>1, <1>2, <1>3, <1>6, <1>7, ReadingBlock DEF Reading
<1>9. Reading(Place)' /\ InDirectory' /\ Kids(nodes', L'.current) = {}
  BY <1>1, <1>3, <1>4, <1>5, <1>8 DEF Reading, InDirectory
<1>. QED
  BY <1>3, <1>4, <1>5, <1>9 DEF WalksRight

LEMMA WalksLookupRead ==
    ASSUME OneReader, SoundDisk, Live, Asks, Walks, LookupRead(Boot)
    PROVE  Walks'
<1> SUFFICES ASSUME Clean' PROVE WalksRight'
  BY DEF Walks
<1> DEFINE n == L.current
           e == Last(Place)
<1>1. /\ Runs("lookup") /\ UNCHANGED nodes /\ Same(PathFields)
      /\ L.todo = <<>> /\ L'.pc = "dentry"
      /\ ~Spoilt(Boot) => L'.data \in Mapped(Boot, n)
  BY LookupReadIs DEF Live
<1>2. Clean /\ L.pc = "lookup" /\ L'.data \in Mapped(Boot, n)
  BY <1>1, CleanRuns DEF Runs, Clean, Spoilt
<1>3. Here /\ L.path # <<>> /\ InDirectory /\ Kids(nodes, n) = {} /\ Reading(Place)
  BY <1>2 DEF Walks, WalksRight, Walking
<1>4. /\ L'.goal = L.goal /\ L'.path = L.path /\ L'.node = L.node /\ L'.current = n
  BY <1>1 DEF Same, PathFields, L
<1>5. Here' /\ Place' = Place
  BY <1>1, <1>3, <1>4, HereSame
<1>6. Is(nodes, n, e) /\ e \in Valid
  BY <1>3, LeadsEnd, LastIs DEF Here, InDirectory
<1>7. L'.data = Items(e.part, Inode(e))
  BY <1>1, <1>2, <1>3, <1>6, ReadingEnd DEF Reading
<1>8. Listing(nodes, n, e, L'.data, 0)
  BY <1>3, <1>6, <1>7, ListingStart
<1>9. InDirectory' /\ \E k : Listing(nodes', L'.current, Last(Place)', L'.data, k)
  BY <1>1, <1>3, <1>4, <1>5, <1>8 DEF InDirectory
<1>. QED
  BY <1>1, <1>3, <1>4, <1>5, <1>9 DEF WalksRight

LEMMA WalksDentry ==
    ASSUME OneReader, SoundDisk, Live, Asks, Walks, Dentry(Boot)
    PROVE  Walks'
<1> SUFFICES ASSUME Clean' PROVE WalksRight'
  BY DEF Walks
<1> DEFINE n == L.current
           e == Last(Place)
           data == L.data
<1>1. /\ Runs("dentry") /\ UNCHANGED nodes /\ Same(PathFields)
      /\ \/ (data = <<>> \/ Head(data).inum = 0) /\ L'.pc = "pick"
         \/ /\ data # <<>> /\ Head(data).inum # 0 /\ Head(data).name \in Dots
            /\ L'.pc = "dentry" /\ L'.data = Following(data)
         \/ /\ data # <<>> /\ Head(data).inum # 0 /\ Head(data).name \notin Dots
            /\ L'.pc = "child" /\ L'.data = data
  BY DentryIs DEF Live
<1>2. Clean /\ L.pc = "dentry"
  BY <1>1, CleanRuns DEF Runs
<1>3. Here /\ L.path # <<>> /\ InDirectory /\ \E k : Listing(nodes, n, e, data, k)
  BY <1>2 DEF Walks, WalksRight, Walking
<1>4. /\ L'.goal = L.goal /\ L'.path = L.path /\ L'.node = L.node /\ L'.current = n
  BY <1>1 DEF Same, PathFields, L
<1>5. Here' /\ Place' = Place
  BY <1>1, <1>3, <1>4, HereSame
<1>6. e \in Valid /\ Place # <<>> /\ Inode(e).mode = 4
  BY <1>3, LastIs DEF Here, InDirectory
<1>7. PICK k : Listing(nodes, n, e, data, k)
  BY <1>3
<1>8. InDirectory' /\ Last(Place)' = e /\ Entries(Place)' = Entries(Place)
  BY <1>3, <1>5 DEF InDirectory, Entries
<1>9. CASE (data = <<>> \/ Head(data).inum = 0) /\ L'.pc = "pick"
  <2>1. Represents(nodes, n, Listed(e.part, Inode(e)))
    BY <1>6, <1>7, <1>9, ListingEnd
  <2>2. Represents(nodes', L'.current, Entries(Place)')
    BY <1>1, <1>4, <1>6, <1>8, <2>1, EntriesIs
  <2>. QED
    BY <1>3, <1>4, <1>5, <1>9, <2>2 DEF WalksRight
<1>10. CASE /\ data # <<>> /\ Head(data).inum # 0 /\ Head(data).name \in Dots
            /\ L'.pc = "dentry" /\ L'.data = Following(data)
  <2>1. Represents(nodes, n, Named(e, k))
    BY <1>7 DEF Listing
  <2>2. Listing(nodes, n, e, Following(data), k + 1)
    BY <1>6, <1>7, <1>10, <2>1, ListingNext, ListingFollows
  <2>3. \E j : Listing(nodes', L'.current, Last(Place)', L'.data, j)
    BY <1>1, <1>4, <1>8, <1>10, <2>2
  <2>. QED
    BY <1>3, <1>4, <1>5, <1>8, <1>10, <2>3 DEF WalksRight
<1>11. CASE /\ data # <<>> /\ Head(data).inum # 0 /\ Head(data).name \notin Dots
            /\ L'.pc = "child" /\ L'.data = data
  <2>1. \E j : Listing(nodes', L'.current, Last(Place)', L'.data, j)
    BY <1>1, <1>4, <1>7, <1>8, <1>11
  <2>. QED
    BY <1>3, <1>4, <1>5, <1>8, <1>11, <2>1 DEF WalksRight
<1>. QED
  BY <1>1, <1>9, <1>10, <1>11

LEMMA WalksCreateChild ==
    ASSUME OneReader, SoundDisk, Live, Asks, Walks, CreateChild(Boot)
    PROVE  Walks'
<1> SUFFICES ASSUME Clean' PROVE WalksRight'
  BY DEF Walks
<1> DEFINE n == L.current
           e == Last(Place)
           data == L.data
           x == EntryOf(e.part, Head(data))
           type == IF isDirectory(L.buf["inode"]) THEN NODE_DIRECTORY ELSE NODE_FILE
<1>0. Shape /\ IsTree(nodes)
  BY DEF Live
<1>1. /\ Runs("child") /\ Same(PathFields) /\ L'.pc = "dentry" /\ L'.data = Following(data)
      /\ nodes' = Child(n, Head(data).name, nodes[n].hd, L.buf["inode"], type)
  BY <1>0, CreateChildIs
<1>2. Clean /\ L.pc = "child" /\ L.want = Reads!Nothing
  BY <1>1, CleanRuns DEF Runs
<1>3. /\ Here /\ L.path # <<>> /\ InDirectory /\ \E k : Listing(nodes, n, e, data, k)
      /\ data # <<>> /\ Head(data).inum # 0 /\ Head(data).name \notin Dots
  BY <1>2 DEF Walks, WalksRight, Walking
<1>4. /\ L'.goal = L.goal /\ L'.path = L.path /\ L'.node = L.node /\ L'.current = n
  BY <1>1 DEF Same, PathFields, L
<1>5. e \in Valid /\ Place # <<>> /\ Inode(e).mode = 4 /\ Place \in Seq(Valid)
      /\ Leads(nodes, n, Place) /\ Is(nodes, n, e) /\ n \in DOMAIN nodes
  BY <1>3, LastIs, LeadsEnd DEF Here, InDirectory
<1>6. PICK k : Listing(nodes, n, e, data, k)
  BY <1>3
<1>7. L.buf["inode"] = Inode(x)
  <2>1. Due = InodeAt(DiskOf(e.part), Head(data).inum)
    BY <1>2, <1>5 DEF Due, Is
  <2>2. PICK part, at, index : Due = Request("inode", part, at, index)
    BY <2>1 DEF InodeAt
  <2>3. L.buf = OnDisk(Due)
    BY <1>2, <2>2, RequestIs DEF Asks
  <2>4. L.buf["inode"] = Content(Due)
    BY <2>2, <2>3, OnDiskIs
  <2>. QED
    BY <1>3, <1>5, <1>6, <2>1, <2>4, ListingInode
<1>8. Grown(nodes', n, Head(data).name, nodes[n].hd, L.buf["inode"], type)
  BY <1>0, <1>1, <1>5, ChildIs
<1> HIDE DEF type
<1>9. Leads(nodes', n, Place)
  BY <1>5, <1>8, LeadsGrown
<1>10. Here' /\ Place' = Place
  BY <1>3, <1>4, <1>9, HereSame
<1>11. Represents(nodes', n, Named(e, k) \cup {x})
  <2>1. x.name = Head(data).name /\ x.part = e.part
    BY DEF EntryOf
  <2>2. Grown(nodes', n, x.name, DiskOf(x.part), Inode(x), type)
    BY <1>5, <1>7, <1>8, <2>1 DEF Is
  <2>3. Represents(nodes, n, Named(e, k))
    BY <1>6 DEF Listing
  <2> HIDE DEF x
  <2>. QED
    BY <1>0, <1>5, <2>2, <2>3, GrownRepresents
<1>12. Listing(nodes', n, e, Following(data), k + 1)
  BY <1>3, <1>5, <1>6, <1>11, ListingNext, ListingFollows
<1>13. InDirectory' /\ \E j : Listing(nodes', L'.current, Last(Place)', L'.data, j)
  BY <1>1, <1>3, <1>4, <1>10, <1>12 DEF InDirectory
<1>. QED
  BY <1>1, <1>3, <1>4, <1>10, <1>13 DEF WalksRight

LEMMA WalksLoadTask ==
    ASSUME OneReader, Live, NEW p \in Paths, LoadTask(Boot, p)
    PROVE  Walks'
<1> SUFFICES ASSUME Clean' PROVE WalksRight'
  BY DEF Walks
<1>1. /\ UNCHANGED nodes /\ L'.goal = p /\ L'.path = p /\ L'.current = Root /\ L'.node = Null
      /\ L'.pc = IF p = NoPath THEN "done" ELSE "walk"
  BY LoadTaskIs DEF Live
<1>2. p \in Seq(STRING) /\ Len(p) \in Nat
  BY FilesAssumption, LenProperties
<1>3. CASE p = NoPath
  <2>1. L'.pc = "done" /\ Where(L.goal)' = Nowhere
    BY <1>1, <1>3 DEF Where
  <2>. QED
    BY <1>1, <2>1 DEF WalksRight, Walking
<1>4. CASE p # NoPath
  <2>1. L'.pc = "walk"
    BY <1>1, <1>4
  <2>2. Len(p) - Len(p) = 0 /\ \A i \in 1 .. Len(p) : p[i] = p[(Len(p) - Len(p)) + i]
    BY <1>2
  <2>3. OnPath'
    BY <1>1, <1>2, <1>4, <2>2 DEF OnPath
  <2>4. Place' = <<>>
    BY <1>1, <1>2, <2>2, PlacesAre DEF Place
  <2>5. Leads(nodes', Root, <<>>) /\ <<>> \in Seq(Valid)
    BY <1>1, LeadsRoot, EmptySeq DEF Live, IsTree
  <2>6. Here'
    BY <1>1, <2>3, <2>4, <2>5 DEF Here
  <2>. QED
    BY <2>1, <2>6 DEF WalksRight
<1>. QED
  BY <1>3, <1>4

LEMMA WalksFound ==
    ASSUME OneReader, SoundDisk, Live, Mounts, Walks, Found(Boot)
    PROVE  Walks'
<1> SUFFICES ASSUME Clean' PROVE WalksRight'
  BY DEF Walks
<1> DEFINE n == L.current
           e == Last(Place)
<1>1. /\ Runs("walk") /\ UNCHANGED nodes /\ L.path = <<>> /\ L'.node = n
      /\ Same({"goal", "path", "current"})
      /\ nodes[n].type = NODE_FILE => Starts(n, "load")
      /\ nodes[n].type # NODE_FILE => L'.pc = "done" /\ L'.data = <<>>
  BY FoundIs DEF Live
<1>2. Clean /\ L.pc = "walk"
  BY <1>1, CleanRuns DEF Runs
<1>3. Here
  BY <1>2 DEF Walks, WalksRight, Walking
<1>4. L'.goal = L.goal
  BY <1>1 DEF Same, L
<1>5. Where(L.goal) = Place
  <2>1. Len(L.path) = 0 /\ L.goal \in Seq(STRING) /\ L.goal # NoPath
    BY <1>1, <1>3 DEF Here, OnPath
  <2>2. Len(L.goal) \in Nat
    BY <2>1, LenProperties
  <2>3. Len(L.goal) - Len(L.path) = Len(L.goal)
    BY <2>1, <2>2
  <2>. QED
    BY <2>1, <2>3 DEF Where, Place
<1>6. Place \in Seq(Valid) /\ Leads(nodes, n, Place)
  BY <1>3 DEF Here
<1>7. n \in DOMAIN nodes /\ (n = Root <=> Place = <<>>) /\ (Place # <<>> => Is(nodes, n, e))
  BY <1>6, LeadsEnd
<1>8. Where(L.goal)' = Place
  BY <1>4, <1>5
<1>9. Resolved'
  BY <1>1, <1>6, <1>7, <1>8 DEF Resolved
<1>10. CASE nodes[n].type = NODE_FILE
  <2>1. L'.pc = "load" /\ L'.todo = Blocks(nodes[n].inode) /\ L'.data = <<>>
    BY <1>1, <1>10 DEF Starts
  <2>2. Place # <<>>
    <3>1. n # Root
      BY <1>10 DEF Mounts, NODE_FILE, NODE_UNKNOWN
    <3>. QED
      BY <1>7, <3>1
  <2>3. e \in Valid /\ nodes[n].inode = Inode(e)
    BY <1>6, <1>7, <2>2, LastIs DEF Is
  <2>4. Partial(e.part, Inode(e), L'.todo, L'.data)
    BY <2>1, <2>3, ValidIs, PartialStart
  <2>5. Reading(Where(L.goal))'
    BY <1>8, <2>4 DEF Reading
  <2>. QED
    BY <1>1, <1>8, <1>9, <1>10, <2>1, <2>2, <2>5 DEF WalksRight, Walking
<1>11. CASE nodes[n].type # NODE_FILE
  <2>1. L'.pc = "done" /\ L'.data = <<>> /\ nodes'[L'.node].type # NODE_FILE
    BY <1>1, <1>11
  <2>. QED
    BY <1>9, <2>1 DEF WalksRight, Walking
<1>. QED
  BY <1>10, <1>11

LEMMA WalksLoadBlock ==
    ASSUME OneReader, SoundDisk, Live, Asks, Walks, LoadBlock(Boot)
    PROVE  Walks'
<1> SUFFICES ASSUME Clean' PROVE WalksRight'
  BY DEF Walks
<1> DEFINE n == L.node
           place == Where(L.goal)
           e == Last(place)
<1>1. Runs("load") /\ UNCHANGED nodes /\ Advances(n)
  BY ReadBlockIs DEF LoadBlock, L, Live
<1>2. Clean /\ L.pc = "load" /\ L.want = Reads!Nothing
  BY <1>1, CleanRuns DEF Runs
<1>3. Resolved /\ place # <<>> /\ nodes[n].type = NODE_FILE /\ Reading(place)
  BY <1>2 DEF Walks, WalksRight
<1>4. L'.goal = L.goal /\ L'.node = n /\ L'.pc = "load"
  BY <1>1, <1>2 DEF Advances, Same, PathFields, L
<1>5. Where(L.goal)' = place
  BY <1>4
<1>6. Is(nodes, n, e) /\ e \in Valid
  BY <1>3, LeadsEnd, LastIs DEF Resolved
<1>7. Due = BlockRequest(nodes[n].hd, L.todo)
  BY <1>2 DEF Due
<1>8. Partial(e.part, Inode(e), L'.todo, L'.data)
  BY <1>1, <1>2, <1>3, <1>6, <1>7, ReadingBlock DEF Reading
<1>9. Reading(Where(L.goal))' /\ Resolved'
  BY <1>1, <1>3, <1>4, <1>5, <1>8 DEF Reading, Resolved
<1>. QED
  BY <1>1, <1>3, <1>4, <1>5, <1>9 DEF WalksRight, Walking

LEMMA WalksLoadRead ==
    ASSUME OneReader, SoundDisk, Live, Asks, Walks, LoadRead(Boot)
    PROVE  Walks'
<1> SUFFICES ASSUME Clean' PROVE WalksRight'
  BY DEF Walks
<1> DEFINE n == L.node
           place == Where(L.goal)
           e == Last(place)
<1>1. /\ Runs("load") /\ UNCHANGED nodes /\ Same(PathFields)
      /\ L.todo = <<>> /\ L'.pc = "done" /\ L'.data \in Mapped(Boot, n)
  BY LoadReadIs DEF Live
<1>2. Clean /\ L.pc = "load"
  BY <1>1, CleanRuns DEF Runs
<1>3. Resolved /\ place # <<>> /\ nodes[n].type = NODE_FILE /\ Reading(place)
  BY <1>2 DEF Walks, WalksRight
<1>4. L'.goal = L.goal /\ L'.node = n
  BY <1>1 DEF Same, PathFields, L
<1>5. Where(L.goal)' = place
  BY <1>4
<1>6. Is(nodes, n, e) /\ e \in Valid
  BY <1>3, LeadsEnd, LastIs DEF Resolved
<1>7. L'.data = Items(e.part, Inode(e))
  BY <1>1, <1>3, <1>6, ReadingEnd DEF Reading
<1>8. Resolved'
  BY <1>1, <1>3, <1>4, <1>5 DEF Resolved
<1>. QED
  BY <1>1, <1>3, <1>4, <1>5, <1>7, <1>8 DEF WalksRight, Walking

\* The components that are left after one more.
LEMMA NextComponent ==
    ASSUME OnPath, L.path # <<>>, L'.goal = L.goal, L'.path = Tail(L.path)
    PROVE  OnPath' /\ Place' = Step(Place, Head(L.path))
<1> DEFINE g == L.goal
           p == L.path
           q == Tail(p)
           k == Len(g) - Len(p)
<1>1. /\ g \in Seq(STRING) /\ g # NoPath /\ p \in Seq(STRING) /\ Len(p) <= Len(g)
      /\ \A i \in 1 .. Len(p) : p[i] = g[k + i]
  BY DEF OnPath
<1>2. /\ Len(g) \in Nat /\ Len(p) \in Nat \ {0} /\ q \in Seq(STRING) /\ Len(q) = Len(p) - 1
      /\ \A i \in 1 .. Len(q) : q[i] = p[i + 1]
      /\ Head(p) = p[1]
  <2>1. p # <<>>
    OBVIOUS
  <2>2. Len(g) \in Nat /\ Len(p) \in Nat \ {0}
    BY <1>1, <2>1, EmptySeq, LenProperties
  <2>3. q \in Seq(STRING) /\ Len(q) = Len(p) - 1 /\ \A i \in 1 .. Len(q) : q[i] = p[i + 1]
    BY <1>1, <2>1, HeadTailProperties
  <2>4. Head(p) = p[1]
    BY <1>1, <2>1
  <2>. QED
    BY <2>2, <2>3, <2>4
<1>3. L'.goal = g /\ L'.path = q
  OBVIOUS
<1>4. Place = Places(g)[k]
  BY DEF Place
<1>5. \A i \in 1 .. Len(g) : Places(g)[i] = Step(Places(g)[i - 1], g[i])
  BY <1>2, PlacesAre
<1> HIDE DEF g, p, q
<1>6. k \in Nat /\ k + 1 \in 1 .. Len(g) /\ Len(g) - Len(q) = k + 1 /\ (k + 1) - 1 = k
  BY <1>1, <1>2
<1>7. Head(p) = g[k + 1]
  BY <1>1, <1>2
<1>8. ASSUME NEW i \in 1 .. Len(q) PROVE q[i] = g[(Len(g) - Len(q)) + i]
  <2>1. i + 1 \in 1 .. Len(p) /\ k + (i + 1) = (k + 1) + i
    BY <1>2, <1>6
  <2>. QED
    BY <1>1, <1>2, <1>6, <2>1
<1> HIDE DEF k
<1>9. OnPath'
  <2>1. Len(q) <= Len(g)
    BY <1>1, <1>2
  <2>. QED
    BY <1>1, <1>2, <1>3, <1>8, <2>1 DEF OnPath
<1>10. Place' = Places(g)[k + 1]
  BY <1>3, <1>6 DEF Place
<1>11. Places(g)[k + 1] = Step(Places(g)[k], g[k + 1])
  BY <1>5, <1>6
<1>. QED
  BY <1>4, <1>7, <1>9, <1>10, <1>11 DEF p

LEMMA WalksPick ==
    ASSUME OneReader, SoundDisk, Live, Walks, Pick(Boot)
    PROVE  Walks'
<1> SUFFICES ASSUME Clean' PROVE WalksRight'
  BY DEF Walks
<1> DEFINE n == L.current
           kids == nodes[n].childs
           name == Head(L.path)
<1>0. Shape /\ IsTree(nodes)
  BY DEF Live
<1>1. L.pc = "pick" /\ n \in DOMAIN nodes
  BY DEF Pick, At, L, Live, Walking
<1>2. kids \in Seq(DOMAIN nodes \ {Root}) /\ Len(kids) \in Nat /\ (kids # <<>> => Len(kids) # 0)
  <2>1. kids \in Seq(DOMAIN nodes \ {Root})
    BY <1>0, <1>1 DEF IsTree, KidsOK
  <2>. QED
    BY <2>1, LenProperties, EmptySeq
<1>3. /\ Runs("pick") /\ UNCHANGED nodes /\ Same({"goal", "node"})
      /\ ~PickFound => L'.pc = "done"
      /\ PickFound =>
            /\ L'.pc = "walk" /\ L'.path = Tail(L.path)
            /\ name = ".." => L'.current = nodes[n].parent
            /\ name = "." => L'.current = n
            /\ name \notin Dots => \E i \in 1 .. Len(kids) :
                                      L'.current = kids[i] /\ nodes[L'.current].name = name
  BY <1>0, <1>2, PickIs
<1>4. Clean
  BY <1>3, CleanRuns
<1>5. Here /\ L.path # <<>> /\ Represents(nodes, n, Entries(Place))
  BY <1>1, <1>4 DEF Walks, WalksRight, Walking
<1>6. OnPath /\ L.node = Null /\ Place \in Seq(Valid) /\ Leads(nodes, n, Place)
  BY <1>5 DEF Here
<1>7. L'.goal = L.goal /\ L'.node = Null
  BY <1>3, <1>6 DEF Same, L
<1>8. \A c : c \in Kids(nodes, n) <=> \E i \in 1 .. Len(kids) : kids[i] = c
  BY <1>2, KidsAre
<1>9. kids = <<>> <=> Entries(Place) = {}
  <2>1. ASSUME kids = <<>> PROVE Entries(Place) = {}
    <3>1. Kids(nodes, n) = {}
      BY <2>1 DEF Kids, ToSet
    <3>. QED
      BY <1>5, <3>1 DEF Represents
  <2>2. ASSUME kids # <<>> PROVE Entries(Place) # {}
    <3>1. 1 \in 1 .. Len(kids)
      BY <1>2, <2>2
    <3>2. kids[1] \in Kids(nodes, n)
      BY <1>8, <3>1
    <3>. QED
      BY <1>5, <3>2 DEF Represents
  <2>. QED
    BY <2>1, <2>2
<1>10. CASE ~PickFound
  <2>1. Step(Place, name) = Nowhere
    <3>1. CASE kids = <<>>
      BY <1>6, <1>9, <3>1, StepIs
    <3>2. CASE kids # <<>>
      <4>1. name \notin Dots /\ \A i \in 1 .. Len(kids) : nodes[kids[i]].name # name
        BY <1>10, <3>2 DEF PickFound
      <4>2. ASSUME NEW f \in Entries(Place) PROVE f.name # name
        <5>1. PICK c \in Kids(nodes, n) : Is(nodes, c, f)
          BY <1>5 DEF Represents
        <5>2. nodes[c].name # name
          BY <1>8, <4>1, <5>1
        <5>. QED
          BY <5>1, <5>2 DEF Is
      <4>. QED
        BY <1>6, <4>1, <4>2, StepIs
    <3>. QED
      BY <3>1, <3>2
  <2>2. Where(L.goal) = Nowhere
    <3> DEFINE g == L.goal
               k == Len(g) - Len(L.path)
    <3>1. /\ g # NoPath /\ Len(g) \in Nat /\ Len(L.path) \in Nat \ {0} /\ Len(L.path) <= Len(g)
          /\ name = g[k + 1]
      <4>1. /\ g \in Seq(STRING) /\ g # NoPath /\ L.path \in Seq(STRING) /\ Len(L.path) <= Len(g)
            /\ \A i \in 1 .. Len(L.path) : L.path[i] = g[k + i]
        BY <1>6 DEF OnPath
      <4>2. Len(g) \in Nat /\ Len(L.path) \in Nat \ {0} /\ name = L.path[1]
        BY <1>5, <4>1, EmptySeq, LenProperties, HeadTailProperties
      <4>3. 1 \in 1 .. Len(L.path)
        BY <4>2
      <4>. QED
        BY <4>1, <4>2, <4>3
    <3>2. Place = Places(g)[k]
      BY DEF Place
    <3> HIDE DEF g
    <3>3. k + 1 \in 1 .. Len(g) /\ (k + 1) - 1 = k /\ k + 1 \in 0 .. Len(g)
      BY <3>1
    <3> HIDE DEF k
    <3>4. Places(g)[k + 1] = Step(Places(g)[(k + 1) - 1], g[k + 1])
      BY <3>1, <3>3, PlacesAre
    <3>5. Places(g)[k + 1] = Nowhere
      BY <2>1, <3>1, <3>2, <3>3, <3>4
    <3>6. Places(g)[Len(g)] = Nowhere
      BY <3>1, <3>3, <3>5, NowhereStays
    <3>. QED
      BY <3>1, <3>6 DEF Where, g
  <2>3. L'.pc = "done" /\ L'.node = Null /\ Where(L.goal)' = Nowhere
    BY <1>3, <1>7, <1>10, <2>2
  <2>. QED
    BY <2>3 DEF WalksRight, Walking
<1>11. CASE PickFound
  <2>1. /\ L'.pc = "walk" /\ L'.path = Tail(L.path) /\ kids # <<>>
    BY <1>3, <1>11 DEF PickFound
  <2>2. OnPath' /\ Place' = Step(Place, name)
    BY <1>5, <1>6, <1>7, <2>1, NextComponent
  <2>3. Entries(Place) # {}
    BY <1>9, <2>1
  <2>4. Place' \in Seq(Valid) /\ Leads(nodes, L'.current, Place')
    <3>1. CASE name = "."
      <4>1. Place' = Place /\ L'.current = n
        BY <1>3, <1>6, <1>11, <2>2, <2>3, <3>1, StepIs
      <4>. QED
        BY <1>6, <4>1
    <3>2. CASE name = ".."
      <4>1. /\ Place' = IF Place = <<>> THEN <<>> ELSE Front(Place)
            /\ L'.current = nodes[n].parent
        BY <1>3, <1>6, <1>11, <2>2, <2>3, <3>2, StepIs
      <4>2. CASE Place = <<>>
        <5>1. n = Root /\ nodes[Root].parent = Root
          <6>1. n = Root <=> Place = <<>>
            BY <1>6, LeadsEnd
          <6>. QED
            BY <1>0, <4>2, <6>1 DEF IsTree
        <5>2. Place' = Place /\ L'.current = n
          BY <4>1, <4>2, <5>1
        <5>. QED
          BY <1>6, <5>2
      <4>3. CASE Place # <<>>
        BY <1>6, <4>1, <4>3, LeadsBack
      <4>. QED
        BY <4>2, <4>3
    <3>3. CASE name \notin Dots
      <4>1. PICK i \in 1 .. Len(kids) : L'.current = kids[i] /\ nodes[L'.current].name = name
        BY <1>3, <1>11, <3>3
      <4>2. L'.current \in Kids(nodes, n)
        BY <1>8, <4>1
      <4>3. PICK f \in Entries(Place) : Is(nodes, L'.current, f)
        BY <1>5, <4>2 DEF Represents
      <4>4. f.name = name
        BY <4>1, <4>3 DEF Is
      <4>5. Place' = Append(Place, f)
        BY <1>6, <2>2, <3>3, <4>3, <4>4, StepIs
      <4>6. f \in Valid
        BY <1>6, <4>3, EntriesValid
      <4>. QED
        BY <1>0, <1>6, <4>2, <4>3, <4>5, <4>6, LeadsDown
    <3>. QED
      BY <3>1, <3>2, <3>3 DEF Dots
  <2>5. Here'
    BY <1>3, <1>7, <2>2, <2>4 DEF Here
  <2>. QED
    BY <2>1, <2>5 DEF WalksRight
<1>. QED
  BY <1>10, <1>11

LEMMA WalksStep ==
    ASSUME OneReader, SoundDisk, Live, Asks, Mounts, Walks, [Next]_vars
    PROVE  Walks'
<1>0. Shape /\ IsTree(nodes)
  BY DEF Live
<1>1. CASE UNCHANGED vars
  <2>1. UNCHANGED <<nodes, task, mountFault, fault>>
    BY <1>1 DEF vars, history
  <2>2. L' = L
    BY <2>1 DEF L
  <2>3. Place' = Place
    BY <2>2 DEF Place
  <2>. QED
    BY <2>1, <2>2, <2>3
       DEF Walks, WalksRight, Clean, Here, OnPath, InDirectory, Reading, Resolved
<1>2. CASE Ask(Boot) \/ DriveError(Boot) \/ Reply(Boot) \/ ReplyFailure(Boot)
  <2>1. UNCHANGED nodes /\ Same(LocalFields \ {"buf", "want"})
    BY <1>0, <1>2, AskIs, DriveErrorIs, ReplyIs, ReplyFailureIs DEF Same
  <2>2. /\ L'.pc = L.pc /\ L'.goal = L.goal /\ L'.path = L.path /\ L'.current = L.current
        /\ L'.node = L.node /\ L'.todo = L.todo /\ L'.data = L.data
    BY <2>1 DEF Same, L, LocalFields
  <2>3. Clean' => Clean
    <3>1. CASE Ask(Boot) \/ Reply(Boot)
      BY <1>0, <3>1, AskIs, ReplyIs DEF Clean, history
    <3>2. CASE DriveError(Boot) \/ ReplyFailure(Boot)
      BY <1>0, <3>2, DriveErrorIs, ReplyFailureIs DEF Clean
    <3>. QED
      BY <1>2, <3>1, <3>2
  <2>4. Place' = Place
    BY <2>2 DEF Place
  <2>. QED
    BY <2>1, <2>2, <2>3, <2>4 DEF Walks, WalksRight, Here, OnPath, InDirectory, Reading, Resolved
<1>3. CASE IsMBR(Boot) \/ ReadMBR(Boot)
  <2>1. 0 \in 0 .. NParts
    BY DEF NParts
  <2>2. L'.pc \in {"idle", "entry", "sb"}
    BY <1>0, <1>3, <2>1, IsMBRIs, ReadMBRIs, ToPartLive, LocalsAre
  <2>. QED
    BY <2>2, WalksElsewhere
<1>4. CASE ReadSb(Boot) \/ ReadGd(Boot) \/ Mount(Boot)
  <2>1. L.pc \in {"sb", "gd", "root"}
    BY <1>4 DEF ReadSb, ReadGd, Mount, At, L
  <2>2. L.i \in 1 .. NParts /\ L.i \in 0 .. NParts
    BY <2>1 DEF Live, NParts
  <2>3. L'.pc \in {"gd", "root"} \/ ToPart(L.table, L.i)
    BY <1>0, <1>4, <2>2, ReadSbIs, ReadGdIs, MountIs
  <2>4. L'.pc \in {"idle", "gd", "root", "sb"}
    BY <2>2, <2>3, ToPartLive
  <2>. QED
    BY <2>4, WalksElsewhere
<1>5. CASE Return(Boot)
  <2>1. L'.pc = "idle"
    BY <1>0, <1>5, ReturnIs, LocalsAre
  <2>. QED
    BY <2>1, WalksElsewhere
<1>6. CASE Lookup(Boot) \/ LookupBlock(Boot) \/ LookupRead(Boot) \/ Dentry(Boot) \/ CreateChild(Boot)
  BY <1>6, WalksLookup, WalksLookupBlock, WalksLookupRead, WalksDentry, WalksCreateChild
<1>7. CASE Pick(Boot) \/ Found(Boot) \/ LoadBlock(Boot) \/ LoadRead(Boot)
  BY <1>7, WalksPick, WalksFound, WalksLoadBlock, WalksLoadRead
<1>8. ASSUME NEW p \in Paths, LoadTask(Boot, p) PROVE Walks'
  BY <1>8, WalksLoadTask
<1>9. CASE Ends
  <2>1. L'.pc = "idle"
    BY <1>0, <1>9, EndsIs, LocalsAre
  <2>. QED
    BY <2>1, WalksElsewhere
<1>. QED
  BY <1>1, <1>2, <1>3, <1>4, <1>5, <1>6, <1>7, <1>8, <1>9, NextIs

LEMMA AlwaysWalks == OneReader /\ SoundDisk => (Spec => [](Live /\ Mounts /\ Walks))
<1> SUFFICES ASSUME OneReader, SoundDisk PROVE Spec => [](Live /\ Mounts /\ Walks)
  OBVIOUS
<1> DEFINE Inv == Live /\ Asks /\ Mounts /\ Walks
<1>1. Init => Inv
  BY LiveInit, AsksInit, MountsInit, WalksInit
<1>2. Inv /\ [Next]_vars => Inv'
  BY LiveStep, AsksStep, MountsStep, WalksStep
<1>. QED
  BY <1>1, <1>2, PTL DEF Spec

\* When none of its reads failed, resolvePath returns the node that the disk has at
\* the path, with the right name, partition and inode, or nullptr when there is
\* none: for any sound disk, any path, through "." and "..", and whatever the reads
\* of earlier loads have left in memory.
THEOREM PathsResolve == OneReader /\ SoundDisk => (Spec => []ResolvesRight)
<1> SUFFICES ASSUME OneReader, SoundDisk PROVE Spec => []ResolvesRight
  OBVIOUS
<1>1. Live /\ Mounts /\ Walks => ResolvesRight
  <2> SUFFICES ASSUME Live, Walks, Sound(Boot)
               PROVE  LET place == Where(L.goal)
                          n == L.node
                      IN  IF place \in {Nowhere, <<>>} THEN n = IF place = <<>> THEN Root ELSE Null
                          ELSE /\ n \in DOMAIN nodes
                               /\ nodes[n].name = Last(place).name
                               /\ nodes[n].hd.part = Last(place).part
                               /\ nodes[n].inode = Inode(Last(place))
    BY DEF ResolvesRight, OneReader, L
  <2> DEFINE place == Where(L.goal)
             n == L.node
  <2>1. WalksRight /\ L.pc = "done"
    BY DEF Walks, Sound, Clean, L
  <2>2. Nowhere # <<>>
    BY DEF Nowhere
  <2>3. CASE n = Null /\ place = Nowhere
    BY <2>2, <2>3
  <2>4. CASE Resolved
    <3>1. place \in Seq(Valid) /\ Leads(nodes, n, place)
      BY <2>4 DEF Resolved
    <3>2. n \in DOMAIN nodes /\ (n = Root <=> place = <<>>) /\ (place # <<>> => Is(nodes, n, Last(place)))
      BY <3>1, LeadsEnd
    <3>3. place # Nowhere
      BY <3>1, NotNowhere
    <3>. QED
      BY <3>2, <3>3 DEF Is, DiskOf
  <2>. QED
    BY <2>1, <2>3, <2>4 DEF WalksRight
<1>. QED
  BY <1>1, AlwaysWalks, PTL

\* When none of its reads failed, loadTask gets the items of the file at the path,
\* all of them and in their order, through direct blocks and one, two and three
\* levels of pointers.
THEOREM FilesLoad == OneReader /\ SoundDisk => (Spec => []LoadsTheFile)
<1> SUFFICES ASSUME OneReader, SoundDisk PROVE Spec => []LoadsTheFile
  OBVIOUS
<1>1. Live /\ Mounts /\ Walks => LoadsTheFile
  <2> SUFFICES ASSUME Live, Walks, Sound(Boot), L.node # Null
               PROVE  L.data = IF nodes[L.node].type # NODE_FILE THEN <<>>
                               ELSE Items(Last(Where(L.goal)).part, Inode(Last(Where(L.goal))))
    BY DEF LoadsTheFile, OneReader, L
  <2>1. WalksRight /\ L.pc = "done"
    BY DEF Walks, Sound, Clean, L
  <2>. QED
    BY <2>1 DEF WalksRight
<1>. QED
  BY <1>1, AlwaysWalks, PTL

=============================================================================
