----------------------------- MODULE DataLemmas -----------------------------
(***************************************************************************)
(* Induction over data, in a form the provers can use.  The library's      *)
(* induction theorems take a predicate as a parameter; here the predicate  *)
(* is a set, so that the facts are first-order: a set of naturals has a    *)
(* least element, hence holds all naturals if it is closed, hence a        *)
(* recursion along 0..n has a solution.  From these follows what filtering *)
(* a sliding window returns.                                               *)
(***************************************************************************)
EXTENDS SlidingWindow, SequenceTheorems, WellFoundedInduction, TLAPS

\* A set of naturals that is not empty has a least element.
LEMMA LeastNatural ==
    ASSUME NEW T \in SUBSET Nat, T # {}
    PROVE  \E n \in T : \A m \in T : n <= m
<1>1. PICK n \in T : \A m \in T : <<m, n>> \notin OpToRel(<, Nat)
  BY NatLessThanWellFounded, WFMin, Zenon
<1>2. \A m \in T : ~ (m < n)
  BY <1>1 DEF OpToRel
<1> QED
  BY <1>2

\* Induction: a set with 0 and with every successor of its naturals holds them all.
LEMMA SetInduction ==
    ASSUME NEW T, 0 \in T, \A n \in Nat : n \in T => n + 1 \in T
    PROVE  Nat \subseteq T
<1> SUFFICES ASSUME Nat \ T # {}
             PROVE  FALSE
  OBVIOUS
<1>1. PICK n \in Nat \ T : \A m \in Nat \ T : n <= m
  <2>1. Nat \ T \in SUBSET Nat
    OBVIOUS
  <2> QED
    BY <2>1, LeastNatural
<1>2. n # 0
  OBVIOUS
<1>3. n - 1 \in Nat /\ n - 1 \in T
  BY <1>1, <1>2
<1>4. (n - 1) + 1 \in T
  BY <1>3
<1> QED
  BY <1>4

\* The same along 0..n.
LEMMA IntervalInduction ==
    ASSUME NEW n \in Nat, NEW T, 0 \in T,
           \A i \in 1..n : i - 1 \in T => i \in T
    PROVE  0..n \subseteq T
<1> DEFINE U == { m \in Nat : m \in 0..n => m \in T }
<1>1. 0 \in U
  OBVIOUS
<1>2. ASSUME NEW m \in Nat, m \in U
      PROVE  m + 1 \in U
  <2> SUFFICES ASSUME m + 1 \in 0..n
               PROVE  m + 1 \in T
    OBVIOUS
  <2>1. m \in T
    BY <1>2
  <2>2. m + 1 \in 1..n /\ (m + 1) - 1 = m
    OBVIOUS
  <2> QED
    BY <2>1, <2>2
<1>3. Nat \subseteq U
  <2> HIDE DEF U
  <2> QED
    BY <1>1, <1>2, SetInduction
<1> QED
  BY <1>3

\* f is the function that starts with a and goes on by g.
Solves(f, n, a, g) == \A i \in 0..n : f[i] = IF i = 0 THEN a ELSE g[<<f[i - 1], i>>]

\* A recursion along 0..n whose steps stay in S has a solution in S.
LEMMA RecursionExists ==
    ASSUME NEW n \in Nat, NEW S, NEW a \in S, NEW g \in [S \X (1..n) -> S]
    PROVE  \E f \in [0..n -> S] : Solves(f, n, a, g)
<1> USE DEF Solves
<1> DEFINE T == { m \in 0..n : \E f \in [0..m -> S] : Solves(f, m, a, g) }
<1>1. 0 \in T
  <2> DEFINE f == [i \in 0..0 |-> a]
  <2>1. f \in [0..0 -> S] /\ \A i \in 0..0 : f[i] = a /\ i = 0
    OBVIOUS
  <2>2. \E h \in [0..0 -> S] : Solves(h, 0, a, g)
    <3> HIDE DEF f
    <3> QED
      BY <2>1
  <2> QED
    BY <2>2
<1>2. ASSUME NEW m \in 1..n, m - 1 \in T
      PROVE  m \in T
  <2>1. PICK f \in [0..(m - 1) -> S] : Solves(f, m - 1, a, g)
    BY <1>2
  <2> DEFINE e == [i \in 0..m |-> IF i = m THEN g[<<f[m - 1], m>>] ELSE f[i]]
  <2>2. f[m - 1] \in S
    BY <2>1
  <2>3. g[<<f[m - 1], m>>] \in S
    BY <2>2
  <2>4. e \in [0..m -> S]
    BY <2>3
  <2>5. ASSUME NEW i \in 0..m
        PROVE  e[i] = IF i = 0 THEN a ELSE g[<<e[i - 1], i>>]
    <3>1. CASE i = m
      <4>1. m - 1 \in 0..m /\ m - 1 # m /\ m # 0
        OBVIOUS
      <4>2. e[m - 1] = f[m - 1] /\ e[m] = g[<<f[m - 1], m>>]
        BY <4>1
      <4> QED
        BY <3>1, <4>1, <4>2
    <3>2. CASE i # m
      <4>1. i \in 0..(m - 1)
        BY <3>2
      <4>2. e[i] = f[i]
        BY <3>2
      <4>3. f[i] = IF i = 0 THEN a ELSE g[<<f[i - 1], i>>]
        BY <2>1, <4>1
      <4>4. i # 0 => e[i - 1] = f[i - 1]
        BY <4>1
      <4> QED
        BY <4>2, <4>3, <4>4
    <3> QED
      BY <3>1, <3>2
  <2>6. \E h \in [0..m -> S] : Solves(h, m, a, g)
    <3> HIDE DEF e
    <3> QED
      BY <2>4, <2>5
  <2> QED
    BY <2>6
<1>3. n \in T
  <2> HIDE DEF T
  <2> QED
    BY <1>1, <1>2, IntervalInduction
<1>4. PICK f \in [0..n -> S] : Solves(f, n, a, g)
  BY <1>3
<1> QED
  BY <1>4

-----------------------------------------------------------------------------
\* A product grows with its factors.
LEMMA ProductMonotone ==
    ASSUME NEW a \in Nat, NEW x \in Nat, NEW y \in Nat, x <= y
    PROVE  a * x <= a * y /\ x * a <= y * a
<1> DEFINE d == y - x
<1>1. d \in Nat /\ y = x + d
  OBVIOUS
<1> HIDE DEF d
<1>2. a * y = a * x + a * d /\ a * d >= 0
  BY <1>1
<1>3. a * x = x * a /\ a * y = y * a
  OBVIOUS
<1> QED
  BY <1>2, <1>3

-----------------------------------------------------------------------------
\* The recursion of Kept, one entry after the other.
LEMMA KeptSteps ==
    ASSUME NEW E, NEW s \in Seq(E), NEW S
    PROVE  \E kept \in [0..Len(s) -> Seq(E)] :
              /\ Kept(s, S) = kept[Len(s)]
              /\ kept[0] = <<>>
              /\ \A i \in 1..Len(s) :
                    kept[i] = IF s[i] \in S THEN Append(kept[i - 1], s[i])
                                            ELSE kept[i - 1]
<1> DEFINE n == Len(s)
           empty == <<>>
           Kind == Seq(E)
           Next(q, i) == IF s[i] \in S THEN Append(q, s[i]) ELSE q
           B(f) == [i \in 0..n |-> IF i = 0 THEN empty ELSE Next(f[i - 1], i)]
           kept == CHOOSE f : f = B(f)
           g == [p \in Kind \X (1..n) |-> Next(p[1], p[2])]
<1>1. Kept(s, S) = kept[n]
  BY DEF Kept
<1>2. n \in Nat /\ empty \in Kind
  OBVIOUS
<1>3. \A i \in 1..n, q \in Kind : Next(q, i) \in Kind
  OBVIOUS
<1> HIDE DEF n, empty, Kind, Next
<1>4. g \in [Kind \X (1..n) -> Kind]
  BY <1>3
<1>5. \A i \in 1..n, q \in Kind : g[<<q, i>>] = Next(q, i)
  OBVIOUS
<1> HIDE DEF g
<1>6. PICK f \in [0..n -> Kind] : Solves(f, n, empty, g)
  BY <1>2, <1>4, RecursionExists
<1>7. f = B(f)
  <2>1. ASSUME NEW i \in 0..n
        PROVE  f[i] = IF i = 0 THEN empty ELSE Next(f[i - 1], i)
    <3>1. f[i] = IF i = 0 THEN empty ELSE g[<<f[i - 1], i>>]
      BY <1>6 DEF Solves
    <3>2. i # 0 => i \in 1..n /\ i - 1 \in 0..n
      BY <1>2
    <3>3. i # 0 => f[i - 1] \in Kind
      BY <1>6, <3>2
    <3> QED
      BY <1>5, <3>1, <3>2, <3>3
  <2> QED
    BY <1>6, <2>1
<1>8. kept = B(kept)
  <2> HIDE DEF B
  <2> QED
    BY <1>7
<1> HIDE DEF kept
<1>9. \A i \in 0..n : kept[i] = IF i = 0 THEN empty ELSE Next(kept[i - 1], i)
  BY <1>8
<1>10. kept = [i \in 0..n |-> kept[i]]
  BY <1>8
<1> DEFINE T == { i \in 0..n : kept[i] \in Kind }
<1>11. 0 \in T
  BY <1>2, <1>9
<1>12. ASSUME NEW i \in 1..n, i - 1 \in T
       PROVE  i \in T
  BY <1>3, <1>9, <1>12
<1>13. 0..n \subseteq T
  <2> HIDE DEF T
  <2> QED
    BY <1>2, <1>11, <1>12, IntervalInduction
<1>14. kept \in [0..n -> Kind]
  BY <1>10, <1>13
<1>15. kept[0] = empty /\ \A i \in 1..n : kept[i] = Next(kept[i - 1], i)
  BY <1>2, <1>9
<1> QED
  BY <1>1, <1>14, <1>15 DEF n, empty, Kind, Next

\* What is kept are entries of the same kind.
LEMMA KeptType ==
    ASSUME NEW E, NEW s \in Seq(E), NEW S
    PROVE  Kept(s, S) \in Seq(E)
<1> DEFINE Kind == Seq(E)
<1>1. PICK kept \in [0..Len(s) -> Kind] : Kept(s, S) = kept[Len(s)]
  BY KeptSteps
<1>2. Len(s) \in 0..Len(s)
  OBVIOUS
<1> HIDE DEF Kind
<1>3. Kept(s, S) \in Kind
  BY <1>1, <1>2
<1> QED
  BY <1>3 DEF Kind

\* If what does not belong to the set comes before all that does, filtering
\* drops it from the front.
LEMMA KeptIsSuffix ==
    ASSUME NEW E, NEW s \in Seq(E), NEW S, NEW j \in 0..Len(s),
           \A i \in 1..j : s[i] \notin S,
           \A i \in (j + 1)..Len(s) : s[i] \in S
    PROVE  Kept(s, S) = SubSeq(s, j + 1, Len(s))
<1> DEFINE n == Len(s)
           Kind == Seq(E)
           Next(q, i) == IF s[i] \in S THEN Append(q, s[i]) ELSE q
           Part(i) == SubSeq(s, j + 1, i)
<1>1. PICK kept \in [0..n -> Kind] :
          /\ Kept(s, S) = kept[n]
          /\ kept[0] = <<>>
          /\ \A i \in 1..n : kept[i] = Next(kept[i - 1], i)
  BY KeptSteps
<1>2. Part(0) = <<>> /\ n \in Nat
  OBVIOUS
<1>3. ASSUME NEW i \in 1..n
      PROVE  Part(i) = Next(Part(i - 1), i)
  <2>1. CASE i <= j
    <3>1. s[i] \notin S
      BY <2>1
    <3>2. Part(i) = <<>> /\ Part(i - 1) = <<>>
      BY <2>1
    <3> QED
      BY <3>1, <3>2
  <2>2. CASE i > j
    <3>1. s[i] \in S
      BY <2>2
    <3>2. Part(i) = Append(Part(i - 1), s[i])
      <4> DEFINE whole == Append(Part(i - 1), s[i])
      <4>1. /\ Part(i) \in Seq(E) /\ Len(Part(i)) = i - j
            /\ Part(i - 1) \in Seq(E) /\ Len(Part(i - 1)) = i - 1 - j
        BY <2>2
      <4>2. whole \in Seq(E) /\ Len(whole) = i - j
        BY <4>1
      <4>3. ASSUME NEW k \in 1..(i - j)
            PROVE  Part(i)[k] = whole[k]
        BY <2>2, <4>1
      <4> QED
        BY <4>1, <4>2, <4>3, SeqEqual
    <3> QED
      BY <3>1, <3>2
  <2> QED
    BY <2>1, <2>2
<1> HIDE DEF n, Kind, Next, Part
<1> DEFINE T == { i \in 0..n : kept[i] = Part(i) }
<1>4. 0 \in T
  BY <1>1, <1>2
<1>5. ASSUME NEW i \in 1..n, i - 1 \in T
      PROVE  i \in T
  BY <1>1, <1>3, <1>5
<1>6. 0..n \subseteq T
  <2> HIDE DEF T
  <2> QED
    BY <1>2, <1>4, <1>5, IntervalInduction
<1> QED
  BY <1>1, <1>2, <1>6 DEF n, Part

\* Filtering a suffix of a list, with one more entry, leaves a suffix of the
\* longer list, if what is too old comes first.
LEMMA WindowSlides ==
    ASSUME NEW E, NEW all \in Seq(E), NEW e \in E, NEW S,
           NEW k \in 0..Len(all), NEW m \in k..Len(all),
           \A i \in (k + 1)..(Len(all) + 1) : Append(all, e)[i] \in S <=> i > m
    PROVE  Kept(Append(SubSeq(all, k + 1, Len(all)), e), S)
           = SubSeq(Append(all, e), m + 1, Len(all) + 1)
<1> DEFINE n == Len(all)
           u == Append(all, e)
           s == Append(SubSeq(all, k + 1, n), e)
           j == m - k
<1>1. /\ n \in Nat /\ k \in 0..n /\ m \in k..n
      /\ u \in Seq(E) /\ Len(u) = n + 1
  OBVIOUS
<1>2. s \in Seq(E) /\ Len(s) = n - k + 1
  <2>1. SubSeq(all, k + 1, n) \in Seq(E) /\ Len(SubSeq(all, k + 1, n)) = n - k
    BY <1>1
  <2> QED
    BY <2>1
<1>3. ASSUME NEW i \in 1..(n - k + 1)
      PROVE  s[i] = u[k + i] /\ k + i \in (k + 1)..(n + 1)
  <2>1. /\ Len(SubSeq(all, k + 1, n)) = n - k
        /\ SubSeq(all, k + 1, n) \in Seq(E)
    BY <1>1
  <2>2. CASE i = n - k + 1
    BY <1>1, <2>1, <2>2
  <2>3. CASE i # n - k + 1
    <3>1. i \in 1..(n - k) /\ k + i \in 1..n
      BY <1>1, <2>3
    <3>2. SubSeq(all, k + 1, n)[i] = all[k + i]
      BY <1>1, <3>1
    <3>3. s[i] = SubSeq(all, k + 1, n)[i] /\ u[k + i] = all[k + i]
      BY <2>1, <3>1
    <3> QED
      BY <1>1, <3>2, <3>3
  <2> QED
    BY <2>2, <2>3
<1>4. \A i \in (k + 1)..(n + 1) : u[i] \in S <=> i > m
  OBVIOUS
<1> HIDE DEF n, u, s
<1>5. j \in 0..Len(s)
  BY <1>1, <1>2
<1>6. \A i \in 1..j : s[i] \notin S
  BY <1>1, <1>2, <1>3, <1>4
<1>7. \A i \in (j + 1)..Len(s) : s[i] \in S
  BY <1>1, <1>2, <1>3, <1>4
<1>8. Kept(s, S) = SubSeq(s, j + 1, Len(s))
  BY <1>2, <1>5, <1>6, <1>7, KeptIsSuffix
<1>9. SubSeq(s, j + 1, Len(s)) = SubSeq(u, m + 1, n + 1)
  <2> DEFINE a == SubSeq(s, j + 1, Len(s))
             b == SubSeq(u, m + 1, n + 1)
  <2>1. a \in Seq(E) /\ Len(a) = n + 1 - m
    BY <1>1, <1>2
  <2>2. b \in Seq(E) /\ Len(b) = n + 1 - m
    BY <1>1
  <2>3. ASSUME NEW i \in 1..(n + 1 - m)
        PROVE  a[i] = b[i]
    <3>1. a[i] = s[j + i]
      BY <1>1, <1>2
    <3>2. b[i] = u[m + i]
      BY <1>1
    <3>3. j + i \in 1..(n - k + 1) /\ k + (j + i) = m + i
      BY <1>1
    <3> QED
      BY <1>3, <3>1, <3>2, <3>3
  <2> HIDE DEF a, b
  <2>4. a = b
    BY <2>1, <2>2, <2>3, SeqEqual
  <2> QED
    BY <2>4 DEF a, b
<1> QED
  BY <1>8, <1>9 DEF n, u, s

\* What comes before n and is downward closed ends somewhere before n.
LEMMA Cutoff ==
    ASSUME NEW n \in Nat, NEW old \in SUBSET (1..(n + 1)), n + 1 \notin old,
           \A i, j \in 1..(n + 1) : i <= j /\ j \in old => i \in old
    PROVE  \E m \in 0..n : \A i \in 1..(n + 1) : i <= m <=> i \in old
<1> DEFINE T == (1..(n + 1)) \ old
<1>1. T \in SUBSET Nat /\ n + 1 \in T
  OBVIOUS
<1>2. PICK p \in T : \A q \in T : p <= q
  BY <1>1, LeastNatural
<1>3. p - 1 \in 0..n
  BY <1>2
<1>4. \A i \in 1..(n + 1) : i <= p - 1 <=> i \in old
  BY <1>2
<1> QED
  BY <1>3, <1>4
=============================================================================
