------------------------------ MODULE SequenceLemmas ------------------------------
(***************************************************************************)
(* Facts about natural numbers, finite sets of them and sequences that the *)
(* proofs about several components need.  Induction is used in two forms   *)
(* without an operator as parameter: the least element of a set, and a set *)
(* that is closed under successor.                                         *)
(***************************************************************************)
EXTENDS Integers, Sequences, SequencesExt, FiniteSetTheorems, WellFoundedInduction, TLAPS

\* A set of natural numbers that is not empty has a least element.
LEMMA LeastElement ==
  ASSUME NEW S \in SUBSET Nat, S # {}
  PROVE  \E n \in S : \A m \in S : n <= m
<1> DEFINE R == {ss \in Nat \X Nat : ss[1] < ss[2]}
<1>1. IsWellFoundedOn(R, Nat)
  <2>1. R = OpToRel(<, Nat)
    BY DEF OpToRel
  <2> QED
    BY <2>1, NatLessThanWellFounded
<1>2. \A x, y \in Nat : y < x => <<y, x>> \in R
  OBVIOUS
<1> HIDE DEF R
<1>3. PICK n \in S : \A m \in S : <<m, n>> \notin R
  BY <1>1, WFMin
<1>4. \A m \in S : ~ (m < n)
  BY <1>2, <1>3
<1>5. \A m \in S : n <= m
  BY <1>4
<1> QED
  BY <1>5

\* What holds of 0, and of n + 1 when it holds of n, holds of every natural number.
LEMMA SuccessorInduction ==
  ASSUME NEW S, 0 \in S, \A n \in Nat : n \in S => n + 1 \in S
  PROVE  Nat \subseteq S
<1> SUFFICES ASSUME ~ (Nat \subseteq S) PROVE FALSE
  OBVIOUS
<1>1. PICK n \in Nat \ S : \A m \in Nat \ S : n <= m
  <2>1. Nat \ S \in SUBSET Nat /\ Nat \ S # {}
    OBVIOUS
  <2> QED
    BY <2>1, LeastElement
<1>2. n # 0 /\ n - 1 \in Nat /\ n - 1 \notin Nat \ S
  BY <1>1
<1> QED
  BY <1>1, <1>2

\* The same up to a bound.
LEMMA BoundedInduction ==
  ASSUME NEW S, NEW bound \in Nat, 0 \in S,
         \A n \in 0..(bound - 1) : n \in S => n + 1 \in S
  PROVE  0..bound \subseteq S
<1> DEFINE T == S \cup {n \in Nat : n > bound}
<1>1. 0 \in T /\ \A n \in Nat : n \in T => n + 1 \in T
  OBVIOUS
<1> HIDE DEF T
<1>2. Nat \subseteq T
  BY <1>1, SuccessorInduction
<1> QED
  BY <1>2 DEF T

\* Max of a set of numbers up to a bound.
LEMMA MaxOfBounded ==
  ASSUME NEW bound \in Nat, NEW S \in SUBSET (1..bound), S # {}
  PROVE  Max(S) \in S /\ \A x \in S : Max(S) >= x
<1> DEFINE D == {bound - x : x \in S}
<1>1. D \in SUBSET Nat /\ D # {}
  <2>1. \A x \in S : x \in Int /\ x <= bound
    OBVIOUS
  <2>2. \A x \in S : bound - x \in Nat
    BY <2>1
  <2> QED
    BY <2>2
<1>2. PICK d \in D : \A e \in D : d <= e
  BY <1>1, LeastElement
<1>3. PICK m \in S : d = bound - m
  OBVIOUS
<1>4. \A x \in S : m >= x
  BY <1>2, <1>3
<1> QED
  BY <1>4 DEF Max

\* Max of the numbers up to n.
LEMMA MaxOfInterval ==
  ASSUME NEW n \in Nat, n > 0
  PROVE  Max(1..n) = n /\ (1..n) \ {n} = 1..(n - 1)
<1>1. 1..n \in SUBSET (1..n) /\ 1..n # {} /\ n \in 1..n
  OBVIOUS
<1>2. Max(1..n) \in 1..n /\ Max(1..n) >= n
  BY <1>1, MaxOfBounded
<1> QED
  BY <1>2
\* Concatenation.
LEMMA Concatenated ==
  ASSUME NEW S, NEW a \in Seq(S), NEW b \in Seq(S), NEW c \in Seq(S)
  PROVE  a \o (b \o c) = (a \o b) \o c /\ a \o <<>> = a /\ a \o b \in Seq(S)
  OBVIOUS

\* Concatenation with one element more.
LEMMA ConcatenatedOne ==
  ASSUME NEW S, NEW a \in Seq(S), NEW b \in Seq(S), NEW x \in S
  PROVE  a \o Append(b, x) = Append(a \o b, x) /\ a \o <<x>> = Append(a, x)
  OBVIOUS

\* A sequence given by a function.
LEMMA SequenceOfFunction ==
  ASSUME NEW S, NEW n \in Nat, NEW f \in [1..(n + 1) -> S]
  PROVE  /\ [m \in 1..(n + 1) |-> f[m]] = Append([m \in 1..n |-> f[m]], f[n + 1])
         /\ [m \in 1..n |-> f[m]] \in Seq(S) /\ [m \in 1..0 |-> f[m]] = <<>>
  OBVIOUS

--------------------------------------------------------------------------------
(* Definition by recursion.                                                  *)

\* A value at 0 and a step give the values up to N.
StepOn(step, X, N) == step \in [(1..N) \X X -> X]
Iterates(f, X, x, N, step) ==
  f \in [0..N -> X] /\ f[0] = x /\ \A n \in 1..N : f[n] = step[<<n, f[n - 1]>>]

\* A recursion by one is a function.
LEMMA RecursionExists ==
  ASSUME NEW X, NEW x \in X, NEW N \in Nat, NEW step, StepOn(step, X, N)
  PROVE  \E f : Iterates(f, X, x, N, step)
<1> DEFINE Values(k, f) == /\ f \in [0..k -> X] /\ f[0] = x
                           /\ \A n \in 1..k : f[n] = step[<<n, f[n - 1]>>]
           S == {k \in 0..N : \E f : Values(k, f)}
<1>1. 0 \in S
  <2>1. Values(0, [n \in 0..0 |-> x])
    OBVIOUS
  <2>2. 0 \in 0..N
    OBVIOUS
  <2> HIDE DEF Values
  <2> QED
    BY <2>1, <2>2
<1>2. ASSUME NEW k \in 0..(N - 1), k \in S PROVE k + 1 \in S
  <2>1. PICK f : Values(k, f)
    BY <1>2
  <2>2. /\ k \in Nat /\ k + 1 \in 0..N /\ k + 1 \in 1..N /\ (k + 1) - 1 = k /\ k \in 0..k
        /\ \A n \in 1..k : n \in 0..k /\ n - 1 \in 0..k /\ n \in 1..N
    OBVIOUS
  <2> DEFINE y == step[<<k + 1, f[k]>>]
             g == [n \in 0..(k + 1) |-> IF n = k + 1 THEN y ELSE f[n]]
  <2>3. y \in X
    BY <2>1, <2>2 DEF StepOn
  <2>4. \A n \in 0..(k + 1) : n = k + 1 \/ n \in 0..k
    BY <2>2
  <2> HIDE DEF y
  <2>5. g \in [0..(k + 1) -> X]
    BY <2>1, <2>3, <2>4
  <2>6. /\ \A n \in 0..k : g[n] = f[n]
        /\ g[k + 1] = y /\ 0 \in 0..k
    BY <2>2
  <2> HIDE DEF g
  <2>7. ASSUME NEW n \in 1..(k + 1) PROVE g[n] = step[<<n, g[n - 1]>>]
    <3>1. CASE n = k + 1
      BY <2>2, <2>6, <3>1 DEF y
    <3>2. CASE n # k + 1
      <4>1. n \in 1..k
        BY <2>2, <3>2
      <4> QED
        BY <2>1, <2>2, <2>6, <4>1
    <3> QED
      BY <3>1, <3>2
  <2>8. Values(k + 1, g)
    BY <2>1, <2>5, <2>6, <2>7
  <2> HIDE DEF Values
  <2> QED
    BY <2>2, <2>8
<1>3. N \in 0..N
  OBVIOUS
<1> HIDE DEF S
<1>4. 0..N \subseteq S
  BY <1>1, <1>2, BoundedInduction, Zenon
<1>5. N \in S
  BY <1>3, <1>4
<1> QED
  BY <1>5 DEF S, Iterates

\* FlattenSeq puts one sequence after the other, from <<>> on.
LEMMA FlattenedByOne ==
  ASSUME NEW S, NEW q \in Seq(Seq(S))
  PROVE  \E f \in [0..Len(q) -> Seq(S)] :
           /\ f[0] = <<>> /\ FlattenSeq(q) = f[Len(q)]
           /\ \A n \in 1..Len(q) : f[n] = f[n - 1] \o q[n]
<1> DEFINE N == Len(q)
           X == Seq(S)
           none == <<>>
           step == [p \in (1..N) \X X |-> p[2] \o q[p[1]]]
<1>1. N \in Nat /\ none \in X /\ StepOn(step, X, N)
  <2>1. \A n \in 1..N : q[n] \in X
    OBVIOUS
  <2>2. \A n \in 1..N, s \in X : s \o q[n] \in X
    BY <2>1
  <2> HIDE DEF X
  <2>3. step \in [(1..N) \X X -> X]
    BY <2>2
  <2> QED
    BY <2>3 DEF X, StepOn
<1> HIDE DEF step
<1>2. PICK f : Iterates(f, X, none, N, step)
  <2> HIDE DEF X, N, none
  <2> QED
    BY <1>1, RecursionExists
<1>3. \A n \in 1..N : n - 1 \in 0..N /\ n \in 0..N
  BY <1>1
<1>4. f \in [0..N -> X] /\ f[0] = <<>> /\ \A n \in 1..N : f[n] = f[n - 1] \o q[n]
  BY <1>2, <1>3 DEF step, Iterates
<1>5. FlattenSeq(q) = f[N]
  <2>1. CASE N = 0
    <3>1. q = <<>>
      BY <2>1
    <3> QED
      BY <1>4, <2>1, <3>1 DEF FlattenSeq
  <2>2. CASE N # 0
    <3> DEFINE Is(g) == g = [i \in 1..N |-> IF i = 1 THEN q[i] ELSE g[i - 1] \o q[i]]
               h == [i \in 1..N |-> f[i]]
               c == CHOOSE g : Is(g)
    <3>1. Is(h)
      <4>1. ASSUME NEW i \in 1..N PROVE h[i] = IF i = 1 THEN q[i] ELSE h[i - 1] \o q[i]
        <5>1. CASE i = 1
          <6>1. q[i] \in Seq(S) /\ i - 1 = 0
            BY <5>1
          <6>2. f[i] = <<>> \o q[i]
            BY <1>4, <6>1
          <6>3. f[i] = q[i]
            BY <6>1, <6>2
          <6> QED
            BY <5>1, <6>3
        <5>2. CASE i # 1
          <6>1. i - 1 \in 1..N
            BY <1>1, <5>2
          <6> QED
            BY <1>4, <5>2, <6>1
        <5> QED
          BY <5>1, <5>2
      <4> QED
        BY <4>1
    <3>2. Is(c)
      BY <3>1
    <3>3. FlattenSeq(q) = c[N]
      BY <2>2 DEF FlattenSeq
    <3> HIDE DEF h, c
    <3>4. \A i \in 1..N : c[i] = IF i = 1 THEN q[i] ELSE c[i - 1] \o q[i]
      BY <3>2
    <3> DEFINE T == {n \in 0..N : n = 0 \/ c[n] = f[n]}
    <3>5. 0 \in T
      BY <1>1
    <3>6. ASSUME NEW n \in 0..(N - 1), n \in T PROVE n + 1 \in T
      <4>1. n + 1 \in 1..N /\ (n + 1) - 1 = n /\ n + 1 \in 0..N
        BY <1>1
      <4> DEFINE m == n + 1
      <4>2. f[m] = f[n] \o q[m] /\ q[m] \in Seq(S)
        <5>1. m \in 1..N /\ m - 1 = n
          BY <4>1
        <5> HIDE DEF m
        <5>2. f[m] = f[m - 1] \o q[m]
          BY <1>4, <5>1
        <5>3. q[m] \in Seq(S)
          BY <5>1
        <5> QED
          BY <5>1, <5>2, <5>3
      <4>3. CASE n = 0
        <5>1. c[m] = q[m] /\ f[n] = <<>>
          BY <1>4, <3>4, <4>1, <4>3
        <5> HIDE DEF m
        <5>2. f[m] = q[m]
          BY <4>2, <5>1
        <5> QED
          BY <4>1, <5>1, <5>2 DEF m
      <4>4. CASE n # 0
        <5>1. c[n] = f[n] /\ n + 1 # 1
          BY <3>6, <4>4
        <5>2. c[n + 1] = c[n] \o q[n + 1]
          BY <3>4, <4>1, <5>1
        <5> QED
          BY <4>1, <4>2, <5>1, <5>2
      <4> QED
        BY <4>3, <4>4
    <3> HIDE DEF T
    <3>7. 0..N \subseteq T /\ N \in 0..N
      <4>1. N \in 0..N
        BY <1>1
      <4> HIDE DEF N
      <4> QED
        BY <1>1, <3>5, <3>6, <4>1, BoundedInduction, Zenon
    <3>8. c[N] = f[N]
      BY <2>2, <3>7 DEF T
    <3> QED
      BY <3>3, <3>8
  <2> QED
    BY <2>1, <2>2
<1> QED
  BY <1>4, <1>5

\* Where each of the sequences begins.
Offsets(off, q) ==
  /\ off \in [0..Len(q) -> Nat] /\ off[0] = 0
  /\ \A k \in 1..Len(q) : off[k] = off[k - 1] + Len(q[k])

\* Offsets grow.
LEMMA OffsetsMonotone ==
  ASSUME NEW S, NEW q \in Seq(Seq(S)), NEW off, Offsets(off, q),
         NEW k \in 0..Len(q), NEW l \in 0..Len(q), k <= l
  PROVE  off[k] <= off[l]
<1> DEFINE N == Len(q)
           T == {m \in 0..N : k <= m => off[k] <= off[m]}
<1>1. N \in Nat /\ off \in [0..N -> Nat]
  BY DEF Offsets
<1>2. 0 \in T
  <2>1. k <= 0 => k = 0
    OBVIOUS
  <2> QED
    BY <1>1, <2>1
<1>3. ASSUME NEW m \in 0..(N - 1), m \in T PROVE m + 1 \in T
  <2>1. m + 1 \in 1..N /\ m + 1 \in 0..N /\ (m + 1) - 1 = m /\ m \in 0..N
    BY <1>1
  <2> DEFINE n == m + 1
  <2>2. n \in 1..N /\ n - 1 = m
    BY <2>1
  <2> HIDE DEF n
  <2>3. off[n] = off[m] + Len(q[n])
    BY <2>2 DEF Offsets
  <2>4. Len(q[n]) \in Nat
    BY <2>2
  <2>5. off[n] \in Nat /\ off[m] \in Nat /\ off[k] \in Nat /\ off[m] <= off[n]
    <3>1. n \in 0..N
      BY <2>1 DEF n
    <3>2. off[n] \in Nat /\ off[m] \in Nat /\ off[k] \in Nat
      BY <1>1, <2>1, <3>1
    <3> QED
      BY <2>3, <2>4, <3>2
  <2>6. k <= n => k <= m \/ k = n
    BY <2>2
  <2>7. k <= n => off[k] <= off[n]
    BY <1>3, <2>5, <2>6
  <2> QED
    BY <2>1, <2>7 DEF n
<1> HIDE DEF T, N
<1>4. 0..N \subseteq T
  BY <1>1, <1>2, <1>3, BoundedInduction, Zenon
<1> QED
  BY <1>4 DEF T, N

\* Every place is in one of the sequences.
InPart(j, q, off) == \E k \in 1..Len(q) : \E i \in 1..Len(q[k]) : j = off[k - 1] + i

\* Each place is in a part.
LEMMA OffsetFound ==
  ASSUME NEW S, NEW q \in Seq(Seq(S)), NEW off, Offsets(off, q), NEW j \in 1..off[Len(q)]
  PROVE  InPart(j, q, off)
<1> DEFINE N == Len(q)
           T == {k \in 0..N : j <= off[k]}
<1>1. /\ N \in Nat /\ off \in [0..N -> Nat] /\ off[0] = 0 /\ off[N] \in Nat
      /\ j \in Nat /\ j > 0 /\ j <= off[N]
  BY DEF Offsets
<1>2. T \in SUBSET Nat /\ T # {}
  BY <1>1
<1>3. PICK k \in T : \A m \in T : k <= m
  BY <1>2, LeastElement
<1>4. k \in 1..N /\ j <= off[k]
  BY <1>1, <1>3
<1>5. k - 1 \in 0..N /\ k - 1 \notin T
  BY <1>1, <1>3, <1>4
<1>6. off[k - 1] \in Nat /\ off[k - 1] < j
  <2> DEFINE p == k - 1
  <2>1. p \in 0..N /\ ~(j <= off[p])
    BY <1>5
  <2> HIDE DEF p
  <2>2. off[p] \in Nat /\ off[p] < j
    BY <1>1, <2>1
  <2> QED
    BY <2>2 DEF p
<1> HIDE DEF T, N
<1>7. off[k] = off[k - 1] + Len(q[k]) /\ Len(q[k]) \in Nat
  BY <1>4 DEF Offsets, N
<1>8. j - off[k - 1] \in 1..Len(q[k]) /\ j = off[k - 1] + (j - off[k - 1])
  BY <1>1, <1>4, <1>6, <1>7, SMTT(30)
<1> QED
  <2> DEFINE i == j - off[k - 1]
  <2>1. k \in 1..Len(q) /\ i \in 1..Len(q[k]) /\ j = off[k - 1] + i
    BY <1>4, <1>8 DEF N
  <2> HIDE DEF i
  <2> QED
    BY <2>1 DEF InPart

\* FlattenSeq keeps the elements, each at its sequence's place.
Laid(s, q, off) ==
  /\ Offsets(off, q) /\ Len(s) = off[Len(q)]
  /\ \A k \in 1..Len(q) : \A i \in 1..Len(q[k]) :
       off[k - 1] + i \in 1..Len(s) /\ s[off[k - 1] + i] = q[k][i]

\* Each place of the flattened sequence is a place of its part.
LEMMA FlattenedPlaces ==
  ASSUME NEW S, NEW q \in Seq(Seq(S))
  PROVE  FlattenSeq(q) \in Seq(S) /\ \E off : Laid(FlattenSeq(q), q, off)
<1> DEFINE N == Len(q)
<1>1. PICK f \in [0..N -> Seq(S)] :
        f[0] = <<>> /\ FlattenSeq(q) = f[N] /\ \A n \in 1..N : f[n] = f[n - 1] \o q[n]
  BY FlattenedByOne
<1>2. N \in Nat /\ \A n \in 1..N : q[n] \in Seq(S)
  OBVIOUS
<1> DEFINE off == [n \in 0..N |-> Len(f[n])]
<1>3. ASSUME NEW n \in 1..N
      PROVE  /\ off[n] = off[n - 1] + Len(q[n]) /\ off[n - 1] = Len(f[n - 1])
             /\ f[n - 1] \in Seq(S) /\ f[n] = f[n - 1] \o q[n]
             /\ off[n] = Len(f[n])
  <2>1. n - 1 \in 0..N /\ n \in 0..N
    BY <1>2
  <2>2. f[n - 1] \in Seq(S) /\ q[n] \in Seq(S) /\ f[n] = f[n - 1] \o q[n]
    BY <1>1, <1>2, <2>1
  <2>3. Len(f[n]) = Len(f[n - 1]) + Len(q[n])
    BY <2>2
  <2> QED
    BY <2>1, <2>2, <2>3
<1>4. Offsets(off, q)
  <2>1. \A n \in 0..N : f[n] \in Seq(S) /\ Len(f[n]) \in Nat
    BY <1>1, SMTT(30)
  <2>2. off \in [0..N -> Nat]
    BY <2>1
  <2>3. off[0] = 0
    BY <1>1, <1>2
  <2> QED
    BY <1>3, <2>2, <2>3 DEF Offsets
<1>5. off[N] = Len(f[N]) /\ 0 \in 0..N
  BY <1>2
<1> HIDE DEF off
<1> DEFINE Placed(n) == \A k \in 1..n : \A i \in 1..Len(q[k]) :
                          off[k - 1] + i \in 1..off[n] /\ f[n][off[k - 1] + i] = q[k][i]
           T == {n \in 0..N : Placed(n)}
<1>6. 0 \in T
  BY <1>2
<1>7. ASSUME NEW n \in 0..(N - 1), n \in T PROVE n + 1 \in T
  <2> DEFINE m == n + 1
  <2>1. m \in 1..N /\ m - 1 = n /\ m \in 0..N /\ n \in 0..N
    BY <1>2
  <2>2. \A k \in 1..m : k \in 1..n \/ k = m
    BY <1>2
  <2> HIDE DEF m
  <2>3. /\ off[m] = off[n] + Len(q[m]) /\ off[n] = Len(f[n]) /\ f[n] \in Seq(S)
        /\ f[m] = f[n] \o q[m] /\ q[m] \in Seq(S)
    BY <1>2, <1>3, <2>1
  <2>4. /\ \A x \in 1..off[n] : x \in 1..off[m] /\ f[m][x] = f[n][x]
        /\ \A i \in 1..Len(q[m]) : off[n] + i \in 1..off[m] /\ f[m][off[n] + i] = q[m][i]
    <3> DEFINE a == f[n]
               b == q[m]
               c == f[m]
    <3>1. /\ a \in Seq(S) /\ b \in Seq(S) /\ c = a \o b /\ off[n] = Len(a)
          /\ off[m] = Len(a) + Len(b)
      BY <2>3
    <3> HIDE DEF a, b, c
    <3>2. /\ \A x \in 1..Len(a) : x \in 1..(Len(a) + Len(b)) /\ c[x] = a[x]
          /\ \A i \in 1..Len(b) : /\ Len(a) + i \in 1..(Len(a) + Len(b))
                                  /\ c[Len(a) + i] = b[i]
      BY <3>1
    <3> QED
      BY <3>1, <3>2 DEF a, b, c
  <2>5. Placed(n)
    BY <1>7
  <2>6. ASSUME NEW k \in 1..m, NEW i \in 1..Len(q[k])
        PROVE  off[k - 1] + i \in 1..off[m] /\ f[m][off[k - 1] + i] = q[k][i]
    <3>1. CASE k = m
      BY <2>1, <2>4, <3>1
    <3>2. CASE k \in 1..n
      <4>1. off[k - 1] + i \in 1..off[n] /\ f[n][off[k - 1] + i] = q[k][i]
        BY <2>5, <3>2
      <4> QED
        BY <2>4, <4>1
    <3> QED
      BY <2>2, <3>1, <3>2
  <2>7. m \in T
    BY <2>1, <2>6
  <2> QED
    BY <2>7 DEF m
<1> HIDE DEF T
<1>8. N \in 0..N
  BY <1>2
<1>9. 0..N \subseteq T
  <2> HIDE DEF N
  <2> QED
    BY <1>2, <1>6, <1>7, BoundedInduction, Zenon
<1>10. Placed(N)
  BY <1>8, <1>9 DEF T
<1>11. FlattenSeq(q) \in Seq(S)
  BY <1>1, <1>8
<1>12. Laid(FlattenSeq(q), q, off)
  BY <1>1, <1>4, <1>5, <1>10 DEF Laid
<1> QED
  BY <1>11, <1>12

\* The same with a first sequence before the others: where each begins and ends, in
\* which order, and that every element is in one of them.
Placed(s, a, q, off) ==
  /\ off \in [0..Len(q) -> Nat] /\ off[0] = Len(a) /\ Len(s) = off[Len(q)]
  /\ \A i \in 1..Len(a) : s[i] = a[i]
  /\ \A k \in 1..Len(q) : off[k] = off[k - 1] + Len(q[k])
  /\ \A k \in 1..Len(q) : \A i \in 1..Len(q[k]) : s[off[k - 1] + i] = q[k][i]
  /\ \A k, l \in 0..Len(q) : k <= l => off[k] <= off[l]
  /\ \A j \in 1..Len(s) : j > off[0] => \E k \in 1..Len(q) : j > off[k - 1] /\ j <= off[k]

\* The same, behind a first sequence.
LEMMA PrefixedPlaces ==
  ASSUME NEW S, NEW a \in Seq(S), NEW q \in Seq(Seq(S))
  PROVE  /\ a \o FlattenSeq(q) \in Seq(S)
         /\ \E off : Placed(a \o FlattenSeq(q), a, q, off)
<1> DEFINE t == FlattenSeq(q)
           s == a \o t
           N == Len(q)
           A == Len(a)
<1>1. t \in Seq(S) /\ \E o : Laid(t, q, o)
  BY FlattenedPlaces
<1>2. PICK o : Laid(t, q, o)
  BY <1>1
<1> HIDE DEF t
<1>3. /\ o \in [0..N -> Nat] /\ o[0] = 0 /\ N \in Nat /\ Len(t) = o[N]
      /\ \A k \in 1..N : o[k] = o[k - 1] + Len(q[k])
  <2>1. Offsets(o, q) /\ Len(t) = o[N]
    BY <1>2 DEF Laid
  <2>2. N \in Nat
    OBVIOUS
  <2> QED
    BY <2>1, <2>2 DEF Offsets
<1>4. \A k \in 1..N : \A i \in 1..Len(q[k]) :
        o[k - 1] + i \in 1..Len(t) /\ t[o[k - 1] + i] = q[k][i]
  BY <1>2 DEF Laid
<1>5. /\ s \in Seq(S) /\ Len(s) = A + Len(t) /\ A \in Nat
      /\ \A i \in 1..A : s[i] = a[i]
  BY <1>1
<1>6. \A i \in 1..Len(t) : s[A + i] = t[i]
  BY <1>1
<1>7. Offsets(o, q)
  BY <1>2 DEF Laid
<1> DEFINE off == [k \in 0..N |-> A + o[k]]
<1> HIDE DEF s, A, N
<1>8. \A k \in 1..N : k \in 0..N /\ k - 1 \in 0..N
  BY <1>3
<1>9. 0 \in 0..N /\ N \in 0..N
  BY <1>3
<1>10. /\ \A k \in 0..N : o[k] \in Nat /\ off[k] = A + o[k]
       /\ \A k \in 0..N : off[k] \in Nat
  BY <1>3, <1>5
<1>11. off \in [0..N -> Nat]
  BY <1>10
<1> HIDE DEF off
<1>12. off[0] = A /\ Len(s) = off[N]
  BY <1>3, <1>5, <1>9, <1>10
<1>13. ASSUME NEW k \in 1..N PROVE off[k] = off[k - 1] + Len(q[k])
  <2> DEFINE l == k - 1
             L == Len(q[k])
  <2>1. k \in 0..N /\ l \in 0..N
    BY <1>8
  <2>2. L \in Nat
    <3>1. q[k] \in Seq(S)
      BY DEF N
    <3> QED
      BY <3>1
  <2>3. o[k] = o[l] + L
    BY <1>3
  <2> HIDE DEF l, L
  <2>4. o[l] \in Nat /\ off[l] = A + o[l] /\ off[k] = A + o[k]
    BY <1>10, <2>1
  <2>5. off[k] = off[l] + L
    BY <1>5, <2>2, <2>3, <2>4
  <2> QED
    BY <2>5 DEF l, L
<1>14. ASSUME NEW k \in 1..N, NEW i \in 1..Len(q[k]) PROVE s[off[k - 1] + i] = q[k][i]
  <2> DEFINE l == k - 1
             x == o[l] + i
  <2>1. l \in 0..N
    BY <1>8
  <2>2. x \in 1..Len(t) /\ t[x] = q[k][i]
    BY <1>4
  <2>3. off[l] + i = A + x
    <3>1. o[l] \in Nat /\ off[l] = A + o[l]
      BY <1>10, <2>1
    <3> HIDE DEF l
    <3>2. i \in Int
      OBVIOUS
    <3> QED
      BY <1>5, <3>1, <3>2
  <2> HIDE DEF x
  <2>4. s[A + x] = t[x]
    BY <1>6, <2>2
  <2> QED
    BY <2>2, <2>3, <2>4 DEF l
<1>15. ASSUME NEW k \in 0..N, NEW l \in 0..N, k <= l PROVE off[k] <= off[l]
  <2>1. o[k] <= o[l]
    BY <1>7, <1>15, OffsetsMonotone DEF N
  <2> QED
    BY <1>5, <1>10, <2>1
<1>16. ASSUME NEW j \in 1..Len(s), j > off[0]
       PROVE  \E k \in 1..N : j > off[k - 1] /\ j <= off[k]
  <2> DEFINE x == j - A
  <2>1. x \in 1..o[N] /\ j = A + x
    BY <1>3, <1>5, <1>12, <1>16, <1>9, <1>10
  <2> HIDE DEF x
  <2>2. PICK k \in 1..N : \E i \in 1..Len(q[k]) : x = o[k - 1] + i
    <3>1. x \in 1..o[Len(q)]
      BY <2>1 DEF N
    <3>2. InPart(x, q, o)
      BY <1>7, <3>1, OffsetFound
    <3> QED
      BY <3>2 DEF N, InPart
  <2>3. PICK i \in 1..Len(q[k]) : x = o[k - 1] + i
    BY <2>2
  <2> DEFINE l == k - 1
             L == Len(q[k])
  <2>4. l \in 0..N /\ k \in 0..N /\ off[k] = off[l] + L
    BY <1>8, <1>13
  <2>5. L \in Nat /\ i \in 1..L
    <3>1. q[k] \in Seq(S)
      BY DEF N
    <3> QED
      BY <3>1
  <2>6. x = o[l] + i
    BY <2>3
  <2> HIDE DEF l, L
  <2>7. o[l] \in Nat /\ off[l] = A + o[l]
    BY <1>10, <2>4
  <2>8. j > off[l] /\ j <= off[k]
    <3> DEFINE y == o[l]
    <3>1. y \in Nat /\ j = A + (y + i) /\ off[l] = A + y /\ off[k] = (A + y) + L
      BY <2>1, <2>4, <2>6, <2>7
    <3> HIDE DEF y
    <3>2. A + (y + i) > A + y /\ A + (y + i) <= (A + y) + L
      BY <1>5, <2>5, <3>1, SMTT(30)
    <3> QED
      BY <3>1, <3>2
  <2> QED
    BY <2>8 DEF l
<1>17. Placed(s, a, q, off)
  BY <1>5, <1>11, <1>12, <1>13, <1>14, <1>15, <1>16 DEF Placed, N, A
<1> QED
  BY <1>5, <1>17 DEF s, t
================================================================================
