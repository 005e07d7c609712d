--------------------------- MODULE ConversationProofs ---------------------------
(* Proofs about Conversation, for any models, answers, system prompt and     *)
(* bounds: in a translated request each call is answered next, a provider    *)
(* sees again what it said, its calls' arguments as JSON, and nothing is     *)
(* lost. The facts about the translation come first, then the conversation   *)
(* as an invariant (HistoryInv).                                             *)
EXTENDS Conversation, SequenceLemmas

--------------------------------------------------------------------------------
(* The loops over blocks.                                                    *)

\* The chosen elements up to each place.
ChosenUpTo(f, S, s, P) ==
  /\ f \in [0..Len(s) -> Seq(S)] /\ f[0] = <<>> /\ f[Len(s)] = Chosen(s, P)
  /\ \A n \in 1..Len(s) : f[n] = IF n \in P THEN Append(f[n - 1], s[n]) ELSE f[n - 1]

\* The loop is a recursion by one element.
LEMMA ChosenByOne ==
  ASSUME NEW S, NEW s \in Seq(S), NEW P
  PROVE  \E f : ChosenUpTo(f, S, s, P)
<1> DEFINE N == Len(s)
           X == Seq(S)
           none == <<>>
           step == [p \in (1..N) \X X |->
                      IF p[1] \in P THEN Append(p[2], s[p[1]]) ELSE p[2]]
<1>1. N \in Nat /\ none \in X /\ StepOn(step, X, N)
  <2>1. \A n \in 1..N : s[n] \in S
    OBVIOUS
  <2>2. \A n \in 1..N, q \in X : (IF n \in P THEN Append(q, s[n]) ELSE q) \in X
    BY <2>1
  <2> HIDE DEF X
  <2>3. step \in [(1..N) \X X -> X]
    BY <2>2
  <2> QED
    BY <2>3 DEF X, StepOn
<1> HIDE DEF step
<1>2. PICK f : Iterates(f, X, none, N, step)
  <2> HIDE DEF X, N, none
  <2> QED
    BY <1>1, RecursionExists
<1>3. \A n \in 1..N : n - 1 \in 0..N /\ n \in 0..N
  BY <1>1
<1>4. /\ f \in [0..N -> X] /\ f[0] = <<>>
      /\ \A n \in 1..N : f[n] = IF n \in P THEN Append(f[n - 1], s[n]) ELSE f[n - 1]
  BY <1>2, <1>3 DEF step, Iterates
<1> DEFINE Is(g) == g = [n \in 0..N |->
                           IF n = 0 THEN <<>>
                           ELSE IF n \in P THEN Append(g[n - 1], s[n]) ELSE g[n - 1]]
           c == CHOOSE g : Is(g)
<1>5. Is(f)
  <2>1. \A n \in 0..N : n = 0 \/ n \in 1..N
    BY <1>1
  <2>2. \A n \in 0..N : f[n] = IF n = 0 THEN <<>>
                               ELSE IF n \in P THEN Append(f[n - 1], s[n]) ELSE f[n - 1]
    BY <1>1, <1>4, <2>1
  <2>3. f = [n \in 0..N |-> f[n]]
    BY <1>4
  <2> QED
    BY <2>2, <2>3
<1>6. Is(c)
  BY <1>5
<1>7. Chosen(s, P) = c[N]
  BY DEF Chosen
<1> HIDE DEF c
<1>8. /\ c[0] = <<>> /\ 0 \in 0..N /\ c = [n \in 0..N |-> c[n]]
      /\ \A n \in 1..N : c[n] = IF n \in P THEN Append(c[n - 1], s[n]) ELSE c[n - 1]
  <2>1. /\ 0 \in 0..N /\ \A n \in 1..N : n \in 0..N /\ n # 0
    BY <1>1
  <2> DEFINE h == [n \in 0..N |->
                     IF n = 0 THEN <<>>
                     ELSE IF n \in P THEN Append(c[n - 1], s[n]) ELSE c[n - 1]]
  <2>2. c = h
    BY <1>6
  <2>3. \A n \in 0..N : h[n] = IF n = 0 THEN <<>>
                               ELSE IF n \in P THEN Append(c[n - 1], s[n]) ELSE c[n - 1]
    OBVIOUS
  <2>4. h = [n \in 0..N |-> h[n]]
    OBVIOUS
  <2> HIDE DEF h
  <2>5. \A n \in 0..N : c[n] = IF n = 0 THEN <<>>
                               ELSE IF n \in P THEN Append(c[n - 1], s[n]) ELSE c[n - 1]
    BY <2>2, <2>3
  <2>6. c = [n \in 0..N |-> c[n]]
    BY <2>2, <2>4
  <2>7. \A n \in 1..N : c[n] = IF n \in P THEN Append(c[n - 1], s[n]) ELSE c[n - 1]
    BY <2>1, <2>5
  <2>8. c[0] = <<>>
    BY <2>1, <2>5
  <2> QED
    BY <2>1, <2>6, <2>7, <2>8
<1> DEFINE T == {n \in 0..N : c[n] = f[n]}
<1>9. 0 \in T
  BY <1>4, <1>8
<1>10. ASSUME NEW n \in 0..(N - 1), n \in T PROVE n + 1 \in T
  <2> DEFINE m == n + 1
  <2>1. m \in 1..N /\ m - 1 = n /\ m \in 0..N
    BY <1>1
  <2> HIDE DEF m
  <2>2. c[m] = f[m]
    BY <1>4, <1>8, <1>10, <2>1
  <2> QED
    BY <2>1, <2>2 DEF m
<1> HIDE DEF T
<1>11. 0..N \subseteq T
  <2> HIDE DEF N
  <2> QED
    BY <1>1, <1>9, <1>10, BoundedInduction, Zenon
<1>12. \A n \in 0..N : c[n] = f[n]
  BY <1>11 DEF T
<1>13. f[N] = Chosen(s, P)
  BY <1>1, <1>7, <1>12
<1>14. ChosenUpTo(f, S, s, P)
  BY <1>4, <1>13 DEF ChosenUpTo
<1> QED
  BY <1>14

\* What is chosen: the elements at the places, each once.
Choice(r, s, P) ==
  /\ \A i \in 1..Len(r) : \E n \in 1..Len(s) : n \in P /\ r[i] = s[n]
  /\ \A n \in 1..Len(s) : n \in P => \E i \in 1..Len(r) : r[i] = s[n]
  /\ (\A m, n \in 1..Len(s) : m # n => s[m] # s[n])
       => \A i, j \in 1..Len(r) : i # j => r[i] # r[j]

\* A loop's result has the elements that pass, each as often as there, and no other.
LEMMA ChosenElements ==
  ASSUME NEW S, NEW s \in Seq(S), NEW P
  PROVE  Chosen(s, P) \in Seq(S) /\ Choice(Chosen(s, P), s, P)
<1> DEFINE N == Len(s)
<1>1. PICK f : ChosenUpTo(f, S, s, P)
  BY ChosenByOne
<1>2. /\ N \in Nat /\ f \in [0..N -> Seq(S)] /\ f[0] = <<>> /\ f[N] = Chosen(s, P)
      /\ \A n \in 1..N : f[n] = IF n \in P THEN Append(f[n - 1], s[n]) ELSE f[n - 1]
      /\ \A n \in 1..N : s[n] \in S
  BY <1>1 DEF ChosenUpTo
<1> DEFINE From(n) == \A i \in 1..Len(f[n]) : \E m \in 1..n : m \in P /\ f[n][i] = s[m]
           All(n) == \A m \in 1..n : m \in P => \E i \in 1..Len(f[n]) : f[n][i] = s[m]
           Once(n) == (\A l, m \in 1..N : l # m => s[l] # s[m])
                        => \A i, j \in 1..Len(f[n]) : i # j => f[n][i] # f[n][j]
           T == {n \in 0..N : From(n) /\ All(n) /\ Once(n)}
<1>3. 0 \in T
  <2>1. Len(f[0]) = 0 /\ 1..0 = {} /\ 0 \in 0..N
    BY <1>2
  <2> QED
    BY <2>1
<1>4. ASSUME NEW n \in 0..(N - 1), n \in T PROVE n + 1 \in T
  <2> DEFINE l == n + 1
  <2>1. /\ l \in 1..N /\ l - 1 = n /\ l \in 0..N /\ n \in 0..N
        /\ \A m \in 1..n : m \in 1..l /\ m # l /\ m \in 1..N
        /\ \A m \in 1..l : m \in 1..n \/ m = l
        /\ l \in 1..l
    BY <1>2
  <2> HIDE DEF l
  <2> DEFINE a == f[n]
             b == f[l]
             x == s[l]
  <2>2. a \in Seq(S) /\ x \in S /\ b = IF l \in P THEN Append(a, x) ELSE a
    BY <1>2, <2>1
  <2>3. From(n) /\ All(n) /\ Once(n)
    BY <1>4
  <2>4. CASE l \in P
    <3>1. /\ Len(a) \in Nat /\ Len(b) = Len(a) + 1 /\ b[Len(b)] = x
          /\ \A i \in 1..Len(a) : b[i] = a[i] /\ i \in 1..Len(b)
          /\ \A i \in 1..Len(b) : i \in 1..Len(a) \/ i = Len(b)
          /\ Len(b) \in 1..Len(b)
      BY <2>2, <2>4
    <3>2. From(l)
      <4> SUFFICES ASSUME NEW i \in 1..Len(b)
                   PROVE  \E m \in 1..l : m \in P /\ b[i] = s[m]
        OBVIOUS
      <4>1. CASE i \in 1..Len(a)
        <5>1. PICK m \in 1..n : m \in P /\ a[i] = s[m]
          BY <2>3, <4>1
        <5>2. m \in 1..l /\ m \in P /\ b[i] = s[m]
          BY <2>1, <3>1, <4>1, <5>1
        <5> QED
          BY <5>2
      <4>2. CASE i = Len(b)
        BY <2>1, <2>4, <3>1, <4>2
      <4> QED
        BY <3>1, <4>1, <4>2
    <3>3. All(l)
      <4> SUFFICES ASSUME NEW m \in 1..l, m \in P
                   PROVE  \E i \in 1..Len(b) : b[i] = s[m]
        OBVIOUS
      <4>1. CASE m \in 1..n
        <5>1. PICK i \in 1..Len(a) : a[i] = s[m]
          BY <2>3, <4>1
        <5>2. i \in 1..Len(b) /\ b[i] = s[m]
          BY <3>1, <5>1
        <5> QED
          BY <5>2
      <4>2. CASE m = l
        BY <3>1, <4>2
      <4> QED
        BY <2>1, <4>1, <4>2
    <3>4. Once(l)
      <4> SUFFICES ASSUME \A k, m \in 1..N : k # m => s[k] # s[m],
                          NEW i \in 1..Len(b), NEW j \in 1..Len(b), i # j
                   PROVE  b[i] # b[j]
        OBVIOUS
      <4>1. \A k \in 1..Len(a) : a[k] # x
        BY <2>1, <2>3
      <4>2. CASE i \in 1..Len(a) /\ j \in 1..Len(a)
        BY <2>3, <3>1, <4>2
      <4>3. CASE i = Len(b) \/ j = Len(b)
        BY <3>1, <4>1, <4>3
      <4> QED
        BY <3>1, <4>2, <4>3
    <3> QED
      BY <2>1, <3>2, <3>3, <3>4 DEF l
  <2>5. CASE l \notin P
    <3>1. b = a
      BY <2>2, <2>5
    <3>2. From(l) /\ All(l) /\ Once(l)
      BY <2>1, <2>3, <2>5, <3>1
    <3> QED
      BY <2>1, <3>2 DEF l
  <2> QED
    BY <2>4, <2>5
<1> HIDE DEF T
<1>5. 0..N \subseteq T /\ N \in 0..N
  <2>1. N \in 0..N
    BY <1>2
  <2> HIDE DEF N
  <2> QED
    BY <1>2, <1>3, <1>4, <2>1, BoundedInduction, Zenon
<1>6. From(N) /\ All(N) /\ Once(N)
  BY <1>5 DEF T
<1>7. Choice(f[N], s, P)
  BY <1>6 DEF Choice
<1> QED
  BY <1>2, <1>5, <1>7

\* When every element is chosen the sequence stays what it is, and when none is
\* nothing is left.
LEMMA ChosenWhole ==
  ASSUME NEW S, NEW s \in Seq(S), NEW P, \A n \in 1..Len(s) : n \in P
  PROVE  Chosen(s, P) = s
<1> DEFINE N == Len(s)
<1>1. PICK f : ChosenUpTo(f, S, s, P)
  BY ChosenByOne
<1>2. /\ N \in Nat /\ f \in [0..N -> Seq(S)] /\ f[0] = <<>> /\ f[N] = Chosen(s, P)
      /\ \A n \in 1..N : f[n] = Append(f[n - 1], s[n])
      /\ \A n \in 1..N : s[n] \in S
  <2>1. \A n \in 1..N : f[n] = IF n \in P THEN Append(f[n - 1], s[n]) ELSE f[n - 1]
    BY <1>1 DEF ChosenUpTo
  <2>2. \A n \in 1..N : f[n] = Append(f[n - 1], s[n])
    BY <2>1
  <2>3. N \in Nat /\ f \in [0..N -> Seq(S)] /\ f[0] = <<>> /\ f[N] = Chosen(s, P)
    BY <1>1 DEF ChosenUpTo
  <2> QED
    BY <2>2, <2>3
<1> DEFINE T == {n \in 0..N : Len(f[n]) = n /\ \A i \in 1..n : f[n][i] = s[i]}
<1>3. 0 \in T
  BY <1>2
<1>4. ASSUME NEW n \in 0..(N - 1), n \in T PROVE n + 1 \in T
  <2> DEFINE l == n + 1
             a == f[n]
             b == f[l]
  <2>1. /\ l \in 1..N /\ l - 1 = n /\ l \in 0..N /\ n \in 0..N
        /\ \A m \in 1..l : m \in 1..n \/ m = l
    BY <1>2
  <2>2. a \in Seq(S) /\ s[l] \in S /\ b = Append(a, s[l]) /\ Len(a) = n
    BY <1>2, <1>4, <2>1
  <2> HIDE DEF l
  <2>3. Len(b) = Len(a) + 1 /\ b[Len(a) + 1] = s[l] /\ \A i \in 1..Len(a) : b[i] = a[i]
    BY <2>2
  <2>4. Len(b) = l /\ b[l] = s[l] /\ \A i \in 1..n : b[i] = s[i]
    BY <1>4, <2>2, <2>3 DEF l
  <2>5. \A i \in 1..l : b[i] = s[i]
    BY <2>1, <2>4
  <2> QED
    BY <2>1, <2>4, <2>5 DEF l
<1> HIDE DEF T
<1>5. 0..N \subseteq T /\ N \in 0..N
  <2>1. N \in 0..N
    BY <1>2
  <2> HIDE DEF N
  <2> QED
    BY <1>2, <1>3, <1>4, <2>1, BoundedInduction, Zenon
<1>6. f[N] \in Seq(S) /\ Len(f[N]) = Len(s) /\ \A i \in 1..Len(s) : f[N][i] = s[i]
  BY <1>2, <1>5 DEF T
<1>7. f[N] = s
  BY <1>6
<1> QED
  BY <1>2, <1>7

\* Where none passes, the loop's result is empty.
LEMMA ChosenNone ==
  ASSUME NEW S, NEW s \in Seq(S), NEW P, \A n \in 1..Len(s) : n \notin P
  PROVE  Chosen(s, P) = <<>>
<1> DEFINE N == Len(s)
<1>1. PICK f : ChosenUpTo(f, S, s, P)
  BY ChosenByOne
<1>2. /\ N \in Nat /\ f[0] = <<>> /\ f[N] = Chosen(s, P)
      /\ \A n \in 1..N : f[n] = f[n - 1]
  <2>1. \A n \in 1..N : f[n] = IF n \in P THEN Append(f[n - 1], s[n]) ELSE f[n - 1]
    BY <1>1 DEF ChosenUpTo
  <2>2. \A n \in 1..N : f[n] = f[n - 1]
    BY <2>1
  <2>3. N \in Nat /\ f[0] = <<>> /\ f[N] = Chosen(s, P)
    BY <1>1 DEF ChosenUpTo
  <2> QED
    BY <2>2, <2>3
<1> DEFINE T == {n \in 0..N : f[n] = <<>>}
<1>3. 0 \in T
  BY <1>2
<1>4. ASSUME NEW n \in 0..(N - 1), n \in T PROVE n + 1 \in T
  <2> DEFINE l == n + 1
  <2>1. l \in 1..N /\ l - 1 = n /\ l \in 0..N
    BY <1>2
  <2> HIDE DEF l
  <2>2. f[l] = f[n]
    BY <1>2, <2>1
  <2> QED
    BY <1>4, <2>1, <2>2 DEF l
<1> HIDE DEF T
<1>5. 0..N \subseteq T /\ N \in 0..N
  <2>1. N \in 0..N
    BY <1>2
  <2> HIDE DEF N
  <2> QED
    BY <1>2, <1>3, <1>4, <2>1, BoundedInduction, Zenon
<1> QED
  BY <1>2, <1>5 DEF T

\* A choice from two sequences, one after the other.
LEMMA ChosenJoined ==
  ASSUME NEW S, NEW a \in Seq(S), NEW b \in Seq(S), NEW P, NEW Q, NEW R,
         \A n \in 1..Len(a) : n \in P <=> n \in R,
         \A n \in 1..Len(b) : n \in Q <=> Len(a) + n \in R
  PROVE  Chosen(a \o b, R) = Chosen(a, P) \o Chosen(b, Q)
<1> DEFINE s == a \o b
           A == Len(a)
           B == Len(b)
<1>1. PICK f : ChosenUpTo(f, S, a, P)
  BY ChosenByOne
<1>2. PICK g : ChosenUpTo(g, S, b, Q)
  BY ChosenByOne
<1>3. /\ s \in Seq(S) /\ Len(s) = A + B /\ A \in Nat /\ B \in Nat
      /\ \A n \in 1..A : s[n] = a[n]
      /\ \A m \in 1..B : s[A + m] = b[m]
      /\ \A n \in 1..A : n \in P <=> n \in R
      /\ \A n \in 1..B : n \in Q <=> A + n \in R
      /\ \A n \in 1..A : a[n] \in S
      /\ \A n \in 1..B : b[n] \in S
  OBVIOUS
<1>n. A \in Nat /\ B \in Nat
  BY <1>3
<1> HIDE DEF s, A, B
<1>4. PICK h : ChosenUpTo(h, S, s, R)
  BY <1>3, ChosenByOne, Zenon
<1>5. /\ f \in [0..A -> Seq(S)] /\ f[0] = <<>> /\ f[A] = Chosen(a, P)
      /\ \A n \in 1..A : f[n] = IF n \in P THEN Append(f[n - 1], a[n]) ELSE f[n - 1]
  BY <1>1 DEF ChosenUpTo, A
<1>6. /\ g \in [0..B -> Seq(S)] /\ g[0] = <<>> /\ g[B] = Chosen(b, Q)
      /\ \A n \in 1..B : g[n] = IF n \in Q THEN Append(g[n - 1], b[n]) ELSE g[n - 1]
  BY <1>2 DEF ChosenUpTo, B
<1>7. /\ h \in [0..(A + B) -> Seq(S)] /\ h[0] = <<>> /\ h[A + B] = Chosen(s, R)
      /\ \A n \in 1..(A + B) : h[n] = IF n \in R THEN Append(h[n - 1], s[n]) ELSE h[n - 1]
  BY <1>3, <1>4 DEF ChosenUpTo
<1> DEFINE T == {n \in 0..A : h[n] = f[n]}
           U == {n \in 0..B : h[A + n] = f[A] \o g[n]}
<1>8. 0 \in T
  BY <1>3, <1>5, <1>7
<1>9. ASSUME NEW n \in 0..(A - 1), n \in T PROVE n + 1 \in T
  <2> DEFINE l == n + 1
  <2>1. l \in 1..A /\ l - 1 = n /\ l \in 0..A /\ l \in 1..(A + B)
    BY <1>n
  <2> HIDE DEF l
  <2>2. s[l] = a[l] /\ (l \in P <=> l \in R)
    BY <1>3, <2>1
  <2>3. h[l] = IF l \in R THEN Append(h[n], s[l]) ELSE h[n]
    BY <1>7, <2>1
  <2>4. f[l] = IF l \in P THEN Append(f[n], a[l]) ELSE f[n]
    BY <1>5, <2>1
  <2>5. h[n] = f[n]
    BY <1>9
  <2> QED
    BY <2>1, <2>2, <2>3, <2>4, <2>5 DEF l
<1>10. A \in T
  <2> HIDE DEF T
  <2>1. 0..A \subseteq T
    BY <1>3, <1>8, <1>9, BoundedInduction, Zenon
  <2> QED
    BY <1>3, <2>1
<1>11. 0 \in U
  <2> DEFINE u == f[A]
  <2>1. A + 0 = A /\ h[A] = u /\ u \in Seq(S) /\ 0 \in 0..B
    BY <1>3, <1>5, <1>10
  <2>2. g[0] = <<>>
    BY <1>6
  <2> HIDE DEF u
  <2>3. u \o <<>> = u
    BY <2>1
  <2>4. h[A + 0] = u \o g[0]
    BY <2>1, <2>2, <2>3
  <2> QED
    BY <2>1, <2>4 DEF u
<1>12. ASSUME NEW n \in 0..(B - 1), n \in U PROVE n + 1 \in U
  <2> DEFINE l == n + 1
             k == A + l
             j == A + n
  <2>1. /\ l \in 1..B /\ l - 1 = n /\ l \in 0..B /\ n \in 0..B
        /\ k \in 1..(A + B) /\ k - 1 = j
    BY <1>n
  <2> HIDE DEF l
  <2>2. s[k] = b[l] /\ (l \in Q <=> k \in R) /\ b[l] \in S
    BY <1>3, <2>1
  <2> HIDE DEF k
  <2>3. h[k] = IF k \in R THEN Append(h[j], s[k]) ELSE h[j]
    BY <1>7, <2>1
  <2>4. g[l] = IF l \in Q THEN Append(g[n], b[l]) ELSE g[n]
    BY <1>6, <2>1
  <2>5. h[j] = f[A] \o g[n] /\ f[A] \in Seq(S) /\ g[n] \in Seq(S)
    <3>1. h[j] = f[A] \o g[n]
      BY <1>12
    <3>2. f[A] \in Seq(S)
      <4>1. A \in 0..A
        BY <1>3
      <4> QED
        BY <1>5, <4>1
    <3>3. g[n] \in Seq(S)
      BY <1>6, <2>1
    <3> QED
      BY <3>1, <3>2, <3>3
  <2>6. h[k] = f[A] \o g[l]
    <3> DEFINE u == f[A]
               v == g[n]
               x == b[l]
    <3>1. u \o Append(v, x) = Append(u \o v, x)
      <4>1. u \in Seq(S) /\ v \in Seq(S) /\ x \in S
        BY <2>2, <2>5
      <4> HIDE DEF u, v, x
      <4> QED
        BY <4>1
    <3> QED
      BY <2>2, <2>3, <2>4, <2>5, <3>1
  <2> QED
    BY <2>1, <2>6 DEF l, k
<1>13. B \in U
  <2> HIDE DEF U
  <2>1. 0..B \subseteq U
    BY <1>3, <1>11, <1>12, BoundedInduction, Zenon
  <2> QED
    BY <1>3, <2>1
<1> QED
  BY <1>5, <1>6, <1>7, <1>13 DEF s

--------------------------------------------------------------------------------
(* Choosing blocks by their type.                                            *)

\* Blocks of one type, and the others, from two sequences one after the other.
LEMMA OfTypeJoined ==
  ASSUME NEW S, NEW a \in Seq(S), NEW b \in Seq(S), NEW type
  PROVE  /\ OfType(type, a \o b) = OfType(type, a) \o OfType(type, b)
         /\ OfOtherType(type, a \o b) = OfOtherType(type, a) \o OfOtherType(type, b)
<1> DEFINE s == a \o b
           A == Len(a)
           B == Len(b)
           P == {n \in DOMAIN a : a[n].type = type}
           Q == {n \in DOMAIN b : b[n].type = type}
           R == {n \in DOMAIN s : s[n].type = type}
           OtherP == {n \in DOMAIN a : a[n].type # type}
           OtherQ == {n \in DOMAIN b : b[n].type # type}
           OtherR == {n \in DOMAIN s : s[n].type # type}
<1>1. /\ A \in Nat /\ B \in Nat /\ DOMAIN a = 1..A /\ DOMAIN b = 1..B
      /\ DOMAIN s = 1..(A + B)
      /\ \A n \in 1..A : s[n] = a[n]
      /\ \A n \in 1..B : s[A + n] = b[n]
  OBVIOUS
<1>2. /\ \A n \in 1..A : n \in DOMAIN a /\ n \in DOMAIN s
      /\ \A n \in 1..B : n \in DOMAIN b /\ A + n \in DOMAIN s
  BY <1>1
<1> HIDE DEF s
<1>3. /\ \A n \in 1..Len(a) : n \in P <=> n \in R
      /\ \A n \in 1..Len(a) : n \in OtherP <=> n \in OtherR
  BY <1>1, <1>2
<1>4. /\ \A n \in 1..Len(b) : n \in Q <=> Len(a) + n \in R
      /\ \A n \in 1..Len(b) : n \in OtherQ <=> Len(a) + n \in OtherR
  BY <1>1, <1>2
<1> HIDE DEF P, Q, R, OtherP, OtherQ, OtherR
<1>5. Chosen(a \o b, R) = Chosen(a, P) \o Chosen(b, Q)
  BY <1>3, <1>4, ChosenJoined, SMTT(30)
<1>6. Chosen(a \o b, OtherR) = Chosen(a, OtherP) \o Chosen(b, OtherQ)
  BY <1>3, <1>4, ChosenJoined, SMTT(30)
<1> QED
  BY <1>5, <1>6, Zenon DEF s, P, Q, R, OtherP, OtherQ, OtherR, OfType, OfOtherType

\* Blocks that are all of the type, and blocks of which none is.
LEMMA OfTypeWhole ==
  ASSUME NEW S, NEW s \in Seq(S), NEW type, \A n \in 1..Len(s) : s[n].type = type
  PROVE  OfType(type, s) = s /\ OfOtherType(type, s) = <<>>
<1> DEFINE In == {n \in DOMAIN s : s[n].type = type}
           Out == {n \in DOMAIN s : s[n].type # type}
<1>1. \A n \in 1..Len(s) : n \in In /\ n \notin Out
  OBVIOUS
<1> HIDE DEF In, Out
<1>2. Chosen(s, In) = s
  BY <1>1, ChosenWhole, Zenon
<1>3. Chosen(s, Out) = <<>>
  BY <1>1, ChosenNone, Zenon
<1> QED
  BY <1>2, <1>3, Zenon DEF In, Out, OfType, OfOtherType

\* Where no block is of a type, all are of other types.
LEMMA OfTypeNone ==
  ASSUME NEW S, NEW s \in Seq(S), NEW type, \A n \in 1..Len(s) : s[n].type # type
  PROVE  OfType(type, s) = <<>> /\ OfOtherType(type, s) = s
<1> DEFINE In == {n \in DOMAIN s : s[n].type = type}
           Out == {n \in DOMAIN s : s[n].type # type}
<1>1. \A n \in 1..Len(s) : n \notin In /\ n \in Out
  OBVIOUS
<1> HIDE DEF In, Out
<1>2. Chosen(s, In) = <<>>
  BY <1>1, ChosenNone, Zenon
<1>3. Chosen(s, Out) = s
  BY <1>1, ChosenWhole, Zenon
<1> QED
  BY <1>2, <1>3, Zenon DEF In, Out, OfType, OfOtherType

Number == Nat \X Nat
\* A sequence that has each number of a set once.
Lists(w, A) ==
  /\ w \in Seq(Number) /\ {w[i] : i \in 1..Len(w)} = A
  /\ \A i, j \in 1..Len(w) : i # j => w[i] # w[j]

\* Lists of disjoint sets are joined to a list of both.
LEMMA ListsJoined ==
  ASSUME NEW v, NEW w, NEW A, NEW B, Lists(v, A), Lists(w, B), A \cap B = {}
  PROVE  Lists(v \o w, A \cup B)
<1> DEFINE u == v \o w
           V == Len(v)
           W == Len(w)
<1>1. v \in Seq(Number) /\ w \in Seq(Number)
  BY DEF Lists
<1>2. /\ u \in Seq(Number) /\ Len(u) = V + W /\ V \in Nat /\ W \in Nat
      /\ \A i \in 1..V : u[i] = v[i]
      /\ \A i \in 1..W : u[V + i] = w[i]
  BY <1>1
<1> HIDE DEF u
<1>3. ASSUME NEW i \in 1..(V + W)
      PROVE  i \in 1..V \/ \E k \in 1..W : i = V + k
  <2> DEFINE d == i - V
  <2>1. i <= V => i \in 1..V
    BY <1>2
  <2>2. i > V => d \in 1..W /\ i = V + d
    BY <1>2
  <2>3. i <= V \/ i > V
    BY <1>2
  <2> HIDE DEF d
  <2> QED
    BY <2>1, <2>2, <2>3
<1>4. /\ \A i \in 1..V : i \in 1..(V + W)
      /\ \A k \in 1..W : V + k \in 1..(V + W)
  BY <1>2
<1>5. /\ \A i \in 1..V : v[i] \in A
      /\ \A k \in 1..W : w[k] \in B
      /\ \A x \in A : \E i \in 1..V : x = v[i]
      /\ \A x \in B : \E k \in 1..W : x = w[k]
      /\ \A i, j \in 1..V : i # j => v[i] # v[j]
      /\ \A i, j \in 1..W : i # j => w[i] # w[j]
  BY DEF Lists
<1> HIDE DEF V, W
<1>6. \A i \in 1..(V + W) : u[i] \in A \cup B
  <2> SUFFICES ASSUME NEW i \in 1..(V + W) PROVE u[i] \in A \cup B
    OBVIOUS
  <2>1. CASE i \in 1..V
    BY <1>2, <1>5, <2>1
  <2>2. CASE \E k \in 1..W : i = V + k
    <3>1. PICK k \in 1..W : i = V + k
      BY <2>2
    <3>2. u[i] = w[k]
      BY <1>2, <3>1
    <3> QED
      BY <1>5, <3>2
  <2> QED
    BY <1>3, <2>1, <2>2
<1>7. \A x \in A \cup B : \E i \in 1..(V + W) : x = u[i]
  BY <1>2, <1>4, <1>5
<1>8. {u[i] : i \in 1..(V + W)} = A \cup B
  BY <1>6, <1>7
<1>9. ASSUME NEW i \in 1..(V + W), NEW j \in 1..(V + W), i # j PROVE u[i] # u[j]
  <2>1. CASE i \in 1..V /\ j \in 1..V
    BY <1>2, <1>5, <1>9, <2>1
  <2>2. CASE i \in 1..V /\ \E k \in 1..W : j = V + k
    <3>1. u[i] \in A /\ u[j] \in B
      BY <1>2, <1>5, <2>2, ZenonT(60)
    <3> QED
      BY <3>1
  <2>3. CASE j \in 1..V /\ \E k \in 1..W : i = V + k
    <3>1. u[j] \in A /\ u[i] \in B
      BY <1>2, <1>5, <2>3, ZenonT(60)
    <3> QED
      BY <3>1
  <2>4. CASE (\E k \in 1..W : i = V + k) /\ (\E k \in 1..W : j = V + k)
    <3>1. PICK k \in 1..W : i = V + k
      BY <2>4
    <3>2. PICK l \in 1..W : j = V + l
      BY <2>4
    <3>3. k # l
      BY <1>9, <3>1, <3>2
    <3>4. u[i] = w[k] /\ u[j] = w[l]
      BY <1>2, <3>1, <3>2
    <3> QED
      BY <1>5, <3>3, <3>4
  <2> QED
    BY <1>3, <2>1, <2>2, <2>3, <2>4
<1>10. Lists(u, A \cup B)
  BY <1>2, <1>8, <1>9 DEF Lists
<1> QED
  BY <1>10 DEF u

\* The types and the blocks of a conversation.
Types == {"text", "image", "thinking", "tool_use", "tool_result"}
           \cup (UNION {ToSet(types) : types \in AnthropicAnswers})
BlockSet == [type : Types, n : Number, input : {"value", "text"}]
Distinct(blocks) ==
  \A i, j \in 1..Len(blocks) : i # j => blocks[i].n # blocks[j].n
Of(type, blocks) == {blocks[i].n : i \in {i \in 1..Len(blocks) : blocks[i].type = type}}

\* The numbers of blocks.
LEMMA NumbersOfBlocks ==
  ASSUME NEW s \in Seq(BlockSet)
  PROVE  /\ Numbers(s) \in Seq(Number) /\ Len(Numbers(s)) = Len(s)
         /\ \A i \in 1..Len(s) : Numbers(s)[i] = s[i].n
         /\ Numbers(Flattened(s)) = Numbers(s)
<1>1. \A i \in 1..Len(s) : s[i].n \in Number
  <2>1. \A i \in 1..Len(s) : s[i] \in BlockSet
    OBVIOUS
  <2>2. \A b \in BlockSet : b.n \in Number
    BY DEF BlockSet
  <2> QED
    BY <2>1, <2>2
<1>2. Numbers(s) = [i \in 1..Len(s) |-> s[i].n]
  BY DEF Numbers
<1>3. Flattened(s) = [i \in 1..Len(s) |-> Piece(s[i])]
  BY DEF Flattened
<1>4. \A i \in 1..Len(s) : Flattened(s)[i].n = s[i].n
  BY <1>3 DEF Piece
<1>5. DOMAIN Flattened(s) = 1..Len(s)
  BY <1>3
<1>6. Numbers(Flattened(s)) = [i \in 1..Len(s) |-> s[i].n]
  BY <1>4, <1>5 DEF Numbers
<1> QED
  BY <1>1, <1>2, <1>6

\* The blocks of a type are listed by the choice of that type.
LEMMA ListsOfType ==
  ASSUME NEW s \in Seq(BlockSet), Distinct(s), NEW type
  PROVE  /\ OfType(type, s) \in Seq(BlockSet)
         /\ Lists(Numbers(OfType(type, s)), Of(type, s))
<1> DEFINE P == {n \in DOMAIN s : s[n].type = type}
           r == Chosen(s, P)
           w == Numbers(r)
<1>1. r \in Seq(BlockSet) /\ Choice(r, s, P)
  <2> HIDE DEF P
  <2> QED
    BY ChosenElements
<1>2. \A n \in 1..Len(s) : n \in P <=> s[n].type = type
  OBVIOUS
<1> HIDE DEF P, r
<1>3. /\ w \in Seq(Number) /\ Len(w) = Len(r)
      /\ \A i \in 1..Len(r) : w[i] = r[i].n
  BY <1>1, NumbersOfBlocks
<1>4. /\ \A i \in 1..Len(r) : \E n \in 1..Len(s) : n \in P /\ r[i] = s[n]
      /\ \A n \in 1..Len(s) : n \in P => \E i \in 1..Len(r) : r[i] = s[n]
  BY <1>1 DEF Choice
<1>5. \A i, j \in 1..Len(r) : i # j => r[i] # r[j]
  <2>1. \A m, n \in 1..Len(s) : m # n => s[m] # s[n]
    BY DEF Distinct
  <2> QED
    BY <1>1, <2>1 DEF Choice
<1> HIDE DEF w
<1>6. \A i, j \in 1..Len(w) : i # j => w[i] # w[j]
  <2> SUFFICES ASSUME NEW i \in 1..Len(r), NEW j \in 1..Len(r), i # j PROVE w[i] # w[j]
    BY <1>3
  <2>1. PICK m \in 1..Len(s) : r[i] = s[m]
    BY <1>4
  <2>2. PICK n \in 1..Len(s) : r[j] = s[n]
    BY <1>4
  <2>3. m # n
    BY <1>5, <2>1, <2>2
  <2>4. s[m].n # s[n].n
    BY <2>3 DEF Distinct
  <2> QED
    BY <1>3, <2>1, <2>2, <2>4
<1>7. ASSUME NEW i \in 1..Len(w) PROVE w[i] \in Of(type, s)
  <2>1. PICK n \in 1..Len(s) : n \in P /\ r[i] = s[n]
    BY <1>3, <1>4
  <2>2. w[i] = s[n].n /\ s[n].type = type
    BY <1>2, <1>3, <2>1
  <2> QED
    BY <2>2 DEF Of
<1>8. ASSUME NEW x \in Of(type, s) PROVE \E i \in 1..Len(w) : w[i] = x
  <2>1. PICK n \in 1..Len(s) : s[n].type = type /\ x = s[n].n
    BY DEF Of
  <2>2. PICK i \in 1..Len(r) : r[i] = s[n]
    BY <1>2, <1>4, <2>1
  <2> QED
    BY <1>3, <2>1, <2>2
<1>9. {w[i] : i \in 1..Len(w)} = Of(type, s)
  BY <1>7, <1>8
<1>10. Lists(w, Of(type, s))
  BY <1>3, <1>6, <1>9 DEF Lists
<1> QED
  BY <1>1, <1>10 DEF OfType, P, r, w

--------------------------------------------------------------------------------
(* The messages of a translated request.                                     *)

\* What becomes of an assistant's message.
LEMMA AssistantMessage ==
  ASSUME NEW c \in Seq(BlockSet), Distinct(c)
  PROVE  /\ FromAssistant(c).role = "assistant" /\ FromAssistant(c).tool_call_id = NoCall
         /\ FromAssistant(c).calls = Numbers(OfType("tool_use", c))
         /\ Lists(Words(FromAssistant(c)), Kept([role |-> "assistant", content |-> c]))
<1> DEFINE x == FromAssistant(c)
           texts == OfType("text", c)
           thoughts == Numbers(OfType("thinking", c))
           calls == Numbers(OfType("tool_use", c))
           A == Of("thinking", c)
           B == Of("text", c)
           C == Of("tool_use", c)
           K == Kept([role |-> "assistant", content |-> c])
<1>1. /\ x.role = "assistant" /\ x.content = Flattened(texts)
      /\ x.reasoning = thoughts /\ x.calls = calls /\ x.tool_call_id = NoCall
  BY DEF FromAssistant, OpenAIMessage
<1>2. Lists(thoughts, A) /\ Lists(Numbers(texts), B) /\ Lists(calls, C)
  BY ListsOfType
<1>3. Numbers(Flattened(texts)) = Numbers(texts)
  BY ListsOfType, NumbersOfBlocks
<1>4. Words(x) = (thoughts \o Numbers(texts)) \o calls
  <2> HIDE DEF x, texts, thoughts, calls
  <2> QED
    BY <1>1, <1>3 DEF Words
<1>5. A \cap B = {} /\ (A \cup B) \cap C = {}
  BY DEF Of, Distinct
<1>6. K = (A \cup B) \cup C
  <2>1. ToSet(c) = {c[i] : i \in 1..Len(c)}
    BY DEF ToSet
  <2>2. K = {b.n : b \in {b \in ToSet(c) : b.type \in {"text", "thinking", "tool_use"}}}
    BY DEF Kept
  <2> QED
    BY <2>1, <2>2 DEF Of
<1> HIDE DEF x, texts, thoughts, calls, A, B, C, K
<1>7. Lists(thoughts \o Numbers(texts), A \cup B)
  BY <1>2, <1>5, ListsJoined
<1>8. Lists(Words(x), K)
  BY <1>2, <1>4, <1>5, <1>6, <1>7, ListsJoined
<1>9. x.role = "assistant" /\ x.tool_call_id = NoCall /\ x.calls = calls
  BY <1>1
<1> QED
  BY <1>8, <1>9 DEF x, calls, K

\* A user's message: results of the calls, in the order in which they were made or
\* in the reverse one, and blocks of other types.
UserContent(c, k, calls) ==
  \E types \in UserBlocks, r \in {calls, Reverse(calls)} :
    /\ types # <<>> \/ r # <<>>
    /\ c = Results(r) \o [i \in DOMAIN types |-> Block(types[i], <<k, i>>)]

ResultsOf(c) == Numbers(OfType("tool_result", c))
RestOf(c) == OfOtherType("tool_result", c)
Lead(c) == IF RestOf(c) = <<>> THEN 0 ELSE 1

Answers(c, calls) ==
  /\ ResultsOf(c) \in Seq(Number) /\ Len(ResultsOf(c)) = Len(calls)
  /\ OfType("tool_result", c) \in Seq(BlockSet)
  /\ {ResultsOf(c)[i] : i \in 1..Len(calls)} = {calls[i] : i \in 1..Len(calls)}
Adds(c, k) ==
  /\ RestOf(c) \in Seq(BlockSet)
  /\ Kept([role |-> "user", content |-> c]) = {RestOf(c)[i].n : i \in 1..Len(RestOf(c))}
  /\ \A i \in 1..Len(RestOf(c)) : RestOf(c)[i].n = <<k, i>>
  /\ RestOf(c) = <<>> => ResultsOf(c) # <<>>

\* The client may answer in the reverse order.
LEMMA ReversedCalls ==
  ASSUME NEW calls \in Seq(Number)
  PROVE  /\ Reverse(calls) \in Seq(Number) /\ Len(Reverse(calls)) = Len(calls)
         /\ {Reverse(calls)[i] : i \in 1..Len(calls)} = {calls[i] : i \in 1..Len(calls)}
<1> DEFINE r == Reverse(calls)
           L == Len(calls)
<1>1. L \in Nat /\ \A i \in 1..L : calls[i] \in Number
  OBVIOUS
<1>2. r = [i \in 1..L |-> calls[(L - i) + 1]]
  BY DEF Reverse
<1>3. \A i \in 1..L : (L - i) + 1 \in 1..L /\ L - ((L - i) + 1) + 1 = i
  BY <1>1
<1>4. \A i \in 1..L : r[i] = calls[(L - i) + 1]
  BY <1>2
<1>5. r \in Seq(Number) /\ Len(r) = L
  BY <1>1, <1>2, <1>3
<1> HIDE DEF r, L
<1>6. \A i \in 1..L : \E j \in 1..L : r[i] = calls[j]
  BY <1>3, <1>4
<1>7. ASSUME NEW i \in 1..L PROVE \E j \in 1..L : r[j] = calls[i]
  <2> DEFINE j == (L - i) + 1
  <2>1. j \in 1..L /\ (L - j) + 1 = i
    BY <1>3
  <2> HIDE DEF j
  <2>2. r[j] = calls[i]
    BY <1>4, <2>1
  <2> QED
    BY <2>1, <2>2
<1>8. {r[i] : i \in 1..L} = {calls[i] : i \in 1..L}
  <2> DEFINE A == {r[i] : i \in 1..L}
             B == {calls[i] : i \in 1..L}
  <2>1. \A i \in 1..L : r[i] \in B
    BY <1>6
  <2>2. \A i \in 1..L : calls[i] \in A
    BY <1>7
  <2>3. A \subseteq B
    BY <2>1
  <2>4. B \subseteq A
    BY <2>2
  <2> QED
    BY <2>3, <2>4
<1> QED
  BY <1>5, <1>8 DEF r, L

\* A user's message answers the open calls and adds the user's own words.
LEMMA UserMessage ==
  ASSUME NEW c, NEW k \in Nat, NEW calls \in Seq(Number), UserContent(c, k, calls)
  PROVE  c \in Seq(BlockSet) /\ Answers(c, calls) /\ Adds(c, k)
<1>1. PICK types \in UserBlocks, r \in {calls, Reverse(calls)} :
        /\ types # <<>> \/ r # <<>>
        /\ c = Results(r) \o [i \in DOMAIN types |-> Block(types[i], <<k, i>>)]
  BY DEF UserContent
<1> DEFINE a == Results(r)
           b == [i \in DOMAIN types |-> Block(types[i], <<k, i>>)]
<1>2. /\ r \in Seq(Number) /\ Len(r) = Len(calls)
      /\ {r[i] : i \in 1..Len(calls)} = {calls[i] : i \in 1..Len(calls)}
  BY ReversedCalls
<1>3. /\ a \in Seq(BlockSet) /\ Len(a) = Len(r)
      /\ \A i \in 1..Len(r) : a[i].type = "tool_result" /\ a[i].n = r[i]
  <2>1. \A i \in 1..Len(r) : r[i] \in Number
    BY <1>2
  <2>2. "tool_result" \in Types
    BY DEF Types
  <2>3. \A x \in Number : /\ Block("tool_result", x) \in BlockSet
                          /\ Block("tool_result", x).type = "tool_result"
                          /\ Block("tool_result", x).n = x
    BY <2>2 DEF Block, BlockSet
  <2>4. a = [i \in 1..Len(r) |-> Block("tool_result", r[i])]
    BY <1>2 DEF Results
  <2>5. Len(r) \in Nat
    BY <1>2
  <2> HIDE DEF a
  <2> QED
    BY <2>1, <2>3, <2>4, <2>5
<1>4. /\ DOMAIN types = 1..Len(types) /\ Len(types) \in Nat
      /\ \A i \in 1..Len(types) : types[i] \in {"text", "image"}
      /\ types = <<>> <=> Len(types) = 0
  BY DEF UserBlocks
<1>5. /\ b \in Seq(BlockSet) /\ Len(b) = Len(types)
      /\ \A i \in 1..Len(b) : b[i].type # "tool_result" /\ b[i].n = <<k, i>>
  <2>1. {"text", "image"} \subseteq Types /\ \A i \in Nat : <<k, i>> \in Number
    BY DEF Types, Number
  <2>2. \A i \in 1..Len(types) : /\ Block(types[i], <<k, i>>) \in BlockSet
                                 /\ Block(types[i], <<k, i>>).type # "tool_result"
                                 /\ Block(types[i], <<k, i>>).n = <<k, i>>
    BY <1>4, <2>1 DEF Block, BlockSet
  <2>3. b = [i \in 1..Len(types) |-> Block(types[i], <<k, i>>)]
    BY <1>4
  <2> HIDE DEF b
  <2> QED
    BY <1>4, <2>2, <2>3
<1> HIDE DEF a, b
<1>6. c = a \o b
  BY <1>1 DEF a, b
<1>7. c \in Seq(BlockSet)
  BY <1>3, <1>5, <1>6
<1>8. OfType("tool_result", c) = a /\ OfOtherType("tool_result", c) = b
  <2> DEFINE t == "tool_result"
  <2>1. /\ \A i \in 1..Len(a) : a[i].type = t
        /\ \A i \in 1..Len(b) : b[i].type # t
    BY <1>3, <1>5
  <2> HIDE DEF t
  <2>2. /\ OfType(t, a) = a /\ OfOtherType(t, a) = <<>>
        /\ OfType(t, b) = <<>> /\ OfOtherType(t, b) = b
    BY <1>3, <1>5, <2>1, OfTypeWhole, OfTypeNone
  <2>3. /\ OfType(t, c) = OfType(t, a) \o OfType(t, b)
        /\ OfOtherType(t, c) = OfOtherType(t, a) \o OfOtherType(t, b)
    BY <1>3, <1>5, <1>6, OfTypeJoined, ZenonT(60)
  <2>4. a \o <<>> = a /\ <<>> \o b = b
    BY <1>3, <1>5
  <2>5. OfType(t, c) = a /\ OfOtherType(t, c) = b
    BY <2>2, <2>3, <2>4
  <2> QED
    BY <2>5 DEF t
<1>9. /\ Numbers(a) \in Seq(Number) /\ Len(Numbers(a)) = Len(calls)
      /\ \A i \in 1..Len(calls) : Numbers(a)[i] = r[i]
  BY <1>2, <1>3, NumbersOfBlocks
<1>10. Answers(c, calls)
  <2> DEFINE w == Numbers(a)
  <2>1. {w[i] : i \in 1..Len(calls)} = {r[i] : i \in 1..Len(calls)}
    BY <1>9
  <2>2. /\ w \in Seq(Number) /\ Len(w) = Len(calls)
        /\ {w[i] : i \in 1..Len(calls)} = {calls[i] : i \in 1..Len(calls)}
    BY <1>2, <1>9, <2>1
  <2>3. ResultsOf(c) = w
    BY <1>8 DEF ResultsOf
  <2> HIDE DEF w
  <2> QED
    BY <1>3, <1>8, <2>2, <2>3 DEF Answers
<1>11. Kept([role |-> "user", content |-> c]) = {b[i].n : i \in 1..Len(b)}
  <2>1. ToSet(c) = {a[i] : i \in 1..Len(a)} \cup {b[i] : i \in 1..Len(b)}
    <3> DEFINE A == Len(a)
               B == Len(b)
    <3>a. a \in Seq(BlockSet) /\ b \in Seq(BlockSet)
      BY <1>3, <1>5
    <3>1. /\ A \in Nat /\ B \in Nat /\ DOMAIN c = 1..(A + B)
          /\ \A i \in 1..A : c[i] = a[i]
          /\ \A i \in 1..B : c[A + i] = b[i]
      BY <1>6, <3>a
    <3>n. A \in Nat /\ B \in Nat
      BY <3>1
    <3> HIDE DEF A, B
    <3>2. ASSUME NEW i \in 1..(A + B)
          PROVE  c[i] \in {a[j] : j \in 1..A} \cup {b[j] : j \in 1..B}
      <4>1. CASE i <= A
        <5>1. i \in 1..A
          BY <3>n, <4>1
        <5> QED
          BY <3>1, <5>1
      <4>2. CASE i > A
        <5> DEFINE j == i - A
        <5>1. j \in 1..B /\ A + j = i
          BY <3>n, <4>2
        <5> HIDE DEF j
        <5>2. c[i] = b[j]
          BY <3>1, <5>1
        <5> QED
          BY <5>1, <5>2
      <4> QED
        BY <3>n, <4>1, <4>2
    <3>3. /\ \A j \in 1..A : j \in 1..(A + B)
          /\ \A j \in 1..B : A + j \in 1..(A + B)
      BY <3>n
    <3>4. /\ \A j \in 1..A : a[j] \in ToSet(c)
          /\ \A j \in 1..B : b[j] \in ToSet(c)
      BY <3>1, <3>3 DEF ToSet
    <3>5. ToSet(c) = {c[i] : i \in 1..(A + B)}
      BY <3>1 DEF ToSet
    <3> QED
      BY <3>2, <3>4, <3>5 DEF A, B
  <2>2. Kept([role |-> "user", content |-> c])
          = {x.n : x \in {x \in ToSet(c) : x.type # "tool_result"}}
    BY DEF Kept
  <2>3. {x \in ToSet(c) : x.type # "tool_result"} = {b[i] : i \in 1..Len(b)}
    BY <1>3, <1>5, <2>1
  <2> QED
    BY <2>2, <2>3
<1>12. b = <<>> => Numbers(a) # <<>>
  <2>1. Len(types) = 0 => Len(r) # 0
    BY <1>1, <1>2, <1>4
  <2>2. b = <<>> => Len(b) = 0
    BY <1>5
  <2>3. Numbers(a) = <<>> => Len(Numbers(a)) = 0
    OBVIOUS
  <2> QED
    BY <1>2, <1>5, <1>9, <2>1, <2>2, <2>3
<1>13. Adds(c, k)
  BY <1>5, <1>8, <1>11, <1>12 DEF Adds, ResultsOf, RestOf
<1> QED
  BY <1>7, <1>10, <1>13

\* What becomes of a user's message.
FromUserAt(s, c) ==
  /\ Len(s) = Lead(c) + Len(ResultsOf(c))
  /\ Lead(c) = 1 => s[1] = OpenAIMessage("user", Flattened(RestOf(c)))
  /\ \A i \in 1..Len(ResultsOf(c)) :
       s[Lead(c) + i] = ToolMessage(OfType("tool_result", c)[i])

\* The messages of translated requests.
MessageSet ==
  {FromAssistant(c) : c \in Seq(BlockSet)}
    \cup {OpenAIMessage(role, Flattened(c)) : role \in {"system", "user"},
                                             c \in Seq(BlockSet)}
    \cup {ToolMessage(b) : b \in BlockSet}

\* It becomes a message for the words, if any, and one for each result.
LEMMA UserTranslated ==
  ASSUME NEW c, NEW k \in Nat, NEW calls \in Seq(Number),
         Answers(c, calls), Adds(c, k)
  PROVE  FromUserAt(FromUser(c), c) /\ FromUser(c) \in Seq(MessageSet)
<1> DEFINE results == OfType("tool_result", c)
           rest == OfOtherType("tool_result", c)
           head == IF rest = <<>> THEN <<>> ELSE <<OpenAIMessage("user", Flattened(rest))>>
           tail == [i \in DOMAIN results |-> ToolMessage(results[i])]
<1>1. /\ results \in Seq(BlockSet) /\ ResultsOf(c) = Numbers(results) /\ RestOf(c) = rest
      /\ rest = <<>> => Numbers(results) # <<>>
      /\ rest \in Seq(BlockSet)
  BY DEF Answers, Adds, ResultsOf, RestOf
<1>2. Len(Numbers(results)) = Len(results) /\ (results = <<>> => Numbers(results) = <<>>)
  BY <1>1, NumbersOfBlocks
<1>3. FromUser(c) = head \o tail
  <2>1. FromUser(c) = (IF results # <<>> /\ rest = <<>> THEN <<>>
                       ELSE <<OpenAIMessage("user", Flattened(rest))>>) \o tail
    BY DEF FromUser
  <2>2. rest = <<>> => results # <<>>
    BY <1>1, <1>2
  <2> QED
    BY <2>1, <2>2
<1>4. /\ tail = [i \in 1..Len(results) |-> ToolMessage(results[i])]
      /\ Len(results) \in Nat
  BY <1>1
<1> DEFINE S == MessageSet
<1>5. /\ tail \in Seq(S) /\ Len(tail) = Len(results)
      /\ \A i \in 1..Len(results) : tail[i] = ToolMessage(results[i])
  <2>1. \A i \in 1..Len(results) : results[i] \in BlockSet
    BY <1>1
  <2>2. \A b \in BlockSet : ToolMessage(b) \in S
    BY DEF MessageSet
  <2> HIDE DEF S
  <2> QED
    BY <1>4, <2>1, <2>2
<1>6. /\ head \in Seq(S) /\ Len(head) = Lead(c)
      /\ Lead(c) = 1 => head[1] = OpenAIMessage("user", Flattened(rest))
  <2>1. OpenAIMessage("user", Flattened(rest)) \in S
    BY <1>1 DEF MessageSet
  <2> HIDE DEF S
  <2> QED
    BY <1>1, <2>1 DEF Lead
<1> HIDE DEF S, head, tail, results, rest
<1>7. /\ Len(head \o tail) = Lead(c) + Len(results)
      /\ \A i \in 1..Lead(c) : (head \o tail)[i] = head[i]
      /\ \A i \in 1..Len(results) : (head \o tail)[Lead(c) + i] = tail[i]
  <2>1. /\ Len(head \o tail) = Len(head) + Len(tail)
        /\ \A i \in 1..Len(head) : (head \o tail)[i] = head[i]
        /\ \A i \in 1..Len(tail) : (head \o tail)[Len(head) + i] = tail[i]
    <3>1. head \in Seq(S) /\ tail \in Seq(S)
      BY <1>5, <1>6
    <3> QED
      BY <3>1
  <2>2. Len(head) = Lead(c) /\ Len(tail) = Len(results)
    BY <1>5, <1>6
  <2> QED
    BY <2>1, <2>2
<1>8. Lead(c) = 1 => 1 \in 1..Lead(c)
  BY <1>6
<1>9. FromUserAt(FromUser(c), c)
  <2> DEFINE s == head \o tail
  <2>1. s = FromUser(c) /\ Len(ResultsOf(c)) = Len(results)
    BY <1>1, <1>2, <1>3
  <2>2. /\ Len(s) = Lead(c) + Len(results)
        /\ Lead(c) = 1 => s[1] = OpenAIMessage("user", Flattened(rest))
        /\ \A i \in 1..Len(results) : s[Lead(c) + i] = ToolMessage(results[i])
    BY <1>5, <1>6, <1>7, <1>8
  <2> HIDE DEF s
  <2> QED
    BY <1>1, <2>1, <2>2 DEF FromUserAt, results
<1>10. FromUser(c) \in Seq(S)
  <2>1. head \in Seq(S) /\ tail \in Seq(S)
    BY <1>5, <1>6
  <2> QED
    BY <1>3, <2>1
<1> QED
  BY <1>9, <1>10 DEF S

--------------------------------------------------------------------------------
(* A conversation, and the request it is translated to.                      *)

CallsBefore(m, k) ==
  IF k = 1 THEN <<>> ELSE Numbers(OfType("tool_use", m[k - 1].content))
AssistantContent(c, k) ==
  c \in Seq(BlockSet) /\ Distinct(c) /\ \A i \in 1..Len(c) : c[i].n[1] = k

\* A user and an assistant take turns, the user first, who answers every call.
Convo(m) ==
  /\ m \in Seq([role : {"user", "assistant"}, content : Seq(BlockSet)])
  /\ \A k \in 1..Len(m) : m[k].role = "assistant" =>
       k > 1 /\ m[k - 1].role = "user" /\ AssistantContent(m[k].content, k)
  /\ \A k \in 1..Len(m) : m[k].role = "user" =>
       /\ k > 1 => m[k - 1].role = "assistant"
       /\ UserContent(m[k].content, k, CallsBefore(m, k))

AssistantAt(m, k) ==
  /\ m[k].role = "assistant" /\ k > 1 /\ m[k - 1].role = "user"
  /\ AssistantContent(m[k].content, k)
UserAt(m, k) ==
  /\ m[k].role = "user" /\ (k > 1 => m[k - 1].role = "assistant")
  /\ CallsBefore(m, k) \in Seq(Number)
  /\ \A i \in 1..Len(CallsBefore(m, k)) : k > 1 /\ CallsBefore(m, k)[i][1] = k - 1
  /\ Answers(m[k].content, CallsBefore(m, k)) /\ Adds(m[k].content, k)

\* The calls of an assistant's message are numbered by it.
LEMMA CallsOfAssistant ==
  ASSUME NEW c, NEW k, AssistantContent(c, k)
  PROVE  /\ Numbers(OfType("tool_use", c)) \in Seq(Number)
         /\ \A i \in 1..Len(Numbers(OfType("tool_use", c))) :
              Numbers(OfType("tool_use", c))[i][1] = k
<1> DEFINE w == Numbers(OfType("tool_use", c))
<1>1. c \in Seq(BlockSet) /\ Distinct(c) /\ \A i \in 1..Len(c) : c[i].n[1] = k
  BY DEF AssistantContent
<1>2. Lists(w, Of("tool_use", c))
  BY <1>1, ListsOfType
<1> HIDE DEF w
<1>3. w \in Seq(Number) /\ \A i \in 1..Len(w) : w[i] \in Of("tool_use", c)
  BY <1>2 DEF Lists
<1>4. \A x \in Of("tool_use", c) : x[1] = k
  BY <1>1 DEF Of
<1>5. w \in Seq(Number) /\ \A i \in 1..Len(w) : w[i][1] = k
  BY <1>3, <1>4
<1> QED
  BY <1>5 DEF w

\* Each message of a conversation is of one of the two.
LEMMA Turns ==
  ASSUME NEW m, Convo(m), NEW k \in 1..Len(m)
  PROVE  AssistantAt(m, k) \/ UserAt(m, k)
<1>1. /\ m \in Seq([role : {"user", "assistant"}, content : Seq(BlockSet)])
      /\ k \in Nat /\ k > 0 /\ Len(m) \in Nat
  BY DEF Convo
<1>2. m[k].role \in {"user", "assistant"}
  <2> DEFINE R == [role : {"user", "assistant"}, content : Seq(BlockSet)]
  <2>1. m \in Seq(R) /\ \A x \in R : x.role \in {"user", "assistant"}
    BY <1>1
  <2> HIDE DEF R
  <2>2. m[k] \in R
    BY <2>1
  <2> QED
    BY <2>1, <2>2
<1>3. CASE m[k].role = "assistant"
  BY <1>3 DEF Convo, AssistantAt
<1>4. CASE m[k].role = "user"
  <2>1. (k > 1 => m[k - 1].role = "assistant")
        /\ UserContent(m[k].content, k, CallsBefore(m, k))
    BY <1>4 DEF Convo
  <2>2. /\ CallsBefore(m, k) \in Seq(Number)
        /\ \A i \in 1..Len(CallsBefore(m, k)) : k > 1 /\ CallsBefore(m, k)[i][1] = k - 1
    <3>1. CASE k = 1
      <4>1. CallsBefore(m, k) = <<>>
        BY <3>1 DEF CallsBefore
      <4> QED
        BY <4>1
    <3>2. CASE k > 1
      <4> DEFINE l == k - 1
      <4>1. l \in 1..Len(m) /\ m[l].role = "assistant"
        BY <1>1, <2>1, <3>2
      <4>2. CallsBefore(m, k) = Numbers(OfType("tool_use", m[l].content))
        BY <1>1, <3>2 DEF CallsBefore
      <4> HIDE DEF l
      <4>3. AssistantContent(m[l].content, l)
        BY <4>1 DEF Convo
      <4>4. /\ CallsBefore(m, k) \in Seq(Number)
            /\ \A i \in 1..Len(CallsBefore(m, k)) : CallsBefore(m, k)[i][1] = l
        BY <4>2, <4>3, CallsOfAssistant
      <4> QED
        BY <3>2, <4>4 DEF l
    <3> QED
      BY <1>1, <3>1, <3>2
  <2>3. Answers(m[k].content, CallsBefore(m, k)) /\ Adds(m[k].content, k)
    BY <1>1, <2>1, <2>2, UserMessage
  <2> QED
    BY <1>4, <2>1, <2>2, <2>3 DEF UserAt
<1> QED
  BY <1>2, <1>3, <1>4

\* Where everything is in a translated request.
Shape(s, m, off) ==
  /\ off \in [0..Len(m) -> Nat] /\ Len(s) = off[Len(m)]
  /\ s \in Seq(MessageSet)
  /\ off[0] = IF System = <<>> THEN 0 ELSE 1
  /\ System # <<>> => s[1] = OpenAIMessage("system", Flattened(System))
  /\ \A k, l \in 0..Len(m) : k <= l => off[k] <= off[l]
  /\ \A j \in 1..Len(s) : j > off[0] => \E k \in 1..Len(m) : j > off[k - 1] /\ j <= off[k]
  /\ \A k \in 1..Len(m) : AssistantAt(m, k) =>
       off[k] = off[k - 1] + 1 /\ s[off[k]] = FromAssistant(m[k].content)
UserShape(s, m, off, k) ==
  LET c == m[k].content
  IN  /\ off[k] = off[k - 1] + Lead(c) + Len(ResultsOf(c))
      /\ Lead(c) = 1 => s[off[k - 1] + 1] = OpenAIMessage("user", Flattened(RestOf(c)))
      /\ \A i \in 1..Len(ResultsOf(c)) :
           s[off[k - 1] + Lead(c) + i] = ToolMessage(OfType("tool_result", c)[i])

\* The system prompt is made of blocks.
LEMMA SystemBlocks == System \in Seq(BlockSet)
<1>1. "text" \in Types /\ {0} \X Nat \subseteq Number
  BY DEF Types, Number
<1> DEFINE R == [type : {"text"}, n : {0} \X Nat, input : {"value"}]
<1>2. \A b \in R : b \in BlockSet
  BY <1>1 DEF BlockSet
<1>3. System \in Seq(R)
  BY SystemAssumption
<1> HIDE DEF R
<1> QED
  BY <1>2, <1>3

\* A translated request has, one after the other, the messages for each message.
LEMMA Shaped ==
  ASSUME NEW m, Convo(m)
  PROVE  \E off : /\ Shape(TransformRequest(System, m), m, off)
                  /\ \A k \in 1..Len(m) : UserAt(m, k) =>
                       UserShape(TransformRequest(System, m), m, off, k)
<1> DEFINE a == IF System = <<>> THEN <<>> ELSE <<OpenAIMessage("system", Flattened(System))>>
           q == [i \in DOMAIN m |-> IF m[i].role = "assistant"
                                    THEN <<FromAssistant(m[i].content)>>
                                    ELSE FromUser(m[i].content)]
           s == TransformRequest(System, m)
           N == Len(m)
<1>1. s = a \o FlattenSeq(q)
  BY DEF TransformRequest
<1>2. System \in Seq(BlockSet)
  BY SystemBlocks
<1>3. a \in Seq(MessageSet) /\ Len(a) = IF System = <<>> THEN 0 ELSE 1
  <2>1. OpenAIMessage("system", Flattened(System)) \in MessageSet
    BY <1>2 DEF MessageSet
  <2> QED
    BY <2>1
<1>4. m \in Seq([role : {"user", "assistant"}, content : Seq(BlockSet)])
  BY DEF Convo
<1>5. q = [i \in 1..N |-> IF m[i].role = "assistant" THEN <<FromAssistant(m[i].content)>>
                          ELSE FromUser(m[i].content)] /\ N \in Nat
  BY <1>4
<1>6. ASSUME NEW k \in 1..N
      PROVE  /\ q[k] \in Seq(MessageSet)
             /\ AssistantAt(m, k) => q[k] = <<FromAssistant(m[k].content)>>
             /\ UserAt(m, k) => q[k] = FromUser(m[k].content)
                                /\ FromUserAt(q[k], m[k].content)
  <2>1. q[k] = IF m[k].role = "assistant" THEN <<FromAssistant(m[k].content)>>
               ELSE FromUser(m[k].content)
    BY <1>5
  <2>2. CASE AssistantAt(m, k)
    <3>1. m[k].role = "assistant" /\ m[k].content \in Seq(BlockSet)
      BY <2>2 DEF AssistantAt, AssistantContent
    <3>2. FromAssistant(m[k].content) \in MessageSet
      BY <3>1 DEF MessageSet
    <3>3. ~UserAt(m, k)
      BY <3>1 DEF UserAt
    <3> HIDE DEF q
    <3> QED
      BY <2>1, <3>1, <3>2, <3>3
  <2>3. CASE UserAt(m, k)
    <3>1. m[k].role = "user"
      BY <2>3 DEF UserAt
    <3>2. FromUserAt(FromUser(m[k].content), m[k].content)
          /\ FromUser(m[k].content) \in Seq(MessageSet)
      BY <2>3, UserTranslated DEF UserAt
    <3>3. ~AssistantAt(m, k)
      BY <3>1 DEF AssistantAt
    <3> HIDE DEF q
    <3> QED
      BY <2>1, <3>1, <3>2, <3>3
  <2> QED
    BY <2>2, <2>3, Turns
<1> HIDE DEF a, s
<1>7. q \in Seq(Seq(MessageSet)) /\ Len(q) = N
  <2>1. \A k \in 1..N : q[k] \in Seq(MessageSet)
    BY <1>6
  <2> QED
    BY <1>5, <2>1
<1> HIDE DEF q
<1>8. s \in Seq(MessageSet) /\ \E off : Placed(s, a, q, off)
  BY <1>1, <1>3, <1>7, PrefixedPlaces
<1>9. PICK off : Placed(s, a, q, off)
  BY <1>8
<1> HIDE DEF N
<1>10. /\ off \in [0..N -> Nat] /\ off[0] = Len(a) /\ Len(s) = off[N]
       /\ \A i \in 1..Len(a) : s[i] = a[i]
       /\ \A k \in 1..N : off[k] = off[k - 1] + Len(q[k])
       /\ \A k \in 1..N : \A i \in 1..Len(q[k]) : s[off[k - 1] + i] = q[k][i]
       /\ \A k, l \in 0..N : k <= l => off[k] <= off[l]
       /\ \A j \in 1..Len(s) : j > off[0] => \E k \in 1..N : j > off[k - 1] /\ j <= off[k]
  BY <1>7, <1>9 DEF Placed
<1>11. System # <<>> => s[1] = OpenAIMessage("system", Flattened(System))
  <2>1. System # <<>> => 1 \in 1..Len(a) /\ a[1] = OpenAIMessage("system", Flattened(System))
    BY <1>3 DEF a
  <2> QED
    BY <1>10, <2>1
<1>12. ASSUME NEW k \in 1..N, AssistantAt(m, k)
       PROVE  off[k] = off[k - 1] + 1 /\ s[off[k]] = FromAssistant(m[k].content)
  <2> DEFINE x == FromAssistant(m[k].content)
  <2>1. q[k] = <<x>>
    BY <1>6, <1>12
  <2> HIDE DEF x
  <2>2. Len(q[k]) = 1 /\ 1 \in 1..Len(q[k]) /\ q[k][1] = x
    BY <2>1
  <2>3. off[k] = off[k - 1] + 1 /\ s[off[k - 1] + 1] = x
    BY <1>10, <2>2
  <2> QED
    BY <2>3 DEF x
<1>13. ASSUME NEW k \in 1..N, UserAt(m, k) PROVE UserShape(s, m, off, k)
  <2> DEFINE c == m[k].content
             L == Lead(c)
             R == Len(ResultsOf(c))
             b == off[k - 1]
  <2>1. FromUserAt(q[k], c)
    BY <1>6, <1>13
  <2>2. /\ Len(q[k]) = L + R
        /\ L = 1 => q[k][1] = OpenAIMessage("user", Flattened(RestOf(c)))
        /\ \A i \in 1..R : q[k][L + i] = ToolMessage(OfType("tool_result", c)[i])
    BY <2>1 DEF FromUserAt
  <2>3. R \in Nat /\ L \in {0, 1} /\ b \in Nat
    <3>1. ResultsOf(c) \in Seq(Number)
      BY <1>13 DEF UserAt, Answers
    <3>2. k - 1 \in 0..N
      BY <1>5
    <3> QED
      BY <1>10, <3>1, <3>2 DEF Lead
  <2>4. off[k] = b + Len(q[k]) /\ \A i \in 1..Len(q[k]) : s[b + i] = q[k][i]
    BY <1>10
  <2> HIDE DEF c, L, R, b
  <2>5. off[k] = b + L + R
    BY <2>2, <2>3, <2>4
  <2>6. L = 1 => s[b + 1] = OpenAIMessage("user", Flattened(RestOf(c)))
    <3>1. L = 1 => 1 \in 1..(L + R)
      BY <2>3
    <3> QED
      BY <2>2, <2>4, <3>1
  <2>7. ASSUME NEW i \in 1..R PROVE s[b + L + i] = ToolMessage(OfType("tool_result", c)[i])
    <3> DEFINE x == L + i
    <3>1. x \in 1..(L + R) /\ b + L + i = b + x
      BY <2>3
    <3>2. q[k][x] = ToolMessage(OfType("tool_result", c)[i])
      BY <2>2
    <3> HIDE DEF x
    <3>3. s[b + x] = q[k][x]
      BY <2>2, <2>4, <3>1
    <3> QED
      BY <3>1, <3>2, <3>3
  <2> QED
    BY <2>5, <2>6, <2>7 DEF UserShape, c, L, R, b
<1>14. Shape(s, m, off)
  BY <1>3, <1>8, <1>10, <1>11, <1>12 DEF Shape, N
<1> QED
  BY <1>13, <1>14 DEF s, N

\* A message of the system prompt or of a user, and the message of a result.
LEMMA PlainMessage ==
  ASSUME NEW b \in Seq(BlockSet), NEW role \in {"system", "user"}
  PROVE  /\ OpenAIMessage(role, Flattened(b)).role = role
         /\ OpenAIMessage(role, Flattened(b)).calls = <<>>
         /\ OpenAIMessage(role, Flattened(b)).tool_call_id = NoCall
         /\ Words(OpenAIMessage(role, Flattened(b))) = Numbers(b)
<1> DEFINE x == OpenAIMessage(role, Flattened(b))
           w == Numbers(b)
<1>1. /\ x.role = role /\ x.calls = <<>> /\ x.tool_call_id = NoCall
      /\ x.content = Flattened(b) /\ x.reasoning = <<>>
  BY DEF OpenAIMessage
<1>2. w \in Seq(Number) /\ Numbers(Flattened(b)) = w
  BY NumbersOfBlocks
<1> HIDE DEF x, w
<1>3. Words(x) = (<<>> \o w) \o <<>>
  BY <1>1, <1>2 DEF Words
<1>4. (<<>> \o w) \o <<>> = w
  BY <1>2
<1> QED
  BY <1>1, <1>3, <1>4 DEF x, w

\* What a result's message is made of.
LEMMA ResultMessage ==
  ASSUME NEW b
  PROVE  /\ ToolMessage(b).role = "tool" /\ ToolMessage(b).calls = <<>>
         /\ ToolMessage(b).tool_call_id = b.n /\ Words(ToolMessage(b)) = <<>>
<1> DEFINE x == ToolMessage(b)
<1>1. /\ x.role = "tool" /\ x.calls = <<>> /\ x.tool_call_id = b.n
      /\ x.reasoning = <<>>
  BY DEF ToolMessage, OpenAIMessage
<1> HIDE DEF x
<1>2. Words(x) = (<<>> \o <<>>) \o <<>>
  BY <1>1 DEF Words
<1> QED
  BY <1>1, <1>2 DEF x

\* What is at a place: the system prompt, an assistant's message, what a user says,
\* or the result of a call.
SystemPlace(s, m, off, j) ==
  /\ off[0] = 1 /\ j = 1
  /\ s[j].role = "system" /\ s[j].calls = <<>> /\ s[j].tool_call_id = NoCall
  /\ Words(s[j]) = Numbers(System)
AssistantPlace(s, m, off, k, j) ==
  /\ AssistantAt(m, k) /\ j = off[k - 1] + 1 /\ off[k] = j
  /\ s[j].role = "assistant" /\ s[j] = FromAssistant(m[k].content)
LeadPlace(s, m, off, k, j) ==
  /\ UserAt(m, k) /\ Lead(m[k].content) = 1 /\ j = off[k - 1] + 1 /\ j <= off[k]
  /\ s[j].role = "user" /\ s[j].calls = <<>> /\ s[j].tool_call_id = NoCall
  /\ Words(s[j]) = Numbers(RestOf(m[k].content))
ToolPlace(s, m, off, k, i, j) ==
  /\ UserAt(m, k) /\ i \in 1..Len(ResultsOf(m[k].content))
  /\ j = off[k - 1] + Lead(m[k].content) + i /\ j <= off[k]
  /\ s[j].role = "tool" /\ s[j].calls = <<>>
  /\ s[j].tool_call_id = ResultsOf(m[k].content)[i] /\ Words(s[j]) = <<>>

Translation(s, m, off) ==
  /\ Convo(m) /\ Shape(s, m, off)
  /\ \A k \in 1..Len(m) : UserAt(m, k) => UserShape(s, m, off, k)

\* The counts that places are made of.
Counts(m, off, k) ==
  /\ off[k - 1] \in Nat /\ off[k] \in Nat /\ Lead(m[k].content) \in {0, 1}
  /\ Len(ResultsOf(m[k].content)) \in Nat
  /\ off[k] = off[k - 1] + Lead(m[k].content) + Len(ResultsOf(m[k].content))

\* How many messages there are for a user's message.
LEMMA UserCounts ==
  ASSUME NEW s, NEW m, NEW off, Translation(s, m, off), NEW k \in 1..Len(m), UserAt(m, k)
  PROVE  Counts(m, off, k)
<1>1. ResultsOf(m[k].content) \in Seq(Number)
  BY DEF UserAt, Answers
<1>2. Len(m) \in Nat /\ k - 1 \in 0..Len(m) /\ k \in 0..Len(m)
  <2>1. m \in Seq([role : {"user", "assistant"}, content : Seq(BlockSet)])
    BY DEF Translation, Convo
  <2>2. Len(m) \in Nat
    BY <2>1
  <2> QED
    BY <2>2
<1>3. off \in [0..Len(m) -> Nat]
  BY DEF Translation, Shape
<1>4. off[k] = off[k - 1] + Lead(m[k].content) + Len(ResultsOf(m[k].content))
  BY DEF Translation, UserShape
<1>5. off[k - 1] \in Nat /\ off[k] \in Nat
  BY <1>2, <1>3
<1>6. Lead(m[k].content) \in {0, 1}
  BY DEF Lead
<1>7. Len(ResultsOf(m[k].content)) \in Nat
  BY <1>1
<1> QED
  BY <1>4, <1>5, <1>6, <1>7 DEF Counts

\* Where a result is.
LEMMA ToolPlaces ==
  ASSUME NEW s, NEW m, NEW off, Translation(s, m, off), NEW k \in 1..Len(m), UserAt(m, k),
         NEW i \in 1..Len(ResultsOf(m[k].content)),
         NEW j, j = off[k - 1] + Lead(m[k].content) + i
  PROVE  ToolPlace(s, m, off, k, i, j)
<1> DEFINE c == m[k].content
           r == OfType("tool_result", c)
<1>1. r \in Seq(BlockSet) /\ ResultsOf(c) = Numbers(r)
  BY DEF UserAt, Answers, ResultsOf
<1>2. Len(ResultsOf(c)) = Len(r) /\ ResultsOf(c)[i] = r[i].n
  BY <1>1, NumbersOfBlocks
<1>3. s[j] = ToolMessage(r[i])
  BY DEF Translation, UserShape
<1>4. j <= off[k]
  <2>1. Counts(m, off, k)
    BY UserCounts
  <2> DEFINE b == off[k - 1]
             e == off[k]
             L == Lead(m[k].content)
             R == Len(ResultsOf(m[k].content))
  <2>2. b \in Nat /\ e \in Nat /\ L \in {0, 1} /\ R \in Nat /\ e = b + L + R
    BY <2>1 DEF Counts
  <2>3. j = b + L + i /\ i \in 1..R
    OBVIOUS
  <2> HIDE DEF b, e, L, R
  <2>4. j <= e
    BY <2>2, <2>3
  <2> QED
    BY <2>4 DEF e
<1> HIDE DEF r
<1>5. /\ s[j].role = "tool" /\ s[j].calls = <<>>
      /\ s[j].tool_call_id = r[i].n /\ Words(s[j]) = <<>>
  BY <1>3, ResultMessage
<1> QED
  BY <1>2, <1>4, <1>5 DEF ToolPlace

\* Where a user's own words are.
LEMMA LeadPlaces ==
  ASSUME NEW s, NEW m, NEW off, Translation(s, m, off), NEW k \in 1..Len(m), UserAt(m, k),
         Lead(m[k].content) = 1, NEW j, j = off[k - 1] + 1
  PROVE  LeadPlace(s, m, off, k, j)
<1> DEFINE c == m[k].content
           r == RestOf(c)
<1>1. r \in Seq(BlockSet)
  BY DEF UserAt, Adds
<1>2. s[j] = OpenAIMessage("user", Flattened(r))
  BY DEF Translation, UserShape
<1>3. j <= off[k]
  <2>1. Counts(m, off, k)
    BY UserCounts
  <2> DEFINE b == off[k - 1]
             e == off[k]
             R == Len(ResultsOf(m[k].content))
  <2>2. b \in Nat /\ e \in Nat /\ R \in Nat /\ e = b + 1 + R
    BY <2>1 DEF Counts
  <2>3. j = b + 1
    OBVIOUS
  <2> HIDE DEF b, e, R
  <2>4. j <= e
    BY <2>2, <2>3
  <2> QED
    BY <2>4 DEF e
<1> HIDE DEF r
<1>4. /\ s[j].role = "user" /\ s[j].calls = <<>> /\ s[j].tool_call_id = NoCall
      /\ Words(s[j]) = Numbers(r)
  BY <1>1, <1>2, PlainMessage
<1> QED
  BY <1>3, <1>4 DEF LeadPlace, r

\* Where an assistant's message is.
LEMMA AssistantPlaces ==
  ASSUME NEW s, NEW m, NEW off, Translation(s, m, off), NEW k \in 1..Len(m), AssistantAt(m, k)
  PROVE  AssistantPlace(s, m, off, k, off[k])
<1>1. off[k] = off[k - 1] + 1 /\ s[off[k]] = FromAssistant(m[k].content)
  BY DEF Translation, Shape
<1>2. FromAssistant(m[k].content).role = "assistant"
  BY AssistantMessage DEF AssistantAt, AssistantContent
<1> QED
  BY <1>1, <1>2 DEF AssistantPlace

\* Where the system prompt is.
LEMMA SystemPlaces ==
  ASSUME NEW s, NEW m, NEW off, Translation(s, m, off), System # <<>>
  PROVE  SystemPlace(s, m, off, 1)
<1>1. System \in Seq(BlockSet)
  BY SystemBlocks
<1>2. off[0] = 1 /\ s[1] = OpenAIMessage("system", Flattened(System))
  BY DEF Translation, Shape
<1> QED
  BY <1>1, <1>2, PlainMessage DEF SystemPlace

\* Every place is one of these.
LEMMA Places ==
  ASSUME NEW s, NEW m, NEW off, Translation(s, m, off), NEW j \in 1..Len(s)
  PROVE  \/ SystemPlace(s, m, off, j) /\ System # <<>>
         \/ \E k \in 1..Len(m) : \/ AssistantPlace(s, m, off, k, j)
                                 \/ LeadPlace(s, m, off, k, j)
                                 \/ \E i \in Nat : ToolPlace(s, m, off, k, i, j)
<1>1. CASE j <= off[0]
  <2>1. off[0] = IF System = <<>> THEN 0 ELSE 1
    BY DEF Translation, Shape
  <2>2. System # <<>> /\ j = 1
    BY <1>1, <2>1
  <2> QED
    BY <2>2, SystemPlaces
<1>2. CASE j > off[0]
  <2>1. PICK k \in 1..Len(m) : j > off[k - 1] /\ j <= off[k]
    BY <1>2 DEF Translation, Shape
  <2>2. CASE AssistantAt(m, k)
    <3>1. AssistantPlace(s, m, off, k, off[k])
      BY <2>2, AssistantPlaces
    <3>2. off[k - 1] \in Nat /\ off[k] = off[k - 1] + 1
      <4>1. off \in [0..Len(m) -> Nat]
        BY DEF Translation, Shape
      <4>2. k - 1 \in 0..Len(m)
        OBVIOUS
      <4> QED
        BY <3>1, <4>1, <4>2 DEF AssistantPlace
    <3> DEFINE b == off[k - 1]
               e == off[k]
    <3>3. b \in Nat /\ e = b + 1 /\ j > b /\ j <= e
      BY <2>1, <3>2
    <3> HIDE DEF b, e
    <3>4. j = e
      BY <3>3
    <3> QED
      BY <3>1, <3>4 DEF e
  <2>3. CASE UserAt(m, k)
    <3> DEFINE b == off[k - 1]
               e == off[k]
               L == Lead(m[k].content)
               R == Len(ResultsOf(m[k].content))
               i == j - (b + L)
    <3>1. b \in Nat /\ e \in Nat /\ L \in {0, 1} /\ R \in Nat /\ e = b + L + R
      BY <2>3, UserCounts DEF Counts
    <3>2. j > b /\ j <= e
      BY <2>1
    <3>3. (L = 1 /\ j = b + 1) \/ (i \in 1..R /\ i \in Nat /\ j = b + L + i)
      <4> HIDE DEF b, e, L, R
      <4> QED
        BY <3>1, <3>2
    <3>4. CASE L = 1 /\ j = b + 1
      BY <2>3, <3>4, LeadPlaces
    <3>5. CASE i \in 1..R /\ i \in Nat /\ j = b + L + i
      <4> HIDE DEF i
      <4>1. ToolPlace(s, m, off, k, i, j)
        BY <2>3, <3>5, ToolPlaces
      <4> QED
        BY <3>5, <4>1
    <3> QED
      BY <3>3, <3>4, <3>5
  <2> QED
    BY <2>2, <2>3, Turns DEF Translation
<1>3. off[0] \in {0, 1}
  BY DEF Translation, Shape
<1> QED
  BY <1>1, <1>2, <1>3

--------------------------------------------------------------------------------
(* Calls are answered.                                                       *)

\* After an assistant's message comes a user's, which answers its calls.
LEMMA AnsweredNext ==
  ASSUME NEW m, Convo(m), m[Len(m)].role = "user", NEW k \in 1..Len(m), AssistantAt(m, k)
  PROVE  /\ k + 1 \in 1..Len(m) /\ UserAt(m, k + 1)
         /\ CallsBefore(m, k + 1) = Numbers(OfType("tool_use", m[k].content))
<1>1. Len(m) \in Nat
  <2> DEFINE R == [role : {"user", "assistant"}, content : Seq(BlockSet)]
  <2>1. m \in Seq(R)
    BY DEF Convo
  <2> HIDE DEF R
  <2> QED
    BY <2>1
<1>2. k # Len(m)
  BY DEF AssistantAt
<1> DEFINE n == k + 1
<1>3. n \in 1..Len(m) /\ n # 1 /\ n - 1 = k
  BY <1>1, <1>2
<1> HIDE DEF n
<1>4. ~AssistantAt(m, n)
  BY <1>3 DEF AssistantAt
<1>5. UserAt(m, n)
  BY <1>3, <1>4, Turns
<1>6. CallsBefore(m, n) = Numbers(OfType("tool_use", m[k].content))
  BY <1>3 DEF CallsBefore
<1> QED
  BY <1>3, <1>5, <1>6 DEF n

\* Where a translated request ends.
LEMMA PlacesInside ==
  ASSUME NEW s, NEW m, NEW off, Translation(s, m, off), NEW k \in 1..Len(m)
  PROVE  /\ Len(s) \in Nat /\ DOMAIN s = 1..Len(s) /\ Len(m) \in Nat
         /\ off[k] \in Nat /\ off[k - 1] \in Nat /\ off[k] <= Len(s)
<1>1. s \in Seq(MessageSet)
  BY DEF Translation, Shape
<1>2. Len(m) \in Nat
  <2> DEFINE R == [role : {"user", "assistant"}, content : Seq(BlockSet)]
  <2>1. m \in Seq(R)
    BY DEF Translation, Convo
  <2> HIDE DEF R
  <2> QED
    BY <2>1
<1>3. k \in 0..Len(m) /\ Len(m) \in 0..Len(m) /\ k <= Len(m) /\ k - 1 \in 0..Len(m)
  BY <1>2
<1>4. off[k] <= off[Len(m)] /\ off[Len(m)] = Len(s)
  BY <1>3 DEF Translation, Shape
<1>5. off \in [0..Len(m) -> Nat]
  BY DEF Translation, Shape
<1>6. off[k] \in Nat /\ off[k - 1] \in Nat
  BY <1>3, <1>5
<1>7. Len(s) \in Nat /\ DOMAIN s = 1..Len(s)
  BY <1>1
<1> QED
  BY <1>2, <1>4, <1>6, <1>7

\* The results of an assistant's calls are the messages after what the user says.
ResultAt(s, j, calls, place) ==
  (\E x \in 1..Len(calls) : s[j].tool_call_id = calls[x])
    <=> \E x \in 1..Len(calls) : j = place + x

\* A message answers a call of an assistant's message if and only if it is at one of
\* the places for the results of the next one.
LEMMA ResultPlaces ==
  ASSUME NEW s, NEW m, NEW off, Translation(s, m, off), m[Len(m)].role = "user",
         NEW k \in 1..Len(m), AssistantAt(m, k), NEW calls,
         calls = Numbers(OfType("tool_use", m[k].content)),
         NEW j \in 1..Len(s)
  PROVE  ResultAt(s, j, calls, off[k] + Lead(m[k + 1].content))
<1> DEFINE n == k + 1
           c == m[n].content
<1>1. n \in 1..Len(m) /\ UserAt(m, n) /\ CallsBefore(m, n) = calls /\ n - 1 = k /\ n \in Nat
  BY AnsweredNext DEF Translation
<1> HIDE DEF n
<1>2. /\ Len(ResultsOf(c)) = Len(calls)
      /\ {ResultsOf(c)[i] : i \in 1..Len(calls)} = {calls[i] : i \in 1..Len(calls)}
  BY <1>1 DEF UserAt, Answers
<1>3. calls \in Seq(Number) /\ \A i \in 1..Len(calls) : calls[i][1] = k
  BY CallsOfAssistant DEF AssistantAt
<1>4. ASSUME NEW x \in 1..Len(calls), j = off[k] + Lead(c) + x
      PROVE  \E y \in 1..Len(calls) : s[j].tool_call_id = calls[y]
  <2>1. x \in 1..Len(ResultsOf(c)) /\ j = off[n - 1] + Lead(c) + x
    BY <1>1, <1>2, <1>4
  <2>2. ToolPlace(s, m, off, n, x, j)
    BY <1>1, <2>1, ToolPlaces
  <2>3. s[j].tool_call_id = ResultsOf(c)[x]
    BY <2>2 DEF ToolPlace
  <2>4. ResultsOf(c)[x] \in {calls[i] : i \in 1..Len(calls)}
    BY <1>2
  <2> QED
    BY <2>3, <2>4
<1>5. ASSUME NEW x \in 1..Len(calls), s[j].tool_call_id = calls[x]
      PROVE  \E y \in 1..Len(calls) : j = off[k] + Lead(c) + y
  <2>1. calls[x] \in Number /\ calls[x][1] = k
    BY <1>3
  <2>2. s[j].tool_call_id # NoCall
    <3>1. calls[x] # <<>>
      BY <2>1 DEF Number
    <3> QED
      BY <1>5, <2>1, <3>1 DEF NoCall
  <2>3. ASSUME NEW l \in 1..Len(m), AssistantPlace(s, m, off, l, j) PROVE FALSE
    <3>1. FromAssistant(m[l].content).tool_call_id = NoCall
      BY <2>3, AssistantMessage DEF AssistantPlace, AssistantAt, AssistantContent
    <3> QED
      BY <2>2, <2>3, <3>1 DEF AssistantPlace
  <2>4. PICK l \in 1..Len(m), i \in Nat : ToolPlace(s, m, off, l, i, j)
    BY <2>2, <2>3, Places DEF SystemPlace, LeadPlace
  <2> DEFINE d == m[l].content
             b == CallsBefore(m, l)
  <2>5. /\ UserAt(m, l) /\ i \in 1..Len(ResultsOf(d))
        /\ s[j].tool_call_id = ResultsOf(d)[i] /\ j = off[l - 1] + Lead(d) + i
    BY <2>4 DEF ToolPlace
  <2>6. /\ Len(ResultsOf(d)) = Len(b)
        /\ {ResultsOf(d)[y] : y \in 1..Len(b)} = {b[y] : y \in 1..Len(b)}
        /\ \A y \in 1..Len(b) : l > 1 /\ b[y][1] = l - 1
    BY <2>5 DEF UserAt, Answers
  <2> HIDE DEF d, b
  <2>7. ResultsOf(d)[i] \in {b[y] : y \in 1..Len(b)}
    BY <2>5, <2>6
  <2>8. s[j].tool_call_id[1] = l - 1
    BY <2>5, <2>6, <2>7
  <2>9. l - 1 = k
    BY <1>5, <2>1, <2>8
  <2>10. l = n
    BY <1>1, <2>9
  <2>11. d = c
    BY <2>10 DEF d
  <2>12. i \in 1..Len(calls) /\ j = off[k] + Lead(c) + i
    BY <1>2, <2>5, <2>9, <2>11
  <2> QED
    BY <2>12
<1> QED
  BY <1>4, <1>5 DEF n, ResultAt

AnswersAt(s, i) == {j \in DOMAIN s : s[j].tool_call_id \in ToSet(s[i].calls)}
AfterWords(s, i) == IF i < Len(s) /\ s[i + 1].role = "user" THEN i + 2 ELSE i + 1

\* A message without calls is followed by no answer.
LEMMA NoCallsNoAnswers ==
  ASSUME NEW s, NEW i, s[i].calls = <<>>
  PROVE  AnswersAt(s, i) = {}
<1>1. ToSet(s[i].calls) = {}
  BY DEF ToSet
<1> QED
  BY <1>1 DEF AnswersAt

\* The answers to the calls of an assistant's message.
LEMMA AssistantAnswered ==
  ASSUME NEW s, NEW m, NEW off, Translation(s, m, off), m[Len(m)].role = "user",
         NEW k \in 1..Len(m), AssistantAt(m, k), NEW i, i = off[k]
  PROVE  AnswersAt(s, i) =
           IF s[i].calls = <<>> THEN {}
           ELSE AfterWords(s, i)..(AfterWords(s, i) + Len(s[i].calls) - 1)
<1> DEFINE calls == Numbers(OfType("tool_use", m[k].content))
           n == k + 1
           c == m[n].content
           L == Lead(c)
<1>1. /\ s[i] = FromAssistant(m[k].content)
      /\ s[i].calls = calls
  <2>1. AssistantPlace(s, m, off, k, i)
    BY AssistantPlaces
  <2>2. s[i] = FromAssistant(m[k].content)
    BY <2>1 DEF AssistantPlace
  <2>3. FromAssistant(m[k].content).calls = calls
    BY AssistantMessage DEF AssistantAt, AssistantContent
  <2> QED
    BY <2>2, <2>3
<1>2. CASE s[i].calls = <<>>
  BY <1>2, NoCallsNoAnswers
<1>3. CASE s[i].calls # <<>>
  <2> DEFINE C == Len(calls)
  <2>1. n \in 1..Len(m) /\ UserAt(m, n) /\ CallsBefore(m, n) = calls /\ n - 1 = k
    BY AnsweredNext DEF Translation
  <2>2. calls \in Seq(Number)
    BY CallsOfAssistant DEF AssistantAt
  <2>3. C \in Nat /\ C > 0
    BY <1>1, <1>3, <2>2
  <2>4. Len(ResultsOf(c)) = C
    BY <2>1 DEF UserAt, Answers
  <2>5. /\ Len(s) \in Nat /\ DOMAIN s = 1..Len(s) /\ i \in Nat /\ off[n] <= Len(s)
        /\ off[n] \in Nat
    BY <2>1, PlacesInside
  <2>6. Counts(m, off, n)
    BY <2>1, UserCounts
  <2>7. off[n] = i + L + C /\ L \in {0, 1}
    BY <2>1, <2>4, <2>6 DEF Counts
  <2>8. \A j \in 1..Len(s) : (\E x \in 1..C : s[j].tool_call_id = calls[x])
                               <=> \E x \in 1..C : j = i + L + x
    <3> SUFFICES ASSUME NEW j \in 1..Len(s)
                 PROVE  ResultAt(s, j, calls, off[k] + Lead(m[k + 1].content))
      BY DEF ResultAt
    <3>1. calls = Numbers(OfType("tool_use", m[k].content))
      OBVIOUS
    <3> HIDE DEF calls
    <3> QED
      BY <3>1, ResultPlaces
  <2>9. ToSet(calls) = {calls[x] : x \in 1..C}
    BY <2>2 DEF ToSet
  <2> HIDE DEF n, c, L, calls, C
  <2>10. AnswersAt(s, i) = {j \in 1..Len(s) : \E x \in 1..C : j = i + L + x}
    BY <1>1, <2>5, <2>8, <2>9 DEF AnswersAt
  <2>11. {j \in 1..Len(s) : \E x \in 1..C : j = i + L + x} = (i + L + 1)..(i + L + C)
    <3> DEFINE A == {j \in 1..Len(s) : \E x \in 1..C : j = i + L + x}
               e == off[n]
               N == Len(s)
    <3>1. e = i + L + C /\ e <= N /\ N \in Nat /\ i \in Nat /\ L \in {0, 1} /\ C \in Nat
      BY <2>3, <2>5, <2>7
    <3> HIDE DEF e, N
    <3>2. ASSUME NEW j \in (i + L + 1)..(i + L + C)
          PROVE  j \in 1..N /\ \E x \in 1..C : j = i + L + x
      <4> DEFINE b == i + L
                 x == j - b
      <4>1. b \in Nat
        BY <3>1, SMTT(30)
      <4>a. j \in (b + 1)..(b + C)
        OBVIOUS
      <4>b. b + C = e
        BY <3>1
      <4> HIDE DEF b
      <4>2. x \in 1..C /\ j = b + x /\ j \in 1..N
        BY <3>1, <4>1, <4>a, <4>b
      <4> HIDE DEF x
      <4> QED
        BY <4>2 DEF b
    <3>3. ASSUME NEW x \in 1..C PROVE i + L + x \in (i + L + 1)..(i + L + C)
      <4> DEFINE b == i + L
      <4>1. b \in Nat
        BY <3>1
      <4> HIDE DEF b
      <4>2. b + x \in (b + 1)..(b + C)
        BY <3>1, <4>1
      <4> QED
        BY <4>2 DEF b
    <3> QED
      BY <3>2, <3>3 DEF N
  <2>12. AfterWords(s, i) = i + L + 1
    <3>1. i < Len(s)
      BY <2>3, <2>5, <2>7
    <3>2. CASE L = 1
      <4>1. LeadPlace(s, m, off, n, i + 1)
        BY <2>1, <3>2, LeadPlaces DEF L, c
      <4>2. s[i + 1].role = "user"
        BY <4>1 DEF LeadPlace
      <4> QED
        BY <2>5, <3>1, <3>2, <4>2 DEF AfterWords
    <3>3. CASE L = 0
      <4>1. 1 \in 1..Len(ResultsOf(c)) /\ i + 1 = off[n - 1] + L + 1
        BY <2>1, <2>3, <2>4, <2>5, <3>3
      <4>2. ToolPlace(s, m, off, n, 1, i + 1)
        BY <2>1, <4>1, ToolPlaces DEF L, c
      <4>3. s[i + 1].role # "user"
        BY <4>2 DEF ToolPlace
      <4> QED
        BY <2>5, <3>1, <3>3, <4>3 DEF AfterWords
    <3> QED
      BY <2>7, <3>2, <3>3
  <2>13. /\ AfterWords(s, i) + Len(s[i].calls) - 1 = i + L + C
    BY <1>1, <2>3, <2>5, <2>7, <2>12 DEF C
  <2> QED
    BY <1>3, <2>10, <2>11, <2>12, <2>13
<1> QED
  BY <1>2, <1>3

\* Every result answers a call before it.
LEMMA ResultsFollowCalls ==
  ASSUME NEW s, NEW m, NEW off, Translation(s, m, off),
         NEW j \in 1..Len(s), s[j].role = "tool"
  PROVE  \E i \in 1..(j - 1) : j \in AnswersAt(s, i)
<1>1. PICK l \in 1..Len(m), x \in Nat : ToolPlace(s, m, off, l, x, j)
  BY Places DEF SystemPlace, LeadPlace, AssistantPlace
<1> DEFINE d == m[l].content
           b == CallsBefore(m, l)
           k == l - 1
           i == off[k]
<1>2. /\ UserAt(m, l) /\ x \in 1..Len(ResultsOf(d))
      /\ s[j].tool_call_id = ResultsOf(d)[x] /\ j = off[k] + Lead(d) + x
  BY <1>1 DEF ToolPlace
<1>3. /\ Len(ResultsOf(d)) = Len(b)
      /\ {ResultsOf(d)[y] : y \in 1..Len(b)} = {b[y] : y \in 1..Len(b)}
      /\ \A y \in 1..Len(b) : l > 1
      /\ l > 1 => m[k].role = "assistant"
      /\ b \in Seq(Number)
  BY <1>2 DEF UserAt, Answers
<1>4. /\ Len(s) \in Nat /\ DOMAIN s = 1..Len(s) /\ Len(m) \in Nat
  BY PlacesInside
<1>5. l > 1 /\ k \in 1..Len(m)
  BY <1>2, <1>3, <1>4
<1>6. b = Numbers(OfType("tool_use", m[k].content))
  BY <1>5 DEF CallsBefore
<1> HIDE DEF k, d, b
<1>7. AssistantAt(m, k)
  <2>1. ~UserAt(m, k)
    BY <1>3, <1>5 DEF UserAt
  <2> QED
    BY <1>5, <2>1, Turns DEF Translation
<1>8. s[i].calls = b /\ i > 0 /\ i \in Nat
  <2>1. AssistantPlace(s, m, off, k, i)
    BY <1>5, <1>7, AssistantPlaces
  <2>2. off[k] \in Nat /\ off[k - 1] \in Nat
    BY <1>5, PlacesInside
  <2>3. i > 0
    BY <2>1, <2>2 DEF AssistantPlace
  <2> QED
    BY <1>6, <1>7, <2>1, <2>2, <2>3, AssistantMessage
    DEF AssistantPlace, AssistantAt, AssistantContent
<1>9. s[j].tool_call_id \in ToSet(s[i].calls)
  <2>1. ToSet(b) = {b[y] : y \in 1..Len(b)}
    BY <1>3 DEF ToSet
  <2> QED
    BY <1>2, <1>3, <1>8, <2>1
<1>10. j \in AnswersAt(s, i)
  BY <1>4, <1>9 DEF AnswersAt
<1>11. i \in 1..(j - 1)
  <2>1. Lead(d) \in {0, 1} /\ x \in Nat /\ x > 0
    BY <1>2, <1>3 DEF Lead
  <2>2. j = i + Lead(d) + x
    BY <1>2
  <2> HIDE DEF i
  <2> QED
    BY <1>8, <2>1, <2>2
<1> QED
  BY <1>10, <1>11

\* All of CallsAnswered, for one translated request.
LEMMA AllCallsAnswered ==
  ASSUME NEW s, NEW m, NEW off, Translation(s, m, off), m[Len(m)].role = "user"
  PROVE  /\ \A i \in 1..Len(s) :
              AnswersAt(s, i) =
                IF s[i].calls = <<>> THEN {}
                ELSE AfterWords(s, i)..(AfterWords(s, i) + Len(s[i].calls) - 1)
         /\ \A j \in 1..Len(s) : s[j].role = "tool" =>
              \E i \in 1..(j - 1) : j \in AnswersAt(s, i)
<1>1. ASSUME NEW i \in 1..Len(s)
      PROVE  AnswersAt(s, i) =
               IF s[i].calls = <<>> THEN {}
               ELSE AfterWords(s, i)..(AfterWords(s, i) + Len(s[i].calls) - 1)
  <2>1. CASE s[i].calls = <<>>
    BY <2>1, NoCallsNoAnswers
  <2>2. CASE s[i].calls # <<>>
    <3>1. PICK k \in 1..Len(m) : AssistantPlace(s, m, off, k, i)
      BY <2>2, Places DEF SystemPlace, LeadPlace, ToolPlace
    <3>2. AssistantAt(m, k) /\ i = off[k]
      BY <3>1 DEF AssistantPlace
    <3> QED
      BY <3>2, AssistantAnswered, ZenonT(60)
  <2> QED
    BY <2>1, <2>2
<1> QED
  BY <1>1, ResultsFollowCalls

--------------------------------------------------------------------------------
(* What an OpenAI provider said comes back.                                  *)

\* The messages of assistants keep their places among each other.
LEMMA AssistantsCounted ==
  ASSUME NEW s, NEW m, NEW off, Translation(s, m, off),
         NEW k \in 1..Len(m), AssistantAt(m, k)
  PROVE  Assistants(s, off[k]) = Assistants(m, k)
<1> DEFINE X == {l \in 1..k : m[l].role = "assistant"}
           Y == {j \in 1..off[k] : s[j].role = "assistant"}
           f == [l \in X |-> off[l]]
<1>1. /\ Len(s) \in Nat /\ Len(m) \in Nat /\ off[k] \in Nat /\ off[k] <= Len(s) /\ k \in Nat
  BY PlacesInside
<1>2. ASSUME NEW l \in X
      PROVE  l \in 1..Len(m) /\ AssistantAt(m, l) /\ off[l] \in Nat
             /\ off[l - 1] \in Nat /\ off[l] = off[l - 1] + 1
             /\ s[off[l]].role = "assistant"
  <2>1. l \in 1..Len(m) /\ m[l].role = "assistant"
    BY <1>1
  <2>2. ~UserAt(m, l)
    BY <2>1 DEF UserAt
  <2>3. AssistantAt(m, l)
    BY <2>1, <2>2, Turns DEF Translation
  <2>4. AssistantPlace(s, m, off, l, off[l])
    BY <2>1, <2>3, AssistantPlaces
  <2> QED
    BY <2>1, <2>3, <2>4, PlacesInside DEF AssistantPlace
<1>3. \A l, n \in 0..Len(m) : l <= n => off[l] <= off[n]
  BY DEF Translation, Shape
<1>4. ASSUME NEW l \in X PROVE off[l] \in Y
  <2>1. l \in 0..Len(m) /\ k \in 0..Len(m) /\ l <= k
    BY <1>1
  <2>2. off[l] <= off[k]
    BY <1>3, <2>1
  <2>3. off[l] > 0
    BY <1>2
  <2> QED
    BY <1>1, <1>2, <2>2, <2>3
<1>5. ASSUME NEW l \in X, NEW n \in X, l < n PROVE off[l] < off[n]
  <2>1. l \in 0..Len(m) /\ n - 1 \in 0..Len(m) /\ l <= n - 1
    BY <1>1, <1>5
  <2> DEFINE p == n - 1
  <2>2. off[l] <= off[p]
    BY <1>3, <2>1
  <2>3. off[p] \in Nat /\ off[n] = off[p] + 1 /\ off[l] \in Nat
    BY <1>2
  <2> HIDE DEF p
  <2> QED
    BY <2>2, <2>3
<1>6. \A l, n \in X : off[l] = off[n] => l = n
  <2> SUFFICES ASSUME NEW l \in X, NEW n \in X, off[l] = off[n], l # n PROVE FALSE
    OBVIOUS
  <2>1. l < n \/ n < l
    BY <1>1
  <2>2. off[l] \in Nat
    BY <1>2
  <2> QED
    BY <1>5, <2>1, <2>2
<1>7. ASSUME NEW j \in Y PROVE \E l \in X : off[l] = j
  <2>1. j \in 1..Len(s) /\ s[j].role = "assistant" /\ j <= off[k]
    BY <1>1
  <2>2. PICK l \in 1..Len(m) : AssistantPlace(s, m, off, l, j)
    BY <2>1, Places DEF SystemPlace, LeadPlace, ToolPlace
  <2>3. AssistantAt(m, l) /\ off[l] = j /\ j = off[l - 1] + 1 /\ m[l].role = "assistant"
    BY <2>2 DEF AssistantPlace, AssistantAt
  <2>4. l <= k
    <3> SUFFICES ASSUME l > k PROVE FALSE
      BY <1>1
    <3> DEFINE p == l - 1
    <3>1. k \in 0..Len(m) /\ p \in 0..Len(m) /\ k <= p
      BY <1>1
    <3>2. off[k] <= off[p] /\ off[p] \in Nat /\ j = off[p] + 1
      BY <1>3, <2>3, <3>1, PlacesInside
    <3> HIDE DEF p
    <3> QED
      BY <1>1, <2>1, <3>2
  <2> QED
    BY <1>1, <2>3, <2>4
<1>8. IsFiniteSet(X)
  <2>1. IsFiniteSet(1..k)
    BY <1>1, FS_Interval
  <2>2. X \subseteq 1..k
    OBVIOUS
  <2> HIDE DEF X
  <2> QED
    BY <2>1, <2>2, FS_Subset
<1> HIDE DEF X, Y
<1>9. f \in [X -> Y] /\ (\A l, n \in X : f[l] = f[n] => l = n)
      /\ \A j \in Y : \E l \in X : f[l] = j
  BY <1>4, <1>6, <1>7
<1> HIDE DEF f
<1>10. f \in Bijection(X, Y)
  <2>1. f \in [X -> Y] /\ \A a, b \in X : f[a] = f[b] => a = b
    BY <1>9
  <2>2. f \in [X -> Y] /\ \A t \in Y : \E x \in X : f[x] = t
    BY <1>9
  <2> QED
    BY <2>1, <2>2, Zenon DEF Bijection, Injection, Surjection, IsInjective
<1>11. Cardinality(Y) = Cardinality(X)
  BY <1>8, <1>10, FS_Bijection DEF ExistsBijection
<1> QED
  BY <1>11 DEF X, Y, Assistants

\* The numbers of blocks, one sequence after the other.
LEMMA NumbersJoined ==
  ASSUME NEW a \in Seq(BlockSet), NEW b \in Seq(BlockSet)
  PROVE  Numbers(a \o b) = Numbers(a) \o Numbers(b) /\ a \o b \in Seq(BlockSet)
<1> DEFINE v == Numbers(a)
           w == Numbers(b)
           s == a \o b
           u == Numbers(s)
           A == Len(a)
           B == Len(b)
<1>1. /\ s \in Seq(BlockSet) /\ A \in Nat /\ B \in Nat /\ Len(s) = A + B
      /\ \A i \in 1..A : s[i] = a[i]
      /\ \A i \in 1..B : s[A + i] = b[i]
  OBVIOUS
<1>2. /\ v \in Seq(Number) /\ Len(v) = A /\ \A i \in 1..A : v[i] = a[i].n
  BY NumbersOfBlocks
<1>3. /\ w \in Seq(Number) /\ Len(w) = B /\ \A i \in 1..B : w[i] = b[i].n
  BY NumbersOfBlocks
<1> HIDE DEF s
<1>4. /\ u \in Seq(Number) /\ Len(u) = A + B /\ \A i \in 1..(A + B) : u[i] = s[i].n
  BY <1>1, NumbersOfBlocks
<1> HIDE DEF u, v, w, A, B
<1>5. v \in Seq(Number) /\ w \in Seq(Number)
  BY <1>2, <1>3
<1> DEFINE t == v \o w
<1>6. /\ t \in Seq(Number) /\ Len(t) = Len(v) + Len(w)
      /\ \A i \in 1..Len(v) : t[i] = v[i]
      /\ \A i \in 1..Len(w) : t[Len(v) + i] = w[i]
  BY <1>5
<1> HIDE DEF t
<1>7. ASSUME NEW i \in 1..(A + B) PROVE u[i] = t[i]
  <2>1. CASE i \in 1..A
    BY <1>1, <1>2, <1>4, <1>6, <2>1, ZenonT(60)
  <2>2. CASE i \notin 1..A
    <3> DEFINE j == i - A
    <3>1. j \in 1..B /\ i = A + j
      BY <1>1, <2>2
    <3> HIDE DEF j
    <3>2. t[A + j] = w[j]
      BY <1>2, <1>3, <1>6, <3>1
    <3>3. u[A + j] = s[A + j].n
      BY <1>4, <3>1
    <3> QED
      BY <1>1, <1>3, <3>1, <3>2, <3>3
  <2> QED
    BY <2>1, <2>2
<1>8. Len(t) = A + B /\ Len(u) = A + B
  BY <1>2, <1>3, <1>4, <1>6
<1>9. u = t
  BY <1>4, <1>6, <1>7, <1>8
<1> QED
  BY <1>1, <1>9 DEF s, u, v, w, t

\* Blocks are distinct when their numbers are listed once.
LEMMA DistinctOfLists ==
  ASSUME NEW c \in Seq(BlockSet), NEW A, Lists(Numbers(c), A), NEW k, \A x \in A : x[1] = k
  PROVE  AssistantContent(c, k)
<1>1. /\ Len(Numbers(c)) = Len(c) /\ \A i \in 1..Len(c) : Numbers(c)[i] = c[i].n
  BY NumbersOfBlocks
<1>2. /\ \A i, j \in 1..Len(c) : i # j => c[i].n # c[j].n
      /\ \A i \in 1..Len(c) : c[i].n \in A
  BY <1>1 DEF Lists
<1> QED
  BY <1>2 DEF AssistantContent, Distinct

\* The calls of an answer's message.
CallBlocks(answer, k) ==
  [c \in DOMAIN answer.calls |-> CallBlock(Calls(answer, k)[c], InputOf(answer.calls[c]))]

\* The parts of an answer's message, which come in the order of their types.
Parts(answer, k, a, b, c) ==
  /\ a \in Seq(BlockSet) /\ b \in Seq(BlockSet) /\ c \in Seq(BlockSet)
  /\ \A i \in 1..Len(a) : a[i].type = "thinking"
  /\ \A i \in 1..Len(b) : b[i].type = "text"
  /\ \A i \in 1..Len(c) : c[i].type = "tool_use"
  /\ Numbers(a) = IF ThoughtOf(answer) THEN <<<<k, 1>>>> ELSE <<>>
  /\ Numbers(b) = IF answer.content = "text" THEN <<<<k, 2>>>> ELSE <<>>
  /\ Flattened(b) = IF answer.content = "text"
                    THEN <<[as |-> "text", n |-> <<k, 2>>]>> ELSE <<>>
  /\ Numbers(c) = Calls(answer, k)
  /\ Dumped(c) = Returned(answer.calls)

\* The parts are of their types, and numbered; the arguments of calls come back as JSON.
LEMMA ResponseParts ==
  ASSUME NEW answer, answer.calls \in Seq(ArgumentForms), NEW k \in Nat,
         NEW a, NEW b, NEW c,
         a = (IF ThoughtOf(answer) THEN <<Block("thinking", <<k, 1>>)>> ELSE <<>>),
         b = (IF answer.content = "text" THEN <<Block("text", <<k, 2>>)>> ELSE <<>>),
         c = CallBlocks(answer, k)
  PROVE  Parts(answer, k, a, b, c)
<1> DEFINE N == Len(answer.calls)
<1>0. N \in Nat /\ DOMAIN answer.calls = 1..N
      /\ \A i \in 1..N : answer.calls[i] \in ArgumentForms
  OBVIOUS
<1>1. {"thinking", "text", "tool_use"} \subseteq Types /\ \A i \in Nat : <<k, i>> \in Number
  BY DEF Types, Number
<1>2. \A t \in Types, x \in Number : Block(t, x) \in BlockSet
  BY DEF Block, BlockSet
<1>3. \A t, x : Block(t, x).type = t /\ Block(t, x).n = x
  BY DEF Block
<1>4. ASSUME NEW t \in Types, NEW x \in Number
      PROVE  /\ <<Block(t, x)>> \in Seq(BlockSet)
             /\ \A i \in 1..Len(<<Block(t, x)>>) : <<Block(t, x)>>[i].type = t
             /\ Numbers(<<Block(t, x)>>) = <<x>>
  <2> DEFINE y == Block(t, x)
  <2>1. y \in BlockSet /\ y.type = t /\ y.n = x
    BY <1>2, <1>3
  <2> HIDE DEF y
  <2>2. /\ <<y>> \in Seq(BlockSet) /\ DOMAIN <<y>> = 1..1 /\ <<y>>[1] = y
        /\ \A i \in 1..Len(<<y>>) : <<y>>[i] = y
    BY <2>1
  <2>3. Numbers(<<y>>) = [i \in 1..1 |-> <<y>>[i].n]
    BY <2>2 DEF Numbers
  <2>4. \A i \in 1..1 : <<y>>[i].n = x
    BY <2>1, <2>2
  <2>5. [i \in 1..1 |-> <<y>>[i].n] = [i \in 1..1 |-> x]
    BY <2>4
  <2>6. [i \in 1..1 |-> x] = <<x>>
    OBVIOUS
  <2>7. Numbers(<<y>>) = <<x>>
    BY <2>3, <2>5, <2>6
  <2> QED
    BY <2>1, <2>2, <2>7 DEF y
<1>5. <<>> \in Seq(BlockSet) /\ Len(<<>>) = 0 /\ 1..0 = {} /\ Numbers(<<>>) = <<>>
      /\ Flattened(<<>>) = <<>>
  BY DEF Numbers, Flattened
<1>6. /\ a \in Seq(BlockSet) /\ \A i \in 1..Len(a) : a[i].type = "thinking"
  <2>1. CASE ThoughtOf(answer)
    BY <1>1, <1>4, <2>1
  <2>2. CASE ~ThoughtOf(answer)
    BY <1>5, <2>2
  <2> QED
    BY <2>1, <2>2
<1>7. Numbers(a) = IF ThoughtOf(answer) THEN <<<<k, 1>>>> ELSE <<>>
  BY <1>1, <1>4, <1>5
<1>8. /\ b \in Seq(BlockSet) /\ \A i \in 1..Len(b) : b[i].type = "text"
  <2>1. CASE answer.content = "text"
    <3>1. b = <<Block("text", <<k, 2>>)>> /\ "text" \in Types /\ <<k, 2>> \in Number
      BY <1>1, <2>1
    <3> DEFINE y == <<Block("text", <<k, 2>>)>>
    <3>2. y \in Seq(BlockSet) /\ \A i \in 1..Len(y) : y[i].type = "text"
      BY <1>4, <3>1, Zenon
    <3>3. b = y
      BY <3>1
    <3> HIDE DEF y
    <3> QED
      BY <3>2, <3>3
  <2>2. CASE answer.content # "text"
    BY <1>5, <2>2
  <2> QED
    BY <2>1, <2>2
<1>9. Numbers(b) = IF answer.content = "text" THEN <<<<k, 2>>>> ELSE <<>>
  BY <1>1, <1>4, <1>5
<1>10. Flattened(b) = IF answer.content = "text"
                      THEN <<[as |-> "text", n |-> <<k, 2>>]>> ELSE <<>>
  <2>1. CASE answer.content = "text"
    <3> DEFINE y == Block("text", <<k, 2>>)
               p == [as |-> "text", n |-> <<k, 2>>]
    <3>1. Piece(y) = p
      BY <1>3 DEF Piece
    <3>2. b = <<y>>
      BY <2>1
    <3> HIDE DEF y, p
    <3>3. DOMAIN <<y>> = 1..1 /\ <<y>>[1] = y
      OBVIOUS
    <3>4. Flattened(b) = [i \in 1..1 |-> Piece(b[i])]
      BY <3>2, <3>3 DEF Flattened
    <3>5. \A i \in 1..1 : Piece(b[i]) = p
      <4>1. b[1] = y
        BY <3>2, <3>3, Zenon
      <4>2. \A i \in 1..1 : i = 1
        OBVIOUS
      <4> QED
        BY <3>1, <4>1, <4>2, Zenon
    <3>6. [i \in 1..1 |-> Piece(b[i])] = [i \in 1..1 |-> p]
      BY <3>5
    <3>7. [i \in 1..1 |-> p] = <<p>>
      OBVIOUS
    <3> QED
      BY <2>1, <3>4, <3>6, <3>7 DEF p
  <2>2. CASE answer.content # "text"
    BY <1>5, <2>2
  <2> QED
    BY <2>1, <2>2
<1>11. /\ Calls(answer, k) = [i \in 1..N |-> <<k, 2 + i>>]
       /\ \A i \in 1..N : Calls(answer, k)[i] = <<k, 2 + i>> /\ <<k, 2 + i>> \in Number
       /\ Calls(answer, k) \in Seq(Number) /\ DOMAIN Calls(answer, k) = 1..N
  <2>1. \A i \in 1..N : 2 + i \in Nat
    BY <1>0
  <2>2. \A i \in 1..N : <<k, 2 + i>> \in Number
    BY <1>1, <2>1
  <2> DEFINE v(i) == <<k, 2 + i>>
             w == [i \in 1..N |-> v(i)]
  <2>3. w = Calls(answer, k)
    BY <1>0 DEF Calls
  <2>4. \A i \in 1..N : v(i) \in Number
    BY <2>2
  <2> HIDE DEF v, N
  <2>5. w \in Seq(Number) /\ DOMAIN w = 1..N /\ \A i \in 1..N : w[i] = v(i)
    BY <1>0, <2>4, SMTT(30)
  <2>6. w = [i \in 1..N |-> <<k, 2 + i>>]
    BY DEF v
  <2> HIDE DEF w
  <2>7. \A i \in 1..N : w[i] = <<k, 2 + i>>
    BY <2>5 DEF v
  <2> QED
    BY <2>2, <2>3, <2>5, <2>6, <2>7
<1>12. c \in Seq(BlockSet) /\ Len(c) = N
       /\ \A i \in 1..N : /\ c[i].type = "tool_use" /\ c[i].n = Calls(answer, k)[i]
                         /\ c[i].input = InputOf(answer.calls[i])
  <2> DEFINE f(i) == CallBlock(Calls(answer, k)[i], InputOf(answer.calls[i]))
  <2>1. ASSUME NEW i \in 1..N
        PROVE  /\ f(i) \in BlockSet /\ f(i).type = "tool_use"
               /\ f(i).n = Calls(answer, k)[i] /\ f(i).input = InputOf(answer.calls[i])
    <3>1. InputOf(answer.calls[i]) \in {"value", "text"}
      BY DEF InputOf
    <3>2. Calls(answer, k)[i] \in Number
      BY <1>11
    <3> QED
      BY <1>1, <3>1, <3>2 DEF CallBlock, BlockSet
  <2>2. c = [i \in 1..N |-> f(i)]
    BY <1>0 DEF CallBlocks
  <2>3. c \in Seq(BlockSet) /\ Len(c) = N
    <3> HIDE DEF f, N
    <3>1. c \in [1..N -> BlockSet]
      BY <2>1, <2>2
    <3> QED
      BY <1>0, <3>1
  <2>4. \A i \in 1..N : c[i] = f(i)
    BY <2>2
  <2> HIDE DEF f
  <2> QED
    BY <2>1, <2>3, <2>4
<1>13. Numbers(c) = Calls(answer, k)
  <2>1. /\ Numbers(c) \in Seq(Number) /\ Len(Numbers(c)) = N
        /\ \A i \in 1..N : Numbers(c)[i] = Calls(answer, k)[i]
    BY <1>12, NumbersOfBlocks
  <2> DEFINE v == Numbers(c)
             w == Calls(answer, k)
  <2>2. w \in Seq(Number) /\ DOMAIN w = 1..N
    BY <1>11
  <2>3. v \in Seq(Number) /\ Len(v) = N /\ \A i \in 1..N : v[i] = w[i]
    BY <2>1
  <2> HIDE DEF v, w
  <2>4. Len(w) = N
    BY <2>2
  <2>5. v = w
    <3>1. DOMAIN v = 1..N
      BY <2>3
    <3>2. v = [i \in 1..N |-> v[i]] /\ w = [i \in 1..N |-> w[i]]
      BY <2>2, <2>3, <3>1
    <3>3. [i \in 1..N |-> v[i]] = [i \in 1..N |-> w[i]]
      BY <2>3
    <3> QED
      BY <3>2, <3>3
  <2> QED
    BY <2>5 DEF v, w
<1>14. Dumped(c) = Returned(answer.calls)
  <2>1. DOMAIN c = 1..N
    BY <1>12
  <2>2. Dumped(c) = [i \in 1..N |-> ArgumentsOf(c[i].input)]
    BY <2>1 DEF Dumped
  <2>3. Returned(answer.calls)
          = [i \in 1..N |-> IF answer.calls[i] = "text" THEN "quoted" ELSE "json"]
    BY <1>0 DEF Returned
  <2>4. \A i \in 1..N : ArgumentsOf(c[i].input)
                         = IF answer.calls[i] = "text" THEN "quoted" ELSE "json"
    BY <1>12 DEF InputOf, ArgumentsOf
  <2> HIDE DEF N
  <2> QED
    BY <2>2, <2>3, <2>4
<1> HIDE DEF N
<1>15. \A i \in 1..Len(c) : c[i].type = "tool_use"
  BY <1>12
<1> QED
  BY <1>6, <1>7, <1>8, <1>9, <1>10, <1>12, <1>13, <1>14, <1>15 DEF Parts

\* What transformResponse makes of an answer is an assistant's message, and
\* transformRequest makes of it what the provider said, with the arguments of its calls
\* as JSON.
LEMMA ResponseContent ==
  ASSUME NEW answer, answer.calls \in Seq(ArgumentForms), NEW k \in Nat
  PROVE  /\ AssistantContent(TransformResponse(answer, k), k)
         /\ FromAssistant(TransformResponse(answer, k)).content =
              IF answer.content = "text" THEN <<[as |-> "text", n |-> <<k, 2>>]>> ELSE <<>>
         /\ FromAssistant(TransformResponse(answer, k)).reasoning =
              IF ThoughtOf(answer) THEN <<<<k, 1>>>> ELSE <<>>
         /\ FromAssistant(TransformResponse(answer, k)).calls = Calls(answer, k)
         /\ FromAssistant(TransformResponse(answer, k)).arguments = Returned(answer.calls)
<1> DEFINE a == IF ThoughtOf(answer) THEN <<Block("thinking", <<k, 1>>)>> ELSE <<>>
           b == IF answer.content = "text" THEN <<Block("text", <<k, 2>>)>> ELSE <<>>
           c == CallBlocks(answer, k)
           r == TransformResponse(answer, k)
<1>1. r = (a \o b) \o c
  BY DEF TransformResponse, CallBlocks
<1>2. /\ a \in Seq(BlockSet) /\ b \in Seq(BlockSet) /\ c \in Seq(BlockSet)
      /\ \A i \in 1..Len(a) : a[i].type = "thinking"
      /\ \A i \in 1..Len(b) : b[i].type = "text"
      /\ \A i \in 1..Len(c) : c[i].type = "tool_use"
      /\ Numbers(a) = IF ThoughtOf(answer) THEN <<<<k, 1>>>> ELSE <<>>
      /\ Numbers(b) = IF answer.content = "text" THEN <<<<k, 2>>>> ELSE <<>>
      /\ Flattened(b) = IF answer.content = "text"
                        THEN <<[as |-> "text", n |-> <<k, 2>>]>> ELSE <<>>
      /\ Numbers(c) = Calls(answer, k)
      /\ Dumped(c) = Returned(answer.calls)
  <2>1. /\ a = (IF ThoughtOf(answer) THEN <<Block("thinking", <<k, 1>>)>> ELSE <<>>)
        /\ b = (IF answer.content = "text" THEN <<Block("text", <<k, 2>>)>> ELSE <<>>)
        /\ c = CallBlocks(answer, k)
    OBVIOUS
  <2> HIDE DEF a, b, c
  <2>2. Parts(answer, k, a, b, c)
    BY <2>1, ResponseParts
  <2> QED
    BY <2>2 DEF Parts
<1> HIDE DEF a, b, c, r
<1>3. a \o b \in Seq(BlockSet)
  BY <1>2
<1>4. /\ OfType("thinking", a) = a /\ OfType("text", b) = b /\ OfType("tool_use", c) = c
  BY <1>2, OfTypeWhole
<1>5. /\ OfType("text", a) = <<>> /\ OfType("tool_use", a) = <<>>
  <2>1. /\ \A i \in 1..Len(a) : a[i].type # "text"
        /\ \A i \in 1..Len(a) : a[i].type # "tool_use"
    BY <1>2
  <2> QED
    BY <1>2, <2>1, OfTypeNone
<1>6. /\ OfType("thinking", b) = <<>> /\ OfType("tool_use", b) = <<>>
  <2>1. /\ \A i \in 1..Len(b) : b[i].type # "thinking"
        /\ \A i \in 1..Len(b) : b[i].type # "tool_use"
    BY <1>2
  <2> QED
    BY <1>2, <2>1, OfTypeNone
<1>7. /\ OfType("thinking", c) = <<>> /\ OfType("text", c) = <<>>
  <2>1. /\ \A i \in 1..Len(c) : c[i].type # "thinking"
        /\ \A i \in 1..Len(c) : c[i].type # "text"
    BY <1>2
  <2> QED
    BY <1>2, <2>1, OfTypeNone
<1>8. \A t : OfType(t, r) = (OfType(t, a) \o OfType(t, b)) \o OfType(t, c)
  <2> SUFFICES ASSUME NEW t
               PROVE  OfType(t, r) = (OfType(t, a) \o OfType(t, b)) \o OfType(t, c)
    OBVIOUS
  <2>1. OfType(t, r) = OfType(t, a \o b) \o OfType(t, c)
    BY <1>1, <1>2, <1>3, OfTypeJoined, ZenonT(60)
  <2>2. OfType(t, a \o b) = OfType(t, a) \o OfType(t, b)
    BY <1>2, OfTypeJoined, ZenonT(40)
  <2> QED
    BY <2>1, <2>2
<1>9. \A x \in Seq(BlockSet) : (<<>> \o x) = x /\ (x \o <<>>) = x
  OBVIOUS
<1>10. OfType("thinking", r) = a /\ OfType("text", r) = b /\ OfType("tool_use", r) = c
  <2>1. OfType("thinking", r) = (a \o <<>>) \o <<>>
    BY <1>4, <1>6, <1>7, <1>8
  <2>2. OfType("text", r) = (<<>> \o b) \o <<>>
    BY <1>4, <1>5, <1>7, <1>8
  <2>3. OfType("tool_use", r) = (<<>> \o <<>>) \o c
    BY <1>4, <1>5, <1>6, <1>8
  <2>4. <<>> \in Seq(BlockSet)
    OBVIOUS
  <2> QED
    BY <1>2, <1>9, <2>1, <2>2, <2>3, <2>4
<1>11. /\ FromAssistant(r).content = Flattened(b)
       /\ FromAssistant(r).reasoning = Numbers(a)
       /\ FromAssistant(r).calls = Numbers(c)
       /\ FromAssistant(r).arguments = Dumped(c)
  BY <1>10 DEF FromAssistant, OpenAIMessage
<1>12. AssistantContent(r, k)
  <2> DEFINE A == IF ThoughtOf(answer) THEN {<<k, 1>>} ELSE {}
             B == IF answer.content = "text" THEN {<<k, 2>>} ELSE {}
             C == {<<k, 2 + i>> : i \in 1..Len(answer.calls)}
  <2>1. \A i \in Nat : <<k, i>> \in Number
    BY DEF Number
  <2>2. \A x \in Number : Lists(<<x>>, {x})
    BY DEF Lists
  <2>3. Lists(<<>>, {})
    BY DEF Lists
  <2>4. Lists(Numbers(a), A)
    BY <1>2, <2>1, <2>2, <2>3
  <2>5. Lists(Numbers(b), B)
    BY <1>2, <2>1, <2>2, <2>3
  <2>6. Lists(Numbers(c), C)
    <3> DEFINE w == Calls(answer, k)
               N == Len(answer.calls)
    <3>0. N \in Nat /\ DOMAIN answer.calls = 1..N
      OBVIOUS
    <3>1. w = [i \in 1..N |-> <<k, 2 + i>>]
      BY <3>0 DEF Calls
    <3>2. \A i \in 1..N : 2 + i \in Nat
      BY <3>0
    <3>3. \A i \in 1..N : w[i] = <<k, 2 + i>> /\ w[i] \in Number
      BY <2>1, <3>1, <3>2
    <3>4. DOMAIN w = 1..N /\ N \in Nat
      BY <3>0, <3>1
    <3>5. w = [i \in 1..N |-> w[i]]
      BY <3>1
    <3> HIDE DEF w
    <3>a. [i \in 1..N |-> w[i]] \in Seq(Number)
      BY <3>3, <3>4
    <3>b. w \in Seq(Number)
      BY <3>5, <3>a
    <3>6. w \in Seq(Number) /\ Len(w) = N
      BY <3>4, <3>b
    <3>7. {w[i] : i \in 1..N} = C
      BY <3>3
    <3>8. \A i, j \in 1..N : i # j => w[i] # w[j]
      BY <3>3
    <3>9. Lists(w, C)
      BY <3>6, <3>7, <3>8 DEF Lists
    <3> QED
      BY <1>2, <3>9 DEF w
  <2>7. A \cap B = {} /\ (A \cup B) \cap C = {}
    OBVIOUS
  <2>8. \A x \in (A \cup B) \cup C : x[1] = k
    OBVIOUS
  <2> HIDE DEF A, B, C
  <2>9. Lists((Numbers(a) \o Numbers(b)) \o Numbers(c), (A \cup B) \cup C)
    <3>1. Lists(Numbers(a) \o Numbers(b), A \cup B)
      BY <2>4, <2>5, <2>7, ListsJoined
    <3> QED
      BY <2>6, <2>7, <3>1, ListsJoined
  <2>10. r \in Seq(BlockSet) /\ Numbers(r) = (Numbers(a) \o Numbers(b)) \o Numbers(c)
    <3>1. a \o b \in Seq(BlockSet) /\ Numbers(a \o b) = Numbers(a) \o Numbers(b)
      BY <1>2, NumbersJoined
    <3>2. (a \o b) \o c \in Seq(BlockSet)
          /\ Numbers((a \o b) \o c) = Numbers(a \o b) \o Numbers(c)
      BY <1>2, <3>1, NumbersJoined
    <3> QED
      BY <1>1, <3>1, <3>2
  <2>11. Lists(Numbers(r), (A \cup B) \cup C)
    BY <2>9, <2>10
  <2> QED
    BY <2>8, <2>10, <2>11, DistinctOfLists
<1> QED
  BY <1>2, <1>11, <1>12 DEF r

\* The fields of an assistant's message.
Spoken(c, r, w, a) ==
  [OpenAIMessage("assistant", c) EXCEPT !.reasoning = r, !.calls = w, !.arguments = a]
Fields(c, r, w, a) ==
  [role |-> "assistant", content |-> c, reasoning |-> r, calls |-> w, arguments |-> a,
   tool_call_id |-> NoCall]

\* An assistant's message, field by field.
LEMMA MessageOf ==
  ASSUME NEW c, NEW r, NEW w, NEW a
  PROVE  /\ Spoken(c, r, w, a) = Fields(c, r, w, a)
         /\ \A z : [Fields(c, r, w, a) EXCEPT !.arguments = z] = Fields(c, r, w, z)
<1> DEFINE role == "assistant"
           none == <<>>
           call == NoCall
           F(x, y, z) == [role |-> role, content |-> c, reasoning |-> x, calls |-> y,
                          arguments |-> z, tool_call_id |-> call]
<1>1. OpenAIMessage(role, c) = F(none, none, none)
  BY DEF OpenAIMessage
<1>2. \A x, y, z : F(x, y, z) = Fields(c, x, y, z)
  BY DEF Fields
<1> HIDE DEF role, none, call
<1>3. [F(none, none, none) EXCEPT !.reasoning = r] = F(r, none, none)
  OBVIOUS
<1>4. [F(r, none, none) EXCEPT !.calls = w] = F(r, w, none)
  OBVIOUS
<1>5. \A y, z : [F(r, w, y) EXCEPT !.arguments = z] = F(r, w, z)
  OBVIOUS
<1> HIDE DEF F
<1>6. [F(none, none, none) EXCEPT !.reasoning = r, !.calls = w, !.arguments = a]
        = F(r, w, a)
  BY <1>3, <1>4, <1>5
<1>7. Spoken(c, r, w, a) = F(r, w, a)
  BY <1>1, <1>6 DEF Spoken, role
<1> QED
  BY <1>2, <1>5, <1>7

\* Unless it gave reasoning under both names, a provider gets its message back, with the
\* arguments of its calls as JSON.
LEMMA SaidAgain ==
  ASSUME NEW answer, answer.calls \in Seq(ArgumentForms), NEW k \in Nat,
         ~(answer.reasoning_content # "absent" /\ answer.reasoning # "absent")
  PROVE  FromAssistant(TransformResponse(answer, k))
           = [SaidMessage(answer, k) EXCEPT !.arguments = Returned(@)]
<1> DEFINE x == FromAssistant(TransformResponse(answer, k))
           y == SaidMessage(answer, k)
           content == IF answer.content = "text"
                      THEN <<[as |-> "text", n |-> <<k, 2>>]>> ELSE <<>>
           thoughts == IF ThoughtOf(answer) THEN <<<<k, 1>>>> ELSE <<>>
           again == IF "text" \in {answer.reasoning_content, answer.reasoning}
                    THEN <<<<k, 1>>>> ELSE <<>>
           calls == Calls(answer, k)
           given == answer.calls
<1>1. /\ x.content = content /\ x.reasoning = thoughts /\ x.calls = calls
      /\ x.arguments = Returned(given)
  BY ResponseContent
<1>2. again = thoughts
  BY DEF ThoughtOf
<1>3. y = Fields(content, again, calls, given)
  <2>1. y = Spoken(content, again, calls, given)
    BY DEF SaidMessage, Spoken
  <2> HIDE DEF y, content, again, calls, given
  <2> QED
    BY <2>1, MessageOf
<1>4. x = Fields(x.content, x.reasoning, x.calls, x.arguments)
  <2> DEFINE r == TransformResponse(answer, k)
             u == Flattened(OfType("text", r))
             v == Numbers(OfType("thinking", r))
             w == Numbers(OfType("tool_use", r))
             z == Dumped(OfType("tool_use", r))
  <2>1. x = Spoken(u, v, w, z)
    BY DEF FromAssistant, Spoken
  <2> HIDE DEF u, v, w, x, z
  <2>2. x = Fields(u, v, w, z)
    BY <2>1, MessageOf
  <2>3. x.content = u /\ x.reasoning = v /\ x.calls = w /\ x.arguments = z
    BY <2>2 DEF Fields
  <2> QED
    BY <2>2, <2>3
<1> HIDE DEF x, y, content, thoughts, again, calls, given
<1>5. y.arguments = given
  BY <1>3 DEF Fields
<1>6. [y EXCEPT !.arguments = Returned(@)] = [y EXCEPT !.arguments = Returned(given)]
  BY <1>5
<1>7. [y EXCEPT !.arguments = Returned(given)]
        = Fields(content, again, calls, Returned(given))
  BY <1>3, MessageOf
<1>8. x = Fields(content, thoughts, calls, Returned(given))
  BY <1>1, <1>4
<1> QED
  BY <1>2, <1>6, <1>7, <1>8 DEF x, y

--------------------------------------------------------------------------------
(* Nothing is lost, repeated or reordered.                                   *)

\* What a part of a translated request has to say: the system prompt, or what is
\* kept of a message.
Own(m, k) == IF k = 0 THEN ToSet(Numbers(System)) ELSE Kept(m[k])

\* The system prompt's texts, each once.
LEMMA SystemWords ==
  /\ Lists(Numbers(System), ToSet(Numbers(System)))
  /\ \A x \in ToSet(Numbers(System)) : x[1] = 0
<1> DEFINE w == Numbers(System)
           R == [type : {"text"}, n : {0} \X Nat, input : {"value"}]
<1>1. System \in Seq(R) /\ \A i, j \in DOMAIN System : i # j => System[i].n # System[j].n
  BY SystemAssumption
<1>2. System \in Seq(BlockSet)
  BY SystemBlocks
<1>3. /\ w \in Seq(Number) /\ Len(w) = Len(System)
      /\ \A i \in 1..Len(System) : w[i] = System[i].n
  BY <1>2, NumbersOfBlocks
<1>4. \A b \in R : b.n[1] = 0
  OBVIOUS
<1>5. DOMAIN System = 1..Len(System)
  BY <1>2
<1> HIDE DEF w, R
<1>6. \A i \in 1..Len(System) : System[i] \in R
  BY <1>1
<1>7. ToSet(w) = {w[i] : i \in 1..Len(w)}
  BY <1>3 DEF ToSet
<1>8. \A i, j \in 1..Len(w) : i # j => w[i] # w[j]
  BY <1>1, <1>3, <1>5
<1>9. Lists(w, ToSet(w))
  BY <1>3, <1>7, <1>8 DEF Lists
<1>10. \A i \in 1..Len(w) : w[i][1] = 0
  BY <1>3, <1>4, <1>6
<1>11. \A x \in ToSet(w) : x[1] = 0
  BY <1>7, <1>10
<1> QED
  BY <1>9, <1>11 DEF w

\* An assistant's message says what is kept of it.
LEMMA AssistantWords ==
  ASSUME NEW m, NEW k, AssistantAt(m, k)
  PROVE  /\ Lists(Words(FromAssistant(m[k].content)), Kept(m[k]))
         /\ \A x \in Kept(m[k]) : x[1] = k
<1> DEFINE c == m[k].content
<1>1. c \in Seq(BlockSet) /\ Distinct(c) /\ m[k].role = "assistant"
      /\ \A i \in 1..Len(c) : c[i].n[1] = k
  BY DEF AssistantAt, AssistantContent
<1>2. Kept(m[k]) = Kept([role |-> "assistant", content |-> c])
  BY <1>1 DEF Kept
<1>3. Lists(Words(FromAssistant(c)), Kept([role |-> "assistant", content |-> c]))
  BY <1>1, AssistantMessage
<1>4. ASSUME NEW x \in Kept(m[k]) PROVE x[1] = k
  <2>1. PICK b \in ToSet(c) : x = b.n
    BY DEF Kept
  <2>2. PICK i \in 1..Len(c) : b = c[i]
    BY <1>1, <2>1 DEF ToSet
  <2> QED
    BY <1>1, <2>1, <2>2
<1> QED
  BY <1>2, <1>3, <1>4

\* A user's message says all but the results.
LEMMA UserWords ==
  ASSUME NEW m, NEW k, UserAt(m, k)
  PROVE  /\ Lists(Numbers(RestOf(m[k].content)), Kept(m[k]))
         /\ \A x \in Kept(m[k]) : x[1] = k
         /\ Lead(m[k].content) # 1 => Kept(m[k]) = {}
<1> DEFINE c == m[k].content
           r == RestOf(c)
           w == Numbers(r)
<1>1. /\ r \in Seq(BlockSet) /\ m[k].role = "user"
      /\ Kept([role |-> "user", content |-> c]) = {r[i].n : i \in 1..Len(r)}
      /\ \A i \in 1..Len(r) : r[i].n = <<k, i>>
  BY DEF UserAt, Adds
<1>2. Kept(m[k]) = {r[i].n : i \in 1..Len(r)}
  BY <1>1 DEF Kept
<1>3. /\ w \in Seq(Number) /\ Len(w) = Len(r) /\ \A i \in 1..Len(r) : w[i] = r[i].n
  BY <1>1, NumbersOfBlocks
<1>4. Lead(c) # 1 => Len(r) = 0
  BY DEF Lead
<1> HIDE DEF c, r, w
<1>5. {w[i] : i \in 1..Len(w)} = Kept(m[k])
  BY <1>2, <1>3
<1>6. \A i, j \in 1..Len(w) : i # j => w[i] # w[j]
  BY <1>1, <1>3
<1>7. Lists(w, Kept(m[k]))
  BY <1>3, <1>5, <1>6 DEF Lists
<1>8. \A x \in Kept(m[k]) : x[1] = k
  BY <1>1, <1>2
<1>9. Lead(c) # 1 => Kept(m[k]) = {}
  BY <1>2, <1>4
<1> QED
  BY <1>7, <1>8, <1>9 DEF c, r, w

\* Where a place is, and what it says.
Start(off, k) == IF k = 0 THEN 1 ELSE off[k - 1] + 1
Home(s, m, off, k, j) ==
  /\ k = 0 => j <= off[0]
  /\ k > 0 => off[k - 1] < j /\ j <= off[k]
  /\ \/ Words(s[j]) = <<>>
     \/ Lists(Words(s[j]), Own(m, k)) /\ j = Start(off, k)
  /\ \A x \in Own(m, k) : x[1] = k

\* Each translated message has a home, and the first one there says all of it.
LEMMA Homes ==
  ASSUME NEW s, NEW m, NEW off, Translation(s, m, off), NEW j \in 1..Len(s)
  PROVE  \E k \in 0..Len(m) : Home(s, m, off, k, j)
<1>1. CASE SystemPlace(s, m, off, j)
  <2>1. j <= off[0] /\ Lists(Words(s[j]), Own(m, 0)) /\ j = Start(off, 0)
        /\ \A x \in Own(m, 0) : x[1] = 0
    BY <1>1, SystemWords DEF SystemPlace, Own, Start
  <2>2. 0 \in 0..Len(m)
    <3>1. off \in [0..Len(m) -> Nat] /\ off[0] = 1 /\ Len(s) = off[Len(m)]
      BY <1>1 DEF Translation, Shape, SystemPlace
    <3>2. Len(m) \in Nat
      <4> DEFINE R == [role : {"user", "assistant"}, content : Seq(BlockSet)]
      <4>1. m \in Seq(R)
        BY DEF Translation, Convo
      <4> HIDE DEF R
      <4> QED
        BY <4>1
    <3> QED
      BY <3>2
  <2> QED
    BY <2>1, <2>2 DEF Home
<1>2. ASSUME NEW k \in 1..Len(m), AssistantPlace(s, m, off, k, j)
      PROVE  \E l \in 0..Len(m) : Home(s, m, off, l, j)
  <2>1. /\ AssistantAt(m, k) /\ j = off[k - 1] + 1 /\ off[k] = j
        /\ s[j] = FromAssistant(m[k].content)
    BY <1>2 DEF AssistantPlace
  <2>2. off[k - 1] \in Nat /\ k \in 0..Len(m) /\ k > 0 /\ k # 0
    BY PlacesInside
  <2>3. Own(m, k) = Kept(m[k])
    BY <2>2 DEF Own
  <2>4. Lists(Words(s[j]), Own(m, k)) /\ \A x \in Own(m, k) : x[1] = k
    BY <2>1, <2>3, AssistantWords
  <2>5. off[k - 1] < j /\ j <= off[k] /\ j = Start(off, k)
    BY <2>1, <2>2 DEF Start
  <2>6. Home(s, m, off, k, j)
    BY <2>2, <2>4, <2>5 DEF Home
  <2> QED
    BY <2>2, <2>6
<1>3. ASSUME NEW k \in 1..Len(m), LeadPlace(s, m, off, k, j)
      PROVE  \E l \in 0..Len(m) : Home(s, m, off, l, j)
  <2>1. /\ UserAt(m, k) /\ j = off[k - 1] + 1 /\ j <= off[k]
        /\ Words(s[j]) = Numbers(RestOf(m[k].content))
    BY <1>3 DEF LeadPlace
  <2>2. off[k - 1] \in Nat /\ k \in 0..Len(m) /\ k > 0 /\ k # 0
    BY PlacesInside
  <2>3. Own(m, k) = Kept(m[k])
    BY <2>2 DEF Own
  <2>4. Lists(Words(s[j]), Own(m, k)) /\ \A x \in Own(m, k) : x[1] = k
    BY <2>1, <2>3, UserWords
  <2>5. off[k - 1] < j /\ j <= off[k] /\ j = Start(off, k)
    BY <2>1, <2>2 DEF Start
  <2>6. Home(s, m, off, k, j)
    BY <2>2, <2>4, <2>5 DEF Home
  <2> QED
    BY <2>2, <2>6
<1>4. ASSUME NEW k \in 1..Len(m), NEW i \in Nat, ToolPlace(s, m, off, k, i, j)
      PROVE  \E l \in 0..Len(m) : Home(s, m, off, l, j)
  <2>1. /\ UserAt(m, k) /\ j = off[k - 1] + Lead(m[k].content) + i /\ j <= off[k]
        /\ i \in 1..Len(ResultsOf(m[k].content)) /\ Words(s[j]) = <<>>
    BY <1>4 DEF ToolPlace
  <2>2. off[k - 1] \in Nat /\ k \in 0..Len(m) /\ k > 0 /\ k # 0
    BY PlacesInside
  <2>3. Own(m, k) = Kept(m[k])
    BY <2>2 DEF Own
  <2>4. \A x \in Own(m, k) : x[1] = k
    BY <2>1, <2>3, UserWords
  <2>5. off[k - 1] < j
    <3> DEFINE L == Lead(m[k].content)
               b == off[k - 1]
    <3>1. L \in {0, 1}
      BY DEF Lead
    <3>2. i > 0 /\ j = b + L + i
      BY <2>1, <2>2, UserCounts DEF Counts
    <3> HIDE DEF L, b
    <3>3. b \in Nat
      BY <2>2 DEF b
    <3>4. b < j
      BY <3>1, <3>2, <3>3
    <3> QED
      BY <3>4 DEF b
  <2>6. Home(s, m, off, k, j)
    BY <2>1, <2>2, <2>4, <2>5 DEF Home
  <2> QED
    BY <2>2, <2>6
<1> QED
  BY <1>1, <1>2, <1>3, <1>4, Places

\* Whoever has something to say says it.
LEMMA OwnIsSaid ==
  ASSUME NEW s, NEW m, NEW off, Translation(s, m, off), NEW k \in 0..Len(m), Own(m, k) # {}
  PROVE  \E j \in 1..Len(s) : Lists(Words(s[j]), Own(m, k))
<1>1. Len(m) \in Nat
  <2> DEFINE R == [role : {"user", "assistant"}, content : Seq(BlockSet)]
  <2>1. m \in Seq(R)
    BY DEF Translation, Convo
  <2> HIDE DEF R
  <2> QED
    BY <2>1
<1>2. /\ off \in [0..Len(m) -> Nat] /\ Len(s) = off[Len(m)]
      /\ \A l, n \in 0..Len(m) : l <= n => off[l] <= off[n]
  BY DEF Translation, Shape
<1>3. CASE k = 0
  <2>1. Own(m, 0) = ToSet(Numbers(System))
    BY DEF Own
  <2>2. System # <<>>
    <3> SUFFICES ASSUME System = <<>> PROVE FALSE
      OBVIOUS
    <3>1. ToSet(Numbers(System)) = {}
      BY DEF Numbers, ToSet
    <3> QED
      BY <1>3, <2>1, <3>1
  <2>3. SystemPlace(s, m, off, 1)
    BY <2>2, SystemPlaces
  <2>4. Lists(Words(s[1]), Own(m, 0))
    BY <2>1, <2>3, SystemWords DEF SystemPlace
  <2>5. 1 \in 1..Len(s)
    <3>1. 0 \in 0..Len(m) /\ Len(m) \in 0..Len(m) /\ 0 <= Len(m)
      BY <1>1
    <3>2. off[0] = 1 /\ off[0] <= off[Len(m)] /\ off[Len(m)] \in Nat
      BY <1>2, <2>3, <3>1 DEF SystemPlace
    <3> QED
      BY <1>2, <3>2
  <2> QED
    BY <1>3, <2>4, <2>5
<1>4. CASE k # 0
  <2>1. k \in 1..Len(m)
    BY <1>1, <1>4
  <2>2. Own(m, k) = Kept(m[k])
    BY <1>4 DEF Own
  <2>3. off[k] \in Nat /\ off[k - 1] \in Nat /\ off[k] <= Len(s) /\ Len(s) \in Nat
    BY <2>1, PlacesInside
  <2>4. CASE AssistantAt(m, k)
    <3>1. AssistantPlace(s, m, off, k, off[k])
      BY <2>1, <2>4, AssistantPlaces
    <3>2. s[off[k]] = FromAssistant(m[k].content) /\ off[k] = off[k - 1] + 1
      BY <3>1 DEF AssistantPlace
    <3>3. Lists(Words(s[off[k]]), Own(m, k))
      BY <2>2, <2>4, <3>2, AssistantWords
    <3>4. off[k] \in 1..Len(s)
      BY <2>3, <3>2
    <3> QED
      BY <3>3, <3>4
  <2>5. CASE UserAt(m, k)
    <3> DEFINE j == off[k - 1] + 1
    <3>1. Lead(m[k].content) = 1
      BY <2>2, <2>5, UserWords
    <3>2. LeadPlace(s, m, off, k, j)
      BY <2>1, <2>5, <3>1, LeadPlaces
    <3>3. Words(s[j]) = Numbers(RestOf(m[k].content)) /\ j <= off[k]
      BY <3>2 DEF LeadPlace
    <3>4. j \in 1..Len(s)
      BY <2>3, <3>3
    <3>5. Lists(Words(s[j]), Own(m, k))
      BY <2>2, <2>5, <3>3, UserWords
    <3> QED
      BY <3>4, <3>5
  <2> QED
    BY <2>1, <2>4, <2>5, Turns DEF Translation
<1> QED
  BY <1>3, <1>4

\* All of NothingLost, for one translated request.
SaidIn(s) == UNION {ToSet(Words(s[j])) : j \in DOMAIN s}
KeptIn(m) == (UNION {Kept(m[k]) : k \in DOMAIN m}) \cup ToSet(Numbers(System))

\* What a translated request says is what the conversation has.
LEMMA AllIsKept ==
  ASSUME NEW s, NEW m, NEW off, Translation(s, m, off)
  PROVE  SaidIn(s) = KeptIn(m)
<1> DEFINE A == UNION {ToSet(Words(s[j])) : j \in 1..Len(s)}
           prompt == ToSet(Numbers(System))
           kept == UNION {Kept(m[k]) : k \in 1..Len(m)}
           B == kept \cup prompt
<1>a. SaidIn(s) = A
  <2>1. s \in Seq(MessageSet)
    BY DEF Translation, Shape
  <2>2. DOMAIN s = 1..Len(s)
    BY <2>1
  <2> QED
    BY <2>2, Zenon DEF SaidIn
<1>b. KeptIn(m) = B
  <2> DEFINE R == [role : {"user", "assistant"}, content : Seq(BlockSet)]
  <2>1. m \in Seq(R)
    BY DEF Translation, Convo
  <2> HIDE DEF R
  <2>2. DOMAIN m = 1..Len(m)
    BY <2>1
  <2> QED
    <3> DEFINE same == UNION {Kept(m[k]) : k \in DOMAIN m}
    <3>1. same = kept
      BY <2>2, Zenon
    <3>2. KeptIn(m) = same \cup prompt
      BY DEF KeptIn
    <3> HIDE DEF same, kept, prompt
    <3> QED
      BY <3>1, <3>2
<1>1. \A w, C : Lists(w, C) => ToSet(w) = C
  BY DEF Lists, ToSet
<1>2. Len(m) \in Nat
  <2> DEFINE R == [role : {"user", "assistant"}, content : Seq(BlockSet)]
  <2>1. m \in Seq(R)
    BY DEF Translation, Convo
  <2> HIDE DEF R
  <2> QED
    BY <2>1
<1>3. ASSUME NEW k \in 0..Len(m) PROVE Own(m, k) \subseteq B
  <2>1. CASE k = 0
    <3>1. Own(m, k) = prompt
      BY <2>1 DEF Own
    <3> HIDE DEF prompt, kept
    <3> QED
      BY <3>1
  <2>2. CASE k # 0
    <3>1. k \in 1..Len(m)
      BY <1>2, <2>2
    <3>2. Kept(m[k]) \in {Kept(m[l]) : l \in 1..Len(m)}
      BY <3>1
    <3>3. Own(m, k) = Kept(m[k])
      BY <2>2 DEF Own
    <3>4. Own(m, k) \subseteq kept
      BY <3>2, <3>3, Zenon
    <3> HIDE DEF prompt, kept
    <3> QED
      BY <3>4
  <2> QED
    BY <2>1, <2>2
<1>4. ASSUME NEW x \in B PROVE \E k \in 0..Len(m) : x \in Own(m, k)
  <2>1. CASE x \in ToSet(Numbers(System))
    <3>1. x \in Own(m, 0) /\ 0 \in 0..Len(m)
      BY <1>2, <2>1 DEF Own
    <3> QED
      BY <3>1
  <2>2. CASE x \notin ToSet(Numbers(System))
    <3>1. PICK k \in 1..Len(m) : x \in Kept(m[k])
      <4>1. x \in kept
        <5> HIDE DEF kept, prompt
        <5> QED
          BY <2>2 DEF prompt
      <4> QED
        BY <4>1, Zenon
    <3>2. k \in 0..Len(m) /\ k # 0
      BY <1>2
    <3> QED
      BY <3>1, <3>2 DEF Own
  <2> QED
    BY <2>1, <2>2
<1> HIDE DEF B
<1>5. ASSUME NEW j \in 1..Len(s) PROVE ToSet(Words(s[j])) \subseteq B
  <2>1. PICK k \in 0..Len(m) : Home(s, m, off, k, j)
    BY Homes
  <2>2. CASE Words(s[j]) = <<>>
    <3>1. ToSet(Words(s[j])) = {}
      BY <2>2 DEF ToSet
    <3> QED
      BY <3>1
  <2>3. CASE Lists(Words(s[j]), Own(m, k))
    BY <1>1, <1>3, <2>3
  <2> QED
    BY <2>1, <2>2, <2>3 DEF Home
<1>6. ASSUME NEW x \in B PROVE x \in A
  <2>1. PICK k \in 0..Len(m) : x \in Own(m, k)
    BY <1>4
  <2>2. PICK j \in 1..Len(s) : Lists(Words(s[j]), Own(m, k))
    BY <2>1, OwnIsSaid
  <2>3. x \in ToSet(Words(s[j]))
    BY <1>1, <2>1, <2>2
  <2> QED
    BY <2>3
<1>7. A \subseteq B
  BY <1>5
<1> HIDE DEF A
<1>8. A = B
  BY <1>6, <1>7
<1> QED
  BY <1>8, <1>a, <1>b

\* It says nothing twice, and all in the order of the messages.
LEMMA OnceInOrder ==
  ASSUME NEW s, NEW m, NEW off, Translation(s, m, off),
         NEW i \in 1..Len(s), NEW j \in 1..Len(s),
         NEW x \in 1..Len(Words(s[i])), NEW y \in 1..Len(Words(s[j]))
  PROVE  /\ i # j \/ x # y => Words(s[i])[x] # Words(s[j])[y]
         /\ i <= j => Words(s[i])[x][1] <= Words(s[j])[y][1]
<1> DEFINE v == Words(s[i])
           w == Words(s[j])
<1>1. PICK k \in 0..Len(m) : Home(s, m, off, k, i)
  BY Homes
<1>2. PICK l \in 0..Len(m) : Home(s, m, off, l, j)
  BY Homes
<1>3. Len(<<>>) = 0 /\ 1..0 = {}
  OBVIOUS
<1>4. v # <<>> /\ w # <<>>
  BY <1>3
<1>5. /\ Lists(v, Own(m, k)) /\ i = Start(off, k)
      /\ \A z \in Own(m, k) : z[1] = k
  BY <1>1, <1>4 DEF Home
<1>6. /\ Lists(w, Own(m, l)) /\ j = Start(off, l)
      /\ \A z \in Own(m, l) : z[1] = l
  BY <1>2, <1>4 DEF Home
<1> HIDE DEF v, w
<1>7. v[x][1] = k
  <2>1. x \in 1..Len(v)
    BY DEF v
  <2>2. v[x] \in Own(m, k)
    BY <1>5, <2>1 DEF Lists
  <2> QED
    BY <1>5, <2>2
<1>8. w[y][1] = l
  <2>1. y \in 1..Len(w)
    BY DEF w
  <2>2. w[y] \in Own(m, l)
    BY <1>6, <2>1 DEF Lists
  <2> QED
    BY <1>6, <2>2
<1>9. i # j \/ x # y => v[x] # w[y]
  <2> SUFFICES ASSUME v[x] = w[y] PROVE i = j /\ x = y
    OBVIOUS
  <2>1. k = l
    BY <1>7, <1>8
  <2>2. i = j
    BY <1>5, <1>6, <2>1
  <2>3. v = w
    BY <2>2 DEF v, w
  <2>4. x \in 1..Len(v) /\ y \in 1..Len(v)
    BY <2>3 DEF v, w
  <2> QED
    BY <1>5, <2>2, <2>3, <2>4 DEF Lists
<1>10. i <= j => k <= l
  <2> SUFFICES ASSUME i <= j, k > l PROVE FALSE
    OBVIOUS
  <2> DEFINE p == k - 1
  <2>1. p \in 0..Len(m) /\ l <= p /\ k # 0 /\ k > 0
    OBVIOUS
  <2>2. off[p] < i
    BY <1>1, <2>1 DEF Home
  <2>3. j <= off[l]
    <3>1. l = 0 \/ l > 0
      OBVIOUS
    <3> QED
      BY <1>2, <3>1 DEF Home
  <2>4. off[l] <= off[p]
    BY <2>1 DEF Translation, Shape
  <2>5. off[l] \in Nat /\ off[p] \in Nat
    <3>1. off \in [0..Len(m) -> Nat]
      BY DEF Translation, Shape
    <3> QED
      BY <2>1, <3>1
  <2> HIDE DEF p
  <2> QED
    BY <2>2, <2>3, <2>4, <2>5
<1> QED
  BY <1>7, <1>8, <1>9, <1>10 DEF v, w

\* The words of a translated message are a sequence.
LEMMA WordsAreList ==
  ASSUME NEW s, NEW m, NEW off, Translation(s, m, off), NEW i \in 1..Len(s)
  PROVE  DOMAIN Words(s[i]) = 1..Len(Words(s[i]))
<1>1. PICK k \in 0..Len(m) : Home(s, m, off, k, i)
  BY Homes
<1>2. Words(s[i]) = <<>> \/ Words(s[i]) \in Seq(Number)
  BY <1>1 DEF Home, Lists
<1> QED
  BY <1>2

--------------------------------------------------------------------------------
(* The conversation, step by step.                                           *)

Message == [role : {"user", "assistant"}, content : Seq(BlockSet)]

\* The next message of a conversation is of the one who did not speak last: an
\* assistant's blocks, or a user's results for the open calls and own words.
LEMMA Continued ==
  ASSUME NEW m, Convo(m), NEW r \in Message, NEW n, n = Len(m) + 1,
         r.role = "assistant" =>
           m # <<>> /\ m[Len(m)].role = "user" /\ AssistantContent(r.content, n),
         r.role = "user" =>
           /\ m # <<>> => m[Len(m)].role = "assistant"
           /\ UserContent(r.content, n,
                          IF m = <<>> THEN <<>>
                          ELSE Numbers(OfType("tool_use", m[Len(m)].content)))
  PROVE  Convo(Append(m, r))
<1> DEFINE a == Append(m, r)
<1>1. m \in Seq(Message)
  BY DEF Convo, Message
<1>2. a \in Seq(Message) /\ Len(a) = n /\ n \in Nat /\ n > 0 /\ a[n] = r
  BY <1>1
<1>3. \A k \in 1..(n - 1) : a[k] = m[k]
  BY <1>1
<1>4. Len(m) = n - 1 /\ n - 1 \in Nat /\ (m # <<>> <=> n > 1)
  BY <1>1
<1> HIDE DEF a
<1>5. ASSUME NEW k \in 1..Len(a), a[k].role = "assistant"
      PROVE  k > 1 /\ a[k - 1].role = "user" /\ AssistantContent(a[k].content, k)
  <2>1. CASE k = n
    <3>1. m # <<>> /\ m[n - 1].role = "user" /\ AssistantContent(r.content, n)
      BY <1>2, <1>4, <1>5, <2>1
    <3>2. n > 1 /\ a[n - 1] = m[n - 1]
      <4>1. n > 1
        BY <1>4, <3>1
      <4>2. n - 1 \in 1..(n - 1)
        BY <1>2, <4>1
      <4> QED
        BY <1>3, <4>1, <4>2
    <3> QED
      BY <1>2, <2>1, <3>1, <3>2
  <2>2. CASE k # n
    <3>1. k \in 1..(n - 1) /\ k \in 1..Len(m)
      BY <1>2, <1>4, <2>2
    <3>2. a[k] = m[k]
      BY <1>3, <3>1
    <3>3. k > 1 /\ m[k - 1].role = "user" /\ AssistantContent(m[k].content, k)
      BY <1>5, <3>1, <3>2 DEF Convo
    <3>4. k - 1 \in 1..(n - 1)
      BY <1>2, <3>1, <3>3
    <3>5. a[k - 1] = m[k - 1]
      BY <1>3, <3>4
    <3> QED
      BY <3>2, <3>3, <3>5
  <2> QED
    BY <2>1, <2>2
<1>6. ASSUME NEW k \in 1..Len(a), a[k].role = "user"
      PROVE  /\ k > 1 => a[k - 1].role = "assistant"
             /\ UserContent(a[k].content, k, CallsBefore(a, k))
  <2>1. k > 1 => a[k - 1] = m[k - 1]
    <3> SUFFICES ASSUME k > 1 PROVE a[k - 1] = m[k - 1]
      OBVIOUS
    <3>1. k - 1 \in 1..(n - 1)
      BY <1>2
    <3> QED
      BY <1>3, <3>1
  <2>2. CallsBefore(a, k) = CallsBefore(m, k)
    <3>1. CASE k = 1
      BY <3>1 DEF CallsBefore
    <3>2. CASE k > 1
      BY <2>1, <3>2 DEF CallsBefore
    <3> QED
      BY <1>2, <3>1, <3>2
  <2>3. CASE k = n
    <3>1. /\ m # <<>> => m[n - 1].role = "assistant"
          /\ UserContent(r.content, n,
                         IF m = <<>> THEN <<>>
                         ELSE Numbers(OfType("tool_use", m[n - 1].content)))
      BY <1>2, <1>4, <1>6, <2>3
    <3>2. CallsBefore(m, n) = IF m = <<>> THEN <<>>
                              ELSE Numbers(OfType("tool_use", m[n - 1].content))
      BY <1>2, <1>4 DEF CallsBefore
    <3>3. UserContent(r.content, n, CallsBefore(m, n))
      BY <3>1, <3>2
    <3>4. n > 1 => m[n - 1].role = "assistant"
      BY <1>4, <3>1
    <3> QED
      BY <1>2, <2>1, <2>2, <2>3, <3>3, <3>4
  <2>4. CASE k # n
    <3>1. k \in 1..(n - 1) /\ k \in 1..Len(m)
      BY <1>2, <1>4, <2>4
    <3>2. a[k] = m[k]
      BY <1>3, <3>1
    <3>3. /\ k > 1 => m[k - 1].role = "assistant"
          /\ UserContent(m[k].content, k, CallsBefore(m, k))
      BY <1>6, <3>1, <3>2 DEF Convo
    <3> QED
      BY <2>1, <2>2, <3>2, <3>3
  <2> QED
    BY <2>3, <2>4
<1>7. a \in Seq([role : {"user", "assistant"}, content : Seq(BlockSet)])
  BY <1>2 DEF Message
<1>8. Convo(a)
  BY <1>5, <1>6, <1>7 DEF Convo
<1> QED
  BY <1>8 DEF a

\* What an Anthropic provider answers is numbered by the client's next message.
LEMMA AnthropicContent ==
  ASSUME NEW types \in AnthropicAnswers, NEW k \in Nat
  PROVE  AssistantContent([i \in DOMAIN types |-> Block(types[i], <<k, i>>)], k)
<1> DEFINE c == [i \in DOMAIN types |-> Block(types[i], <<k, i>>)]
           L == Len(types)
<1>1. types \in Seq(ToSet(types))
  BY AnswersAssumption
<1>2. L \in Nat /\ DOMAIN types = 1..L
  BY <1>1
<1>3. \A i \in 1..L : types[i] \in Types
  <2>1. \A i \in 1..L : types[i] \in ToSet(types)
    BY <1>2 DEF ToSet
  <2> QED
    BY <2>1 DEF Types
<1>4. \A i \in 1..L : <<k, i>> \in Number
  BY <1>2 DEF Number
<1>5. \A i \in 1..L : Block(types[i], <<k, i>>) \in BlockSet
  BY <1>3, <1>4 DEF Block, BlockSet
<1>6. /\ c \in Seq(BlockSet) /\ Len(c) = L
      /\ \A i \in 1..L : c[i] = Block(types[i], <<k, i>>)
  BY <1>2, <1>5
<1>7. \A i \in 1..L : c[i].n = <<k, i>>
  BY <1>6 DEF Block
<1> HIDE DEF c, L
<1>8. Distinct(c) /\ \A i \in 1..Len(c) : c[i].n[1] = k
  BY <1>6, <1>7 DEF Distinct
<1>9. AssistantContent(c, k)
  BY <1>6, <1>8 DEF AssistantContent
<1> QED
  BY <1>9 DEF c

\* What an OpenAI provider said, as the client keeps it: the content of message k.
SaidAs(record, k, content) ==
  \E answer \in OpenAIAnswers :
    /\ content = TransformResponse(answer, k)
    /\ record.message = SaidMessage(answer, k)
    /\ record.twice <=> answer.reasoning_content # "absent" /\ answer.reasoning # "absent"

\* A request is for the message of the user that ends the conversation.
ForUser(m) == m # <<>> /\ m[Len(m)].role = "user"

\* An answer is a message for the conversation, or has no content.
AnswerInv ==
  request.pc = "answered" =>
    request.content = NoContent \/ AssistantContent(request.content, Turn)

\* What was said is in the conversation, or the answer that the client reads next.
Heard(record, m, k) ==
  k \in 1..Len(m) /\ m[k].role = "assistant" /\ SaidAs(record, k, m[k].content)
SaidInv ==
  \A k \in DOMAIN said :
    \/ Heard(said[k], messages, k)
    \/ k = Turn /\ request.pc = "answered" /\ SaidAs(said[k], k, request.content)

\* The conversation is one, and a request has all of it.
HistoryInv ==
  /\ Convo(messages)
  /\ request.pc # "idle" => ForUser(messages)
  /\ request.pc = "idle" <=> request = Idle
  /\ Translated => Sent = TransformRequest(System, messages)
  /\ AnswerInv
  /\ SaidInv

\* The empty conversation is one.
LEMMA InitHistory == Init => HistoryInv
<1> SUFFICES ASSUME Init PROVE HistoryInv
  OBVIOUS
<1>1. messages = <<>> /\ request = Idle /\ request.pc = "idle" /\ DOMAIN said = {}
  BY DEF Init, Idle, NothingSaid
<1>2. Convo(messages)
  BY <1>1 DEF Convo
<1> QED
  BY <1>1, <1>2 DEF HistoryInv, Translated, AnswerInv, SaidInv

\* Before there is an answer, all that was said is in the conversation.
LEMMA HeardBefore ==
  ASSUME HistoryInv, request.pc # "answered", NEW k \in DOMAIN said
  PROVE  Heard(said[k], messages, k)
  BY DEF HistoryInv, SaidInv

\* An answer that nothing was said with.
LEMMA RespondHistory ==
  ASSUME HistoryInv, request.pc \in {"asked", "forwarded"}, UNCHANGED said,
         NEW status, NEW content, Respond(status, content),
         content = NoContent \/ AssistantContent(content, Turn)
  PROVE  HistoryInv'
<1>1. /\ request'.pc = "answered" /\ request'.content = content /\ messages' = messages
      /\ said' = said /\ request' # Idle
  BY DEF Respond, Idle
<1>2. Convo(messages)' /\ ForUser(messages)'
  BY <1>1 DEF HistoryInv
<1>3. AnswerInv'
  BY <1>1 DEF AnswerInv, Turn
<1>4. SaidInv'
  <2>1. request.pc # "answered"
    OBVIOUS
  <2> QED
    BY <1>1, <2>1, HeardBefore DEF SaidInv
<1>5. ~Translated'
  BY <1>1 DEF Translated
<1> QED
  BY <1>1, <1>2, <1>3, <1>4, <1>5 DEF HistoryInv

\* The place of the next message.
LEMMA TurnIsPlace ==
  HistoryInv => Turn \in Nat /\ Turn = Len(messages) + 1 /\ Len(messages) \in Nat
  BY DEF HistoryInv, Convo, Turn

\* A request is for a user's message.
LEMMA AskHistory ==
  ASSUME HistoryInv, NEW kind, NEW model, Ask(kind, model)
  PROVE  HistoryInv'
<1>1. /\ request = Idle /\ messages # <<>> /\ Last(messages).role = "user"
      /\ request'.pc = "asked" /\ messages' = messages /\ said' = said
  BY DEF Ask
<1>2. Last(messages) = messages[Len(messages)]
  BY DEF Last
<1>3. request'.pc # "idle" /\ request' # Idle
  BY <1>1 DEF Idle
<1>4. Convo(messages)' /\ ForUser(messages)'
  BY <1>1, <1>2 DEF HistoryInv, ForUser
<1>5. SaidInv'
  <2>1. request.pc # "answered"
    BY <1>1 DEF Idle
  <2> QED
    BY <1>1, <2>1, HeardBefore DEF SaidInv
<1>6. AnswerInv' /\ ~Translated'
  BY <1>1 DEF AnswerInv, Translated
<1> QED
  BY <1>1, <1>3, <1>4, <1>5, <1>6 DEF HistoryInv

\* A translated request has the whole conversation.
LEMMA ForwardHistory ==
  ASSUME HistoryInv, Forward
  PROVE  HistoryInv'
<1>1. /\ request.pc = "asked" /\ messages' = messages /\ said' = said
      /\ request' = [pc |-> "forwarded", kind |-> request.kind, model |-> request.model,
                     sent |-> IF Route = "openai" THEN TransformRequest(System, messages)
                              ELSE messages]
  BY DEF Forward
<1>2. request'.pc = "forwarded" /\ request' # Idle /\ request'.model = request.model
  BY <1>1 DEF Idle
<1>3. Convo(messages)' /\ ForUser(messages)'
  BY <1>1 DEF HistoryInv
<1>4. Translated' => Sent' = TransformRequest(System, messages)'
  <2>1. Route' = Route
    BY <1>2 DEF Route
  <2>2. Translated' => Route = "openai"
    BY <2>1 DEF Translated
  <2>3. Route = "openai" => request'.sent = TransformRequest(System, messages)
    BY <1>1
  <2> QED
    BY <1>1, <2>2, <2>3 DEF Sent
<1>5. SaidInv'
  <2>1. request.pc # "answered"
    BY <1>1
  <2> QED
    BY <1>1, <2>1, HeardBefore DEF SaidInv
<1>6. AnswerInv'
  BY <1>2 DEF AnswerInv
<1> QED
  BY <1>2, <1>3, <1>4, <1>5, <1>6 DEF HistoryInv

\* An OpenAI provider's answer is noted with what it said.
LEMMA OpenAIAnswerHistory ==
  ASSUME HistoryInv, OpenAIAnswer
  PROVE  HistoryInv'
<1>1. PICK answer \in OpenAIAnswers :
        /\ Respond(200, TransformResponse(answer, Turn))
        /\ said' = [k \in DOMAIN said \cup {Turn} |->
                      IF k = Turn
                      THEN [message |-> SaidMessage(answer, Turn),
                            twice |-> answer.reasoning_content # "absent"
                                      /\ answer.reasoning # "absent"]
                      ELSE said[k]]
  BY DEF OpenAIAnswer
<1> DEFINE content == TransformResponse(answer, Turn)
<1>2. request.pc = "forwarded"
  BY DEF OpenAIAnswer
<1>3. /\ request'.pc = "answered" /\ request'.content = content /\ messages' = messages
      /\ request' # Idle
  BY <1>1 DEF Respond, Idle
<1>4. AssistantContent(content, Turn)
  BY TurnIsPlace, AnswersAssumption, ResponseContent
<1>5. SaidAs(said'[Turn], Turn, content)
  <2>1. /\ said'[Turn].message = SaidMessage(answer, Turn)
        /\ said'[Turn].twice <=> answer.reasoning_content # "absent"
                                 /\ answer.reasoning # "absent"
    BY <1>1
  <2> QED
    BY <2>1 DEF SaidAs
<1> HIDE DEF content
<1>6. Convo(messages)' /\ ForUser(messages)'
  BY <1>2, <1>3 DEF HistoryInv
<1>7. AnswerInv'
  BY <1>3, <1>4 DEF AnswerInv, Turn
<1>8. SaidInv'
  <2>1. Turn' = Turn
    BY <1>3 DEF Turn
  <2> SUFFICES ASSUME NEW k \in DOMAIN said'
               PROVE  \/ Heard(said'[k], messages', k)
                      \/ /\ k = Turn' /\ request'.pc = "answered"
                         /\ SaidAs(said'[k], k, request'.content)
    BY DEF SaidInv
  <2>2. CASE k = Turn
    BY <1>3, <1>5, <2>1, <2>2
  <2>3. CASE k # Turn
    <3>1. k \in DOMAIN said /\ said'[k] = said[k]
      BY <1>1, <2>3
    <3>2. Heard(said[k], messages, k)
      BY <1>2, <3>1, HeardBefore
    <3> QED
      BY <1>3, <3>1, <3>2
  <2> QED
    BY <2>2, <2>3
<1>9. ~Translated'
  BY <1>3 DEF Translated
<1> QED
  BY <1>3, <1>6, <1>7, <1>8, <1>9 DEF HistoryInv

\* An Anthropic provider's answer is a message as it is.
LEMMA AnthropicAnswerHistory ==
  ASSUME HistoryInv, AnthropicAnswer
  PROVE  HistoryInv'
<1>1. PICK types \in AnthropicAnswers :
        Respond(200, [i \in DOMAIN types |-> Block(types[i], <<Turn, i>>)])
  BY DEF AnthropicAnswer
<1>2. AssistantContent([i \in DOMAIN types |-> Block(types[i], <<Turn, i>>)], Turn)
  BY TurnIsPlace, AnthropicContent
<1> QED
  BY <1>1, <1>2, RespondHistory DEF AnthropicAnswer

\* The calls that the client has to answer are those of the last message.
LEMMA OpenCallsAre ==
  ASSUME HistoryInv, messages # <<>> => Last(messages).role = "assistant"
  PROVE  /\ messages # <<>> => messages[Len(messages)].role = "assistant"
         /\ OpenCalls \in Seq(Number)
         /\ OpenCalls = IF messages = <<>> THEN <<>>
                        ELSE Numbers(OfType("tool_use", messages[Len(messages)].content))
<1> DEFINE n == Len(messages)
<1>1. Last(messages) = messages[n]
  BY DEF Last
<1>2. OpenCalls = IF messages = <<>> THEN <<>>
                  ELSE Numbers(OfType("tool_use", messages[n].content))
  BY <1>1 DEF OpenCalls
<1>3. CASE messages = <<>>
  BY <1>2, <1>3
<1>4. CASE messages # <<>>
  <2>1. Convo(messages) /\ n \in 1..n
    BY <1>4 DEF HistoryInv, Convo
  <2>2. messages[n].role = "assistant"
    BY <1>1, <1>4
  <2>3. AssistantContent(messages[n].content, n)
    BY <2>1, <2>2 DEF Convo
  <2>4. Numbers(OfType("tool_use", messages[n].content)) \in Seq(Number)
    BY <2>3, CallsOfAssistant
  <2> QED
    BY <1>2, <1>4, <2>2, <2>4
<1> QED
  BY <1>3, <1>4

\* A message that is heard stays heard when the conversation goes on.
LEMMA HeardLater ==
  ASSUME NEW m \in Seq(Message), NEW r \in Message, NEW k, NEW record, Heard(record, m, k)
  PROVE  Heard(record, Append(m, r), k)
<1>1. k \in 1..Len(m)
  BY DEF Heard
<1>2. Len(Append(m, r)) = Len(m) + 1 /\ Append(m, r)[k] = m[k] /\ Len(m) \in Nat
  BY <1>1
<1>3. k \in 1..Len(Append(m, r))
  BY <1>1, <1>2
<1> QED
  BY <1>2, <1>3 DEF Heard

\* The user goes on where the assistant ended.
LEMMA UserSaysHistory ==
  ASSUME HistoryInv, UserSays
  PROVE  HistoryInv'
<1>1. /\ request = Idle /\ request' = request /\ said' = said
      /\ messages # <<>> => Last(messages).role = "assistant"
  BY DEF UserSays
<1>2. PICK types \in UserBlocks, calls \in {OpenCalls, Reverse(OpenCalls)} :
        /\ types # <<>> \/ calls # <<>>
        /\ messages' = Append(messages,
             [role |-> "user",
              content |-> Results(calls)
                \o [i \in DOMAIN types |->
                      Block(types[i], <<Len(messages) + 1, i>>)]])
  BY DEF UserSays
<1> DEFINE n == Len(messages) + 1
           c == Results(calls) \o [i \in DOMAIN types |-> Block(types[i], <<n, i>>)]
           role == "user"
           r == [role |-> role, content |-> c]
<1>3. messages' = Append(messages, r)
  BY <1>2
<1>4. UserContent(c, n, OpenCalls)
  BY <1>2 DEF UserContent
<1> HIDE DEF c
<1>5. /\ messages # <<>> => messages[Len(messages)].role = "assistant"
      /\ OpenCalls \in Seq(Number)
      /\ OpenCalls = IF messages = <<>> THEN <<>>
                     ELSE Numbers(OfType("tool_use", messages[Len(messages)].content))
  BY <1>1, OpenCallsAre
<1>6. n \in Nat /\ Convo(messages) /\ messages \in Seq(Message)
  BY DEF HistoryInv, Convo, Message
<1>7. c \in Seq(BlockSet)
  BY <1>4, <1>5, <1>6, UserMessage
<1>8. r \in Message /\ r.role = "user" /\ r.content = c
  BY <1>7 DEF Message
<1> HIDE DEF r
<1>9. Convo(Append(messages, r))
  <2>1. /\ messages # <<>> => messages[Len(messages)].role = "assistant"
        /\ UserContent(r.content, n,
                       IF messages = <<>> THEN <<>>
                       ELSE Numbers(OfType("tool_use", messages[Len(messages)].content)))
    BY <1>4, <1>5, <1>8
  <2>2. r.role # "assistant"
    BY <1>8
  <2> QED
    BY <1>6, <1>8, <2>1, <2>2, Continued
<1>10. Convo(messages)'
  BY <1>3, <1>9
<1>11. SaidInv'
  <2>1. request.pc # "answered"
    BY <1>1 DEF Idle
  <2>2. ASSUME NEW k \in DOMAIN said' PROVE Heard(said'[k], messages', k)
    <3>1. Heard(said[k], messages, k)
      BY <1>1, <2>1, <2>2, HeardBefore
    <3> QED
      BY <1>1, <1>3, <1>6, <1>8, <3>1, HeardLater
  <2> QED
    BY <2>2 DEF SaidInv
<1>12. request.pc = "idle" /\ request'.pc = "idle"
  BY <1>1 DEF Idle
<1>13. ~Translated' /\ AnswerInv'
  BY <1>12 DEF Translated, AnswerInv
<1> QED
  BY <1>1, <1>10, <1>11, <1>12, <1>13 DEF HistoryInv

\* The answer joins the conversation, and what was said with it.
LEMMA ReadHistory ==
  ASSUME HistoryInv, Read
  PROVE  HistoryInv'
<1>1. request.pc = "answered" /\ request' = Idle
  BY DEF Read
<1>2. request'.pc = "idle" /\ request.pc # "idle"
  BY <1>1 DEF Idle
<1>3. ~Translated' /\ AnswerInv'
  BY <1>2 DEF Translated, AnswerInv
<1>4. Convo(messages) /\ ForUser(messages) /\ SaidInv /\ AnswerInv
  BY <1>2 DEF HistoryInv
<1>5. Turn \in Nat /\ Turn = Len(messages) + 1 /\ Len(messages) \in Nat
  BY TurnIsPlace
<1>6. CASE request.content = NoContent
  <2>1. messages' = messages /\ said' = [k \in DOMAIN said \ {Turn} |-> said[k]]
    BY <1>6 DEF Read
  <2>2. ASSUME NEW k \in DOMAIN said' PROVE Heard(said'[k], messages', k)
    <3>1. k \in DOMAIN said /\ k # Turn /\ said'[k] = said[k]
      BY <2>1, <2>2
    <3> QED
      BY <1>4, <2>1, <3>1 DEF SaidInv
  <2>3. SaidInv'
    BY <2>2 DEF SaidInv
  <2>4. Convo(messages)'
    BY <1>4, <2>1
  <2> QED
    BY <1>1, <1>2, <1>3, <2>3, <2>4 DEF HistoryInv
<1>7. CASE request.content # NoContent
  <2> DEFINE role == "assistant"
             r == [role |-> role, content |-> request.content]
  <2>1. messages' = Append(messages, r) /\ said' = said
    BY <1>7 DEF Read
  <2>2. AssistantContent(request.content, Turn)
    BY <1>1, <1>4, <1>7 DEF AnswerInv
  <2>3. request.content \in Seq(BlockSet)
    BY <2>2 DEF AssistantContent
  <2>4. r \in Message /\ r.role = "assistant" /\ r.content = request.content
    BY <2>3 DEF Message
  <2> HIDE DEF r
  <2>5. Convo(Append(messages, r))
    <3>1. messages # <<>> /\ messages[Len(messages)].role = "user"
          /\ AssistantContent(r.content, Turn)
      BY <1>4, <2>2, <2>4 DEF ForUser
    <3>2. r.role # "user"
      BY <2>4
    <3> QED
      BY <1>4, <1>5, <2>4, <3>1, <3>2, Continued
  <2>6. messages \in Seq(Message)
    BY <1>4 DEF Convo, Message
  <2>7. ASSUME NEW k \in DOMAIN said' PROVE Heard(said'[k], messages', k)
    <3>1. CASE Heard(said[k], messages, k)
      BY <2>1, <2>4, <2>6, <3>1, HeardLater
    <3>2. CASE k = Turn /\ SaidAs(said[k], k, request.content)
      <4>1. /\ Len(Append(messages, r)) = Turn /\ Append(messages, r)[Turn] = r
            /\ Turn \in 1..Turn
        BY <1>5, <2>4, <2>6
      <4>2. Heard(said[k], Append(messages, r), k)
        BY <2>4, <3>2, <4>1 DEF Heard
      <4> QED
        BY <2>1, <4>2
    <3> QED
      BY <1>4, <2>1, <2>7, <3>1, <3>2 DEF SaidInv
  <2>8. SaidInv'
    BY <2>7 DEF SaidInv
  <2>9. Convo(messages)'
    BY <2>1, <2>5
  <2> QED
    BY <1>1, <1>2, <1>3, <2>8, <2>9 DEF HistoryInv
<1> QED
  BY <1>6, <1>7

\* Each step keeps the conversation one.
LEMMA NextHistory == HistoryInv /\ [Next]_vars => HistoryInv'
<1> SUFFICES ASSUME HistoryInv, [Next]_vars PROVE HistoryInv'
  OBVIOUS
<1>1. CASE UNCHANGED vars
  <2>1. messages' = messages /\ said' = said /\ request' = request
    BY <1>1 DEF vars
  <2>2. Translated' = Translated /\ Sent' = Sent /\ Turn' = Turn
    BY <2>1 DEF Translated, Sent, Turn, Route
  <2> QED
    BY <2>1, <2>2 DEF HistoryInv, AnswerInv, SaidInv
<1>2. CASE UserSays
  BY <1>2, UserSaysHistory
<1>3. CASE Refuse \/ Estimate \/ Counted \/ ProviderFails \/ UrlThrows \/ Untranslatable
  <2>1. PICK status : Respond(status, NoContent)
    BY <1>3, ZenonT(60)
       DEF Refuse, Estimate, Counted, ProviderFails, UrlThrows, Untranslatable
  <2>2. request.pc \in {"asked", "forwarded"} /\ UNCHANGED said
    BY <1>3 DEF Refuse, Estimate, Counted, ProviderFails, UrlThrows, Untranslatable
  <2> QED
    BY <2>1, <2>2, RespondHistory
<1>4. CASE Forward
  BY <1>4, ForwardHistory
<1>5. CASE OpenAIAnswer
  BY <1>5, OpenAIAnswerHistory
<1>6. CASE AnthropicAnswer
  BY <1>6, AnthropicAnswerHistory
<1>7. CASE Read
  BY <1>7, ReadHistory
<1>8. CASE \E model \in Models : Ask("messages", model) \/ Ask("count_tokens", model)
  BY <1>8, AskHistory
<1> QED
  BY <1>1, <1>2, <1>3, <1>4, <1>5, <1>6, <1>7, <1>8 DEF Next

\* The conversation is always one, whatever its models answer or fail to.
THEOREM HistoryAlways == Spec => []HistoryInv
  BY InitHistory, NextHistory, PTL DEF Spec

\* A translated request is a translation of the whole conversation, which a user's
\* message ends.
SentIs(off) == Translation(Sent, messages, off)
\* The lemmas about translations hold for a request that was sent.
LEMMA SentIsTranslation ==
  ASSUME HistoryInv, Translated
  PROVE  /\ \E off : SentIs(off)
         /\ messages[Len(messages)].role = "user"
         /\ DOMAIN messages = 1..Len(messages) /\ DOMAIN Sent = 1..Len(Sent)
<1>1. /\ Convo(messages) /\ ForUser(messages) /\ Sent = TransformRequest(System, messages)
  BY DEF HistoryInv, Translated
<1>2. PICK off : /\ Shape(TransformRequest(System, messages), messages, off)
                 /\ \A k \in 1..Len(messages) : UserAt(messages, k) =>
                      UserShape(TransformRequest(System, messages), messages, off, k)
  BY <1>1, Shaped
<1>3. SentIs(off)
  BY <1>1, <1>2 DEF SentIs, Translation
<1>4. Sent \in Seq(MessageSet)
  BY <1>1, <1>2 DEF Shape
<1>5. messages \in Seq([role : {"user", "assistant"}, content : Seq(BlockSet)])
  BY <1>1 DEF Convo
<1>6. DOMAIN messages = 1..Len(messages) /\ DOMAIN Sent = 1..Len(Sent)
  BY <1>4, <1>5
<1> QED
  BY <1>1, <1>3, <1>6 DEF ForUser

\* Each call of a translated request is answered next, but for the user's own words,
\* and each result follows its call, in every conversation (transformRequest).
THEOREM CallsAnsweredAlways == Spec => []CallsAnswered
<1>1. HistoryInv => CallsAnswered
  <2> SUFFICES ASSUME HistoryInv, Translated PROVE CallsAnswered
    BY DEF CallsAnswered
  <2>1. PICK off : SentIs(off)
    BY SentIsTranslation
  <2>2. /\ Translation(Sent, messages, off) /\ messages[Len(messages)].role = "user"
        /\ DOMAIN Sent = 1..Len(Sent)
    BY <2>1, SentIsTranslation DEF SentIs
  <2>3. /\ \A i \in 1..Len(Sent) :
             AnswersAt(Sent, i) =
               IF Sent[i].calls = <<>> THEN {}
               ELSE AfterWords(Sent, i)..(AfterWords(Sent, i) + Len(Sent[i].calls) - 1)
        /\ \A j \in 1..Len(Sent) : Sent[j].role = "tool" =>
             \E i \in 1..(j - 1) : j \in AnswersAt(Sent, i)
    BY <2>2, AllCallsAnswered
  <2> QED
    BY <2>2, <2>3 DEF CallsAnswered, AnswersAt, AfterWords
<1> QED
  BY <1>1, HistoryAlways, PTL

\* What an OpenAI provider said comes back to it as the same message of an assistant,
\* word for word and with the same calls, unless it reasoned under both names; the
\* arguments of the calls come back as JSON, a text that was none as a JSON string
\* (transformResponse, then transformRequest).
THEOREM RoundTripAlways == Spec => []RoundTrip
<1>1. HistoryInv => RoundTrip
  <2> SUFFICES ASSUME HistoryInv, Translated,
                      NEW k \in DOMAIN messages, messages[k].role = "assistant",
                      k \in DOMAIN said
               PROVE  \E j \in DOMAIN Sent :
                        /\ Sent[j].role = "assistant"
                        /\ Assistants(Sent, j) = Assistants(messages, k)
                        /\ \/ said[k].twice
                           \/ Sent[j] = [said[k].message EXCEPT !.arguments = Returned(@)]
    BY DEF RoundTrip
  <2>1. PICK off : SentIs(off)
    BY SentIsTranslation
  <2>2. /\ Translation(Sent, messages, off) /\ k \in 1..Len(messages)
        /\ DOMAIN Sent = 1..Len(Sent)
    BY <2>1, SentIsTranslation DEF SentIs
  <2>3. AssistantAt(messages, k)
    <3>1. AssistantAt(messages, k) \/ UserAt(messages, k)
      BY <2>2, Turns DEF Translation
    <3> QED
      BY <3>1 DEF UserAt
  <2> DEFINE j == off[k]
  <2>4. j = off[k - 1] + 1 /\ Sent[j].role = "assistant"
        /\ Sent[j] = FromAssistant(messages[k].content)
    BY <2>2, <2>3, AssistantPlaces DEF AssistantPlace
  <2>5. j \in DOMAIN Sent
    BY <2>2, <2>4, PlacesInside
  <2>6. Assistants(Sent, j) = Assistants(messages, k)
    BY <2>2, <2>3, AssistantsCounted
  <2> HIDE DEF j
  <2>7. Heard(said[k], messages, k)
    <3>1. request.pc # "answered"
      BY DEF Translated
    <3> QED
      BY <3>1, HeardBefore
  <2>8. PICK answer \in OpenAIAnswers :
          /\ messages[k].content = TransformResponse(answer, k)
          /\ said[k].message = SaidMessage(answer, k)
          /\ said[k].twice <=> answer.reasoning_content # "absent"
                               /\ answer.reasoning # "absent"
    BY <2>7 DEF Heard, SaidAs
  <2>9. \/ said[k].twice
        \/ Sent[j] = [said[k].message EXCEPT !.arguments = Returned(@)]
    <3> SUFFICES ASSUME ~said[k].twice
                 PROVE  Sent[j] = [said[k].message EXCEPT !.arguments = Returned(@)]
      OBVIOUS
    <3>1. answer.calls \in Seq(ArgumentForms) /\ k \in Nat
      BY <2>2, AnswersAssumption
    <3>2. FromAssistant(TransformResponse(answer, k))
            = [SaidMessage(answer, k) EXCEPT !.arguments = Returned(@)]
      BY <2>8, <3>1, SaidAgain
    <3> QED
      BY <2>4, <2>8, <3>2
  <2> QED
    BY <2>4, <2>5, <2>6, <2>9
<1> QED
  BY <1>1, HistoryAlways, PTL

\* Everything of a conversation that a translation knows, results apart, reaches the
\* provider once and in order (transformRequest).
THEOREM NothingLostAlways == Spec => []NothingLost
<1>1. HistoryInv => NothingLost
  <2> SUFFICES ASSUME HistoryInv, Translated PROVE NothingLost
    BY DEF NothingLost
  <2>1. PICK off : SentIs(off)
    BY SentIsTranslation
  <2>2. Translation(Sent, messages, off) /\ DOMAIN Sent = 1..Len(Sent)
    BY <2>1, SentIsTranslation DEF SentIs
  <2>3. SaidIn(Sent) = KeptIn(messages)
    BY <2>2, AllIsKept
  <2>4. ASSUME NEW i \in DOMAIN Sent, NEW j \in DOMAIN Sent,
               NEW x \in DOMAIN Words(Sent[i]), NEW y \in DOMAIN Words(Sent[j])
        PROVE  /\ <<i, x>> # <<j, y>> => Words(Sent[i])[x] # Words(Sent[j])[y]
               /\ i <= j => Words(Sent[i])[x][1] <= Words(Sent[j])[y][1]
    <3>1. i \in 1..Len(Sent) /\ j \in 1..Len(Sent)
      BY <2>2
    <3>2. x \in 1..Len(Words(Sent[i])) /\ y \in 1..Len(Words(Sent[j]))
      BY <2>2, <3>1, WordsAreList
    <3>3. /\ i # j \/ x # y => Words(Sent[i])[x] # Words(Sent[j])[y]
          /\ i <= j => Words(Sent[i])[x][1] <= Words(Sent[j])[y][1]
      BY <2>2, <3>1, <3>2, OnceInOrder
    <3>4. <<i, x>> # <<j, y>> => i # j \/ x # y
      OBVIOUS
    <3> QED
      BY <3>3, <3>4
  <2> QED
    BY <2>3, <2>4 DEF NothingLost, SaidIn, KeptIn
<1> QED
  BY <1>1, HistoryAlways, PTL
================================================================================
