------------------------------ MODULE AtTokProofs ------------------------------
(****************************************************************************)
(* Proofs about AtTok, for any formats and any lines that fit in the code's *)
(* buffer (ScanAssumption: less than 256 characters): every conversion      *)
(* stores the value of its own field.                                       *)
(****************************************************************************)
EXTENDS AtTok, SequenceTheorems, FiniteSetTheorems, WellFoundedInduction, TLAPS

----------------------------------------------------------------------------
\* Sets of numbers have least elements, and sets of places a k-th one.
LEMMA LeastOne ==
    ASSUME NEW T, T \subseteq Nat, T # {}
    PROVE  \E x \in T : \A y \in T : x <= y
<1> DEFINE R == {ss \in Nat \X Nat : ss[1] < ss[2]}
<1>1. IsWellFoundedOn(R, Nat)
    BY NatLessThanWellFounded DEF OpToRel
<1>2. PICK x \in T : \A y \in T : ~(<<y, x>> \in R)
    BY <1>1, WFMin
<1>3. ASSUME NEW y \in T PROVE x <= y
  <2>1. <<y, x>> \in Nat \X Nat
      OBVIOUS
  <2>2. ~(y < x)
      BY <1>2, <2>1
  <2> QED BY <2>2
<1> QED BY <1>3

\* The k-th of a set of places.
LEMMA KthIsThere ==
    ASSUME NEW n \in Nat, NEW S, S \subseteq 1..n, NEW k \in 1..Cardinality(S)
    PROVE  /\ Cardinality(S) \in Nat
           /\ \E i \in S : Cardinality(S \cap 1..i) = k
<1> DEFINE C(i) == Cardinality(S \cap 1..i)
           T == {i \in Nat : C(i) >= k}
<1>1. \A i \in Nat : IsFiniteSet(S \cap 1..i) /\ C(i) \in Nat
  <2> SUFFICES ASSUME NEW i \in Nat PROVE IsFiniteSet(S \cap 1..i) /\ C(i) \in Nat
      OBVIOUS
  <2>1. IsFiniteSet(1..i)
      BY FS_Interval
  <2>2. IsFiniteSet(S \cap 1..i)
      BY <2>1, FS_Subset
  <2> QED BY <2>2, FS_CardinalityType
<1>2. S \cap 1..n = S
    OBVIOUS
<1>3. Cardinality(S) \in Nat /\ n \in T
    BY <1>1, <1>2
<1>4. PICK i \in T : \A y \in T : i <= y
    BY <1>3, LeastOne
<1>5. C(0) = 0
  <2>1. S \cap 1..0 = {}
      OBVIOUS
  <2> QED BY <2>1, FS_EmptySet
<1>c. k \in Nat /\ k # 0
    BY <1>3
<1> HIDE DEF C
<1>6. i \in Nat /\ i # 0 /\ C(i) >= k
    BY <1>4, <1>5, <1>c
<1>7. i - 1 \in Nat /\ C(i - 1) < k
  <2>1. i - 1 \in Nat /\ i - 1 \notin T
      BY <1>4, <1>6
  <2>2. C(i - 1) \in Nat
      BY <1>1, <2>1
  <2> QED BY <2>1, <2>2, <1>c
<1> USE DEF C
<1>8. i \in S
  <2>1. ASSUME i \notin S PROVE FALSE
    <3>1. S \cap 1..i = S \cap 1..(i - 1)
        BY <2>1, <1>6
    <3>2. C(i) = C(i - 1)
        BY <3>1
    <3>3. C(i) \in Nat
        BY <1>1, <1>6
    <3> HIDE DEF C
    <3> QED BY <3>2, <3>3, <1>6, <1>7, <1>c
  <2> QED BY <2>1
<1>9. C(i) = C(i - 1) + 1
  <2>1. S \cap 1..i = (S \cap 1..(i - 1)) \cup {i} /\ i \notin S \cap 1..(i - 1)
      BY <1>6, <1>8
  <2>2. IsFiniteSet(S \cap 1..(i - 1))
      BY <1>1, <1>7
  <2> QED BY <2>1, <2>2, FS_AddElement
<1>10. C(i) \in Nat /\ C(i - 1) \in Nat
    BY <1>1, <1>6, <1>7
<1> HIDE DEF C
<1>11. C(i) = k
    BY <1>6, <1>7, <1>9, <1>10
<1> QED BY <1>3, <1>8, <1>11 DEF C

\* There is only one k-th.
LEMMA KthIsOne ==
    ASSUME NEW n \in Nat, NEW S, S \subseteq 1..n, NEW i \in S, NEW j \in S,
           Cardinality(S \cap 1..i) = Cardinality(S \cap 1..j)
    PROVE  i = j
<1>1. ASSUME NEW a \in S, NEW b \in S, a < b,
             Cardinality(S \cap 1..a) = Cardinality(S \cap 1..b)
      PROVE  FALSE
  <2>1. a \in Nat /\ b \in Nat /\ IsFiniteSet(1..b)
    <3>1. a \in 1..n /\ b \in 1..n
        OBVIOUS
    <3>2. a \in Nat /\ b \in Nat /\ b \in Int /\ 1 \in Int
        BY <3>1
    <3> QED BY <3>2, FS_Interval
  <2>2. S \cap 1..a \in SUBSET (S \cap 1..b)
      BY <1>1, <2>1
  <2>3. IsFiniteSet(S \cap 1..b)
      BY <2>1, FS_Subset
  <2>4. S \cap 1..a = S \cap 1..b
      BY <1>1, <2>2, <2>3, FS_Subset
  <2>5. b \in S \cap 1..b /\ b \notin S \cap 1..a
    <3>1. b \in 1..n
        OBVIOUS
    <3> QED BY <1>1, <2>1, <3>1
  <2> QED BY <2>4, <2>5
<1>2. i \in 1..n /\ j \in 1..n
    OBVIOUS
<1>3. i \in Nat /\ j \in Nat
    BY <1>2
<1> QED BY <1>1, <1>3

----------------------------------------------------------------------------
(****************************************************************************)
(* Commas                                                                   *)
(****************************************************************************)
\* A loop over 1..n that carries a value of V along has a value at each place.
Steps(n, V) == [(1..n) \X V -> V]

Runs(n, b, step, f) == f[0] = b /\ \A i \in 1..n : f[i] = step[<<i, f[i - 1]>>]

LEMMA LoopHasValues ==
    ASSUME NEW V, NEW b \in V, NEW n \in Nat, NEW step \in Steps(n, V)
    PROVE  \E f \in [0..n -> V] : Runs(n, b, step, f)
<1> USE DEF Steps, Runs
<1> DEFINE T == {m \in 0..n : ~ \E f \in [0..m -> V] : Runs(m, b, step, f)}
<1>1. T \subseteq Nat
    OBVIOUS
<1>2. ASSUME T # {} PROVE FALSE
  <2>1. PICK m \in T : \A y \in T : m <= y
      BY <1>1, <1>2, LeastOne
  <2>2. CASE m = 0
    <3> DEFINE f == [i \in 0..0 |-> b]
    <3>1. f \in [0..0 -> V] /\ Runs(0, b, step, f)
        OBVIOUS
    <3> QED BY <2>1, <2>2, <3>1
  <2>3. CASE m # 0
    <3>1. m \in 1..n /\ m - 1 \in 0..n /\ ~(m <= m - 1)
        BY <2>1, <2>3
    <3>2. PICK f \in [0..(m - 1) -> V] : Runs(m - 1, b, step, f)
        BY <2>1, <3>1
    <3>3. f[m - 1] \in V
        BY <3>1, <3>2
    <3> DEFINE x == step[<<m, f[m - 1]>>]
               g == [i \in 0..m |-> IF i = m THEN x ELSE f[i]]
    <3>4. x \in V
        BY <3>1, <3>3
    <3>5. \A i \in 0..m : i # m => i \in 0..(m - 1)
        BY <3>1
    <3> HIDE DEF x
    <3>6. g \in [0..m -> V]
        BY <3>2, <3>4, <3>5
    <3>7. g[0] = b /\ g[m] = x /\ g[m - 1] = f[m - 1]
        BY <3>1, <3>2, <3>5
    <3>8. ASSUME NEW i \in 1..(m - 1) PROVE g[i] = step[<<i, g[i - 1]>>]
      <4>1. i \in 0..m /\ i # m /\ i - 1 \in 0..m /\ i - 1 # m
          BY <3>1
      <4>2. g[i] = f[i] /\ g[i - 1] = f[i - 1]
          BY <4>1
      <4> QED BY <3>2, <4>2
    <3>9. \A i \in 1..m : i = m \/ i \in 1..(m - 1)
        BY <3>1
    <3>10. Runs(m, b, step, g)
      <4> HIDE DEF g
      <4> QED BY <3>7, <3>8, <3>9 DEF x
    <3> QED BY <2>1, <3>6, <3>10
  <2> QED BY <2>2, <2>3
<1>3. n \in 0..n
    OBVIOUS
<1> QED BY <1>2, <1>3

\* What removeConsecutiveCommas has written when it has read the first i characters.
Tmp(s, d) ==
    /\ d[0] = <<>>
    /\ \A i \in 1..Len(s) :
          d[i] = IF Doubled(s, i) THEN d[i - 1] ELSE Append(d[i - 1], s[i])

LEMMA CommasLoop ==
    ASSUME NEW C, NEW s \in Seq(C)
    PROVE  \E d \in [0..Len(s) -> Seq(C)] : Tmp(s, d) /\ removeConsecutiveCommas(s) = d[Len(s)]
<1> DEFINE n == Len(s)
           V == Seq(C)
           step == [x \in (1..n) \X V |->
                       IF Doubled(s, x[1]) THEN x[2] ELSE Append(x[2], s[x[1]])]
           body(i, d) == IF i = 0 THEN <<>>
                         ELSE IF Doubled(s, i) THEN d[i - 1] ELSE Append(d[i - 1], s[i])
           tmp == CHOOSE f : f = [i \in 0..n |-> body(i, f)]
<1>1. n \in Nat /\ <<>> \in V
    OBVIOUS
<1>2. step \in Steps(n, V)
  <2> SUFFICES ASSUME NEW i \in 1..n, NEW v \in V
               PROVE  (IF Doubled(s, i) THEN v ELSE Append(v, s[i])) \in V
      BY DEF Steps
  <2>1. s[i] \in C
      OBVIOUS
  <2> QED BY <2>1
<1>3. PICK f \in [0..n -> V] : Runs(n, <<>>, step, f)
  <2> HIDE DEF step, V, n
  <2> QED BY <1>1, <1>2, LoopHasValues
<1>4. ASSUME NEW i \in 0..n PROVE f[i] = body(i, f)
  <2>1. CASE i = 0
      BY <1>3, <2>1 DEF Runs
  <2>2. CASE i # 0
    <3>1. i \in 1..n /\ i - 1 \in 0..n
        BY <1>1, <2>2
    <3>2. f[i - 1] \in V
        BY <1>3, <3>1
    <3>3. <<i, f[i - 1]>> \in (1..n) \X V
        BY <3>1, <3>2
    <3>4. step[<<i, f[i - 1]>>] = IF Doubled(s, i) THEN f[i - 1] ELSE Append(f[i - 1], s[i])
        BY <3>3
    <3> QED BY <1>3, <2>2, <3>1, <3>4 DEF Runs
  <2> QED BY <2>1, <2>2
<1>5. f = [i \in 0..n |-> body(i, f)]
  <2> HIDE DEF body
  <2>1. f = [i \in 0..n |-> f[i]]
      BY <1>3
  <2> QED BY <1>4, <2>1
<1>6. tmp = [i \in 0..n |-> body(i, tmp)]
  <2> HIDE DEF body
  <2> QED BY <1>5
<1>7. removeConsecutiveCommas(s) = tmp[n]
    BY DEF removeConsecutiveCommas
<1>8. \A i \in 0..n : tmp[i] = f[i]
  <2> DEFINE T == {i \in 0..n : tmp[i] # f[i]}
  <2>1. T \subseteq Nat
      OBVIOUS
  <2>2. \A i \in 0..n : tmp[i] = body(i, tmp)
    <3> HIDE DEF body, tmp
    <3> QED BY <1>6
  <2> HIDE DEF tmp
  <2>3. ASSUME T # {} PROVE FALSE
    <3>1. PICK i \in T : \A y \in T : i <= y
        BY <2>1, <2>3, LeastOne
    <3>2. i \in 0..n /\ tmp[i] # f[i]
        BY <3>1
    <3>3. i # 0
        BY <1>4, <2>2, <3>2
    <3>4. i - 1 \in 0..n /\ i - 1 \notin T
        BY <1>1, <3>1, <3>2, <3>3
    <3>5. tmp[i - 1] = f[i - 1]
        BY <3>4
    <3>6. body(i, tmp) = body(i, f)
        BY <3>5
    <3> QED BY <1>4, <2>2, <3>2, <3>6
  <2> QED BY <2>3
<1>9. removeConsecutiveCommas(s) = f[n]
  <2> HIDE DEF tmp
  <2> QED BY <1>1, <1>7, <1>8
<1>10. Tmp(s, f)
  <2>1. 0 \in 0..n /\ \A i \in 1..n : i \in 0..n /\ i # 0
      BY <1>1
  <2> QED BY <1>4, <2>1 DEF Tmp
<1> QED BY <1>3, <1>9, <1>10

\* Appending to two texts is appending to the second.
AppendsToBoth(C) == \A a, b \in Seq(C) : \A c \in C : Append(a \o b, c) = a \o Append(b, c)

LEMMA AppendToBoth == ASSUME NEW C PROVE AppendsToBoth(C)
<1> SUFFICES ASSUME NEW a \in Seq(C), NEW b \in Seq(C), NEW c \in C
             PROVE  Append(a \o b, c) = a \o Append(b, c)
    BY DEF AppendsToBoth
<1> QED OBVIOUS

\* Three texts may be strung together in any grouping.
Regroups(C) == \A a, b, c \in Seq(C) : (a \o b) \o c = a \o (b \o c)

LEMMA Regroup == ASSUME NEW C PROVE Regroups(C)
BY ConcatAssociative DEF Regroups

\* What is written of a text s with t behind it: what is written of s, where the
\* last character looks at t, and then what is written of t.
TmpOfBoth(C, s, t, d) ==
    /\ d[0] = <<>>
    /\ \A i \in 1..Len(s) :
          d[i] = IF Doubled(s \o t, i) THEN d[i - 1] ELSE Append(d[i - 1], s[i])
    /\ removeConsecutiveCommas(s \o t) = d[Len(s)] \o removeConsecutiveCommas(t)
    /\ removeConsecutiveCommas(t) \in Seq(C)

LEMMA CommasOfBoth ==
    ASSUME NEW C, NEW s \in Seq(C), NEW t \in Seq(C)
    PROVE  \E d \in [0..Len(s) -> Seq(C)] : TmpOfBoth(C, s, t, d)
<1> DEFINE u == s \o t
           n == Len(s)
           m == Len(t)
<1>a. AppendsToBoth(C)
    BY AppendToBoth
<1>1. n \in Nat /\ m \in Nat
    OBVIOUS
<1>2. /\ u \in Seq(C) /\ Len(u) = n + m
      /\ \A i \in 1..n : u[i] = s[i]
      /\ \A i \in 1..m : u[n + i] = t[i]
    OBVIOUS
<1>3. PICK e \in [0..m -> Seq(C)] : Tmp(t, e) /\ removeConsecutiveCommas(t) = e[m]
    BY CommasLoop
<1> HIDE DEF u
<1>4. PICK g \in [0..(n + m) -> Seq(C)] : Tmp(u, g) /\ removeConsecutiveCommas(u) = g[n + m]
  <2>1. \E g \in [0..Len(u) -> Seq(C)] : Tmp(u, g) /\ removeConsecutiveCommas(u) = g[Len(u)]
      BY <1>2, CommasLoop
  <2>2. Len(u) = n + m
      BY <1>2
  <2> QED BY <2>1, <2>2
<1> DEFINE d == [i \in 0..n |-> g[i]]
<1>5. d \in [0..n -> Seq(C)] /\ d[0] = <<>> /\ d[n] = g[n] /\ g[n] \in Seq(C)
  <2>1. 0 \in 0..n /\ n \in 0..n /\ \A i \in 0..n : i \in 0..(n + m)
      BY <1>1
  <2> HIDE DEF n, m
  <2> QED BY <1>4, <2>1 DEF Tmp
<1>6. ASSUME NEW i \in 1..n
      PROVE  d[i] = IF Doubled(u, i) THEN d[i - 1] ELSE Append(d[i - 1], s[i])
  <2>1. i \in 1..Len(u) /\ i \in 0..n /\ i - 1 \in 0..n /\ u[i] = s[i]
      BY <1>1, <1>2
  <2> HIDE DEF n
  <2> QED BY <1>4, <2>1 DEF Tmp
<1>7. \A i \in 1..m : Doubled(u, n + i) <=> Doubled(t, i)
  <2> TAKE i \in 1..m
  <2>1. u[n + i] = t[i] /\ (n + i < Len(u) <=> i < m)
      BY <1>1, <1>2
  <2>2. i < m => u[n + i + 1] = t[i + 1]
    <3>1. i < m => i + 1 \in 1..m /\ n + i + 1 = n + (i + 1)
        BY <1>1
    <3> QED BY <1>2, <3>1
  <2> QED BY <2>1, <2>2 DEF Doubled
<1>8. \A i \in 0..m : g[n + i] = g[n] \o e[i]
  <2> DEFINE T == {i \in 0..m : g[n + i] # g[n] \o e[i]}
  <2>1. T \subseteq Nat
      OBVIOUS
  <2>2. ASSUME T # {} PROVE FALSE
    <3>1. PICK i \in T : \A y \in T : i <= y
        BY <2>1, <2>2, LeastOne
    <3>2. i \in 0..m /\ g[n + i] # g[n] \o e[i]
        BY <3>1
    <3>3. i # 0
      <4>1. n + 0 = n
          BY <1>1
      <4>2. e[0] = <<>>
          BY <1>3 DEF Tmp
      <4>3. g[n] \o <<>> = g[n]
          BY <1>5
      <4> QED BY <3>2, <4>1, <4>2, <4>3
    <3> HIDE DEF n, m
    <3>4. /\ i \in 1..m /\ i - 1 \in 0..m /\ ~(i <= i - 1)
          /\ n + i \in 1..(n + m) /\ (n + i) - 1 = n + (i - 1)
        BY <1>1, <3>2, <3>3
    <3>5. i - 1 \notin T
        BY <3>1, <3>4
    <3>6. g[n + (i - 1)] = g[n] \o e[i - 1]
        BY <3>4, <3>5
    <3>7. e[i - 1] \in Seq(C)
        BY <1>3, <3>4
    <3> DEFINE k == n + i
               a == g[n]
               b == e[i - 1]
               c == t[i]
    <3>8. k \in 1..Len(u) /\ k - 1 = n + (i - 1) /\ u[k] = c /\ (Doubled(u, k) <=> Doubled(t, i))
        BY <1>2, <1>7, <3>4
    <3>9. e[i] = IF Doubled(t, i) THEN b ELSE Append(b, c)
        BY <1>3, <3>4 DEF Tmp, m
    <3>10. a \in Seq(C) /\ b \in Seq(C) /\ c \in C
        BY <1>5, <3>4, <3>7 DEF m
    <3>11. g[k - 1] = a \o b
        BY <3>6, <3>8
    <3> HIDE DEF k, a, b, c
    <3>12. g[k] = IF Doubled(u, k) THEN g[k - 1] ELSE Append(g[k - 1], u[k])
        BY <1>4, <3>8 DEF Tmp
    <3>13. Append(a \o b, c) = a \o Append(b, c)
        BY <1>a, <3>10 DEF AppendsToBoth
    <3>14. g[k] = a \o e[i]
        BY <3>8, <3>9, <3>11, <3>12, <3>13
    <3> QED BY <3>2, <3>14 DEF k, a
  <2> QED BY <2>2
<1>9. m \in 0..m
    BY <1>1
<1>10. removeConsecutiveCommas(u) = d[n] \o removeConsecutiveCommas(t)
    BY <1>3, <1>4, <1>5, <1>8, <1>9
<1>11. removeConsecutiveCommas(t) \in Seq(C)
  <2> HIDE DEF m
  <2> QED BY <1>3, <1>9
<1> HIDE DEF d
<1>12. TmpOfBoth(C, s, t, d)
    BY <1>5, <1>6, <1>10, <1>11 DEF u, TmpOfBoth
<1> QED BY <1>5, <1>12

\* A text without doubled commas stays as it is.
LEMMA CommasKept ==
    ASSUME NEW C, NEW s \in Seq(C), NEW t \in Seq(C),
           \A i \in 1..Len(s) : ~Doubled(s \o t, i)
    PROVE  removeConsecutiveCommas(s \o t) = s \o removeConsecutiveCommas(t)
<1> DEFINE n == Len(s)
           r == removeConsecutiveCommas(t)
           w(i) == SubSeq(s, 1, i)
<1>p. PICK d \in [0..n -> Seq(C)] : TmpOfBoth(C, s, t, d)
    BY CommasOfBoth
<1>1. /\ d[0] = <<>>
      /\ \A i \in 1..n :
            d[i] = IF Doubled(s \o t, i) THEN d[i - 1] ELSE Append(d[i - 1], s[i])
      /\ removeConsecutiveCommas(s \o t) = d[n] \o r
      /\ r \in Seq(C)
    BY <1>p DEF TmpOfBoth
<1>2. n \in Nat
    OBVIOUS
<1>3. \A i \in 0..n : d[i] = w(i)
  <2> DEFINE T == {i \in 0..n : d[i] # w(i)}
  <2>1. T \subseteq Nat
      OBVIOUS
  <2>2. ASSUME T # {} PROVE FALSE
    <3>1. PICK i \in T : \A y \in T : i <= y
        BY <2>1, <2>2, LeastOne
    <3>2. i \in 0..n /\ d[i] # w(i)
        BY <3>1
    <3>3. i # 0
      <4>1. w(0) = <<>>
          BY SubSeqEmpty
      <4> QED BY <1>1, <3>2, <4>1
    <3>4. i \in 1..n /\ i - 1 \in 0..n /\ ~(i <= i - 1)
        BY <1>2, <3>2, <3>3
    <3> HIDE DEF w
    <3>5. i - 1 \notin T
        BY <3>1, <3>4
    <3>6. d[i - 1] = w(i - 1) /\ d[i] = Append(d[i - 1], s[i])
        BY <1>1, <3>4, <3>5
    <3>7. Append(w(i - 1), s[i]) = w(i)
        BY <3>4 DEF w
    <3> QED BY <3>2, <3>6, <3>7
  <2> QED BY <2>2
<1>4. n \in 0..n /\ w(n) = s
    BY <1>2, SubSeqFull
<1> HIDE DEF w
<1> QED BY <1>1, <1>3, <1>4

\* Nothing stays of commas with another one behind each.
LEMMA CommasDropped ==
    ASSUME NEW C, NEW s \in Seq(C), NEW t \in Seq(C),
           \A i \in 1..Len(s) : Doubled(s \o t, i)
    PROVE  removeConsecutiveCommas(s \o t) = removeConsecutiveCommas(t)
<1> DEFINE n == Len(s)
           r == removeConsecutiveCommas(t)
<1>p. PICK d \in [0..n -> Seq(C)] : TmpOfBoth(C, s, t, d)
    BY CommasOfBoth
<1>1. /\ d[0] = <<>>
      /\ \A i \in 1..n :
            d[i] = IF Doubled(s \o t, i) THEN d[i - 1] ELSE Append(d[i - 1], s[i])
      /\ removeConsecutiveCommas(s \o t) = d[n] \o r
      /\ r \in Seq(C)
    BY <1>p DEF TmpOfBoth
<1>2. n \in Nat
    OBVIOUS
<1> HIDE DEF r
<1>3. \A i \in 0..n : d[i] = <<>>
  <2> DEFINE T == {i \in 0..n : d[i] # <<>>}
  <2>1. T \subseteq Nat
      OBVIOUS
  <2>2. ASSUME T # {} PROVE FALSE
    <3>1. PICK i \in T : \A y \in T : i <= y
        BY <2>1, <2>2, LeastOne
    <3>2. i \in 0..n /\ d[i] # <<>>
        BY <3>1
    <3>3. i # 0
        BY <1>1, <3>2
    <3>4. i \in 1..n /\ i - 1 \in 0..n /\ ~(i <= i - 1)
        BY <1>2, <3>2, <3>3
    <3>5. i - 1 \notin T
        BY <3>1, <3>4
    <3> QED BY <1>1, <3>2, <3>4, <3>5
  <2> QED BY <2>2
<1>4. n \in 0..n /\ <<>> \o r = r
  <2>1. <<>> \o r = r
      BY <1>1, ConcatEmptySeq
  <2> QED BY <1>2, <2>1
<1> QED BY <1>1, <1>3, <1>4 DEF r

----------------------------------------------------------------------------
(****************************************************************************)
(* What the scan finds from a place of the line on                          *)
(****************************************************************************)
Left(s, i) == removeConsecutiveCommas(From(s, i))

LEMMA HeadIs ==
    ASSUME NEW C, NEW z \in Seq(C), z # <<>>
    PROVE  Head(z) = z[1] /\ Tail(z) = From(z, 2)
<1>1. Head(z) = z[1]
    OBVIOUS
<1>2. Tail(z) = From(z, 2)
    BY TailIsSubSeq DEF From
<1> QED BY <1>1, <1>2

\* A text of one character.
LEMMA OneIs ==
    ASSUME NEW C, NEW c \in C
    PROVE  <<c>> \in Seq(C) /\ Len(<<c>>) = 1 /\ <<c>>[1] = c
OBVIOUS

LEMMA IsOne ==
    ASSUME NEW C, NEW z \in Seq(C), Len(z) = 1, NEW c \in C, z[1] = c
    PROVE  z = <<c>>
<1> DEFINE d == <<c>>
<1>1. d \in Seq(C) /\ Len(d) = 1 /\ d[1] = c
    BY OneIs
<1>2. \A m \in 1..1 : m = 1
    OBVIOUS
<1> HIDE DEF d
<1>3. z = d
    BY <1>1, <1>2, SeqEqual
<1> QED BY <1>3 DEF d

LEMMA FromIs ==
    ASSUME NEW C, NEW s \in Seq(C), NEW i \in 1..(Len(s) + 1)
    PROVE  /\ From(s, i) \in Seq(C) /\ Len(From(s, i)) = Len(s) + 1 - i
           /\ \A m \in 1..(Len(s) + 1 - i) : From(s, i)[m] = s[(i + m) - 1]
<1> DEFINE n == Len(s)
           z == SubSeq(s, i, n)
<1>1. n \in Nat /\ i \in Int /\ n \in Int
    OBVIOUS
<1>2. \A m \in i..n : m \in 1..n
    BY <1>1
<1>3. \A m \in i..n : s[m] \in C
    BY <1>2
<1> HIDE DEF n
<1>4. /\ z \in Seq(C) /\ Len(z) = IF i <= n THEN n - i + 1 ELSE 0
      /\ \A m \in 1..((n - i) + 1) : z[m] = s[i + m - 1]
    BY <1>1, <1>3, SubSeqProperties
<1> HIDE DEF z
<1>5. (n - i) + 1 = n + 1 - i /\ Len(z) = n + 1 - i
    BY <1>1, <1>4 DEF n
<1>6. \A m \in 1..(n + 1 - i) : i + m - 1 = (i + m) - 1
    BY <1>1
<1> QED BY <1>4, <1>5, <1>6 DEF From, n, z

LEMMA PieceIs ==
    ASSUME NEW C, NEW s \in Seq(C), NEW i \in 1..(Len(s) + 1), NEW j \in i..(Len(s) + 1)
    PROVE  /\ SubSeq(s, i, j - 1) \in Seq(C) /\ Len(SubSeq(s, i, j - 1)) = j - i
           /\ \A m \in 1..(j - i) : SubSeq(s, i, j - 1)[m] = s[(i + m) - 1]
<1> DEFINE n == Len(s)
           z == SubSeq(s, i, j - 1)
<1>1. n \in Nat /\ i \in Int /\ j - 1 \in Int /\ j \in Int
    OBVIOUS
<1>2. \A m \in i..(j - 1) : m \in 1..n
    BY <1>1
<1>3. \A m \in i..(j - 1) : s[m] \in C
    BY <1>2
<1> HIDE DEF n
<1>4. /\ z \in Seq(C) /\ Len(z) = IF i <= j - 1 THEN (j - 1) - i + 1 ELSE 0
      /\ \A m \in 1..(((j - 1) - i) + 1) : z[m] = s[i + m - 1]
    BY <1>1, <1>3, SubSeqProperties
<1> HIDE DEF z
<1>5. ((j - 1) - i) + 1 = j - i /\ Len(z) = j - i
    BY <1>1, <1>4 DEF n
<1>6. \A m \in 1..(j - i) : i + m - 1 = (i + m) - 1
    BY <1>1
<1> QED BY <1>4, <1>5, <1>6 DEF z

LEMMA FromSplits ==
    ASSUME NEW C, NEW s \in Seq(C), NEW i \in 1..(Len(s) + 1), NEW j \in i..(Len(s) + 1)
    PROVE  From(s, i) = SubSeq(s, i, j - 1) \o From(s, j)
<1> DEFINE n == Len(s)
           a == SubSeq(s, i, j - 1)
           b == From(s, j)
           z == From(s, i)
           ab == a \o b
<1>1. n \in Nat /\ i \in Nat /\ j \in Nat /\ j \in 1..(n + 1) /\ i <= j /\ j <= n + 1
    OBVIOUS
<1>2. /\ z \in Seq(C) /\ Len(z) = n + 1 - i
      /\ \A m \in 1..(n + 1 - i) : z[m] = s[(i + m) - 1]
    BY FromIs
<1>3. /\ b \in Seq(C) /\ Len(b) = n + 1 - j
      /\ \A m \in 1..(n + 1 - j) : b[m] = s[(j + m) - 1]
    BY <1>1, FromIs
<1>4. /\ a \in Seq(C) /\ Len(a) = j - i
      /\ \A m \in 1..(j - i) : a[m] = s[(i + m) - 1]
    BY PieceIs
<1> HIDE DEF n, a, b, z
<1>5. /\ ab \in Seq(C) /\ Len(ab) = Len(a) + Len(b)
      /\ \A m \in 1..(Len(a) + Len(b)) : ab[m] = IF m <= Len(a) THEN a[m] ELSE b[m - Len(a)]
    BY <1>3, <1>4, ConcatProperties
<1> HIDE DEF ab
<1>6. Len(ab) = Len(z)
    BY <1>1, <1>2, <1>3, <1>4, <1>5
<1>7. ASSUME NEW m \in 1..Len(z) PROVE z[m] = ab[m]
  <2>1. m \in Nat /\ m \in 1..(n + 1 - i) /\ m \in 1..(Len(a) + Len(b))
      BY <1>1, <1>2, <1>3, <1>4
  <2>2. CASE m <= j - i
    <3>1. m \in 1..(j - i)
        BY <2>1, <2>2
    <3> QED BY <1>2, <1>4, <1>5, <2>1, <2>2, <3>1
  <2>3. CASE ~(m <= j - i)
    <3>1. m - (j - i) \in 1..(n + 1 - j) /\ (j + (m - (j - i))) - 1 = (i + m) - 1
        BY <1>1, <2>1, <2>3
    <3>2. b[m - (j - i)] = s[(i + m) - 1]
        BY <1>3, <3>1
    <3> QED BY <1>2, <1>4, <1>5, <2>1, <2>3, <3>2
  <2> QED BY <2>2, <2>3
<1>8. z = ab
    BY <1>2, <1>5, <1>6, <1>7, SeqEqual
<1> QED BY <1>8 DEF z, ab, a, b

LEMMA DoubledFrom ==
    ASSUME NEW C, NEW s \in Seq(C), NEW i \in 1..(Len(s) + 1), NEW m \in 1..(Len(s) + 1 - i)
    PROVE  Doubled(From(s, i), m) <=> Doubled(s, (i + m) - 1)
<1> DEFINE n == Len(s)
           z == From(s, i)
           k == (i + m) - 1
<1>1. /\ Len(z) = n + 1 - i
      /\ \A x \in 1..(n + 1 - i) : z[x] = s[(i + x) - 1]
    BY FromIs
<1> HIDE DEF z
<1>2. n \in Nat /\ i \in Nat /\ m \in Nat
    OBVIOUS
<1> HIDE DEF n
<1>3. z[m] = s[k] /\ (m < Len(z) <=> k < n)
    BY <1>1, <1>2 DEF n
<1>4. m < Len(z) => z[m + 1] = s[k + 1]
  <2>1. m < Len(z) => m + 1 \in 1..(n + 1 - i) /\ (i + (m + 1)) - 1 = k + 1
      BY <1>1, <1>2
  <2> QED BY <1>1, <2>1
<1> QED BY <1>3, <1>4 DEF Doubled, n, z

\* A stretch without doubled commas is left as it is, one of doubled commas goes.
LEMMA LeftSplits ==
    ASSUME NEW C, NEW s \in Seq(C), NEW i \in 1..(Len(s) + 1), NEW j \in i..(Len(s) + 1)
    PROVE  /\ (\A m \in i..(j - 1) : ~Doubled(s, m)) =>
                  Left(s, i) = SubSeq(s, i, j - 1) \o Left(s, j)
           /\ (\A m \in i..(j - 1) : Doubled(s, m)) => Left(s, i) = Left(s, j)
<1> DEFINE n == Len(s)
           a == SubSeq(s, i, j - 1)
           b == From(s, j)
           z == From(s, i)
<1>1. n \in Nat /\ i \in Nat /\ j \in Nat /\ j \in 1..(n + 1) /\ i <= j /\ j <= n + 1
    OBVIOUS
<1>2. a \in Seq(C) /\ Len(a) = j - i /\ b \in Seq(C) /\ z = a \o b
    BY <1>1, FromIs, PieceIs, FromSplits
<1>3. \A m \in 1..(j - i) : Doubled(z, m) <=> Doubled(s, (i + m) - 1)
  <2>1. \A m \in 1..(j - i) : m \in 1..(n + 1 - i)
      BY <1>1
  <2> QED BY <2>1, DoubledFrom
<1>4. \A m \in 1..(j - i) : (i + m) - 1 \in i..(j - 1)
    BY <1>1
<1> HIDE DEF n, a, b, z
<1>5. ASSUME \A m \in i..(j - 1) : ~Doubled(s, m)
      PROVE  removeConsecutiveCommas(z) = a \o removeConsecutiveCommas(b)
  <2>1. \A m \in 1..Len(a) : ~Doubled(a \o b, m)
      BY <1>2, <1>3, <1>4, <1>5
  <2> QED BY <1>2, <2>1, CommasKept
<1>6. ASSUME \A m \in i..(j - 1) : Doubled(s, m)
      PROVE  removeConsecutiveCommas(z) = removeConsecutiveCommas(b)
  <2>1. \A m \in 1..Len(a) : Doubled(a \o b, m)
      BY <1>2, <1>3, <1>4, <1>6
  <2> QED BY <1>2, <2>1, CommasDropped
<1> QED BY <1>5, <1>6 DEF Left, a, b, z

LEMMA CommasType ==
    ASSUME NEW C, NEW s \in Seq(C)
    PROVE  /\ removeConsecutiveCommas(s) \in Seq(C)
           /\ Len(s) = 0 => removeConsecutiveCommas(s) = <<>>
<1>1. PICK d \in [0..Len(s) -> Seq(C)] : Tmp(s, d) /\ removeConsecutiveCommas(s) = d[Len(s)]
    BY CommasLoop
<1>2. Len(s) \in 0..Len(s)
    OBVIOUS
<1>3. d[Len(s)] \in Seq(C)
    BY <1>1, <1>2
<1> QED BY <1>1, <1>3 DEF Tmp

LEMMA LeftType ==
    ASSUME NEW C, NEW s \in Seq(C), NEW i \in 1..(Len(s) + 1)
    PROVE  Left(s, i) \in Seq(C) /\ (i = Len(s) + 1 => Left(s, i) = <<>>)
<1> DEFINE z == From(s, i)
<1>1. z \in Seq(C) /\ Len(z) = Len(s) + 1 - i
    BY FromIs
<1>2. i = Len(s) + 1 => Len(z) = 0
    BY <1>1
<1> HIDE DEF z
<1> QED BY <1>1, <1>2, CommasType DEF Left, z

\* What is left begins with the character that the line has there.
LEMMA LeftHead ==
    ASSUME NEW C, NEW s \in Seq(C), NEW i \in 1..Len(s)
    PROVE  Left(s, i) # <<>> /\ Left(s, i)[1] = s[i]
<1> DEFINE n == Len(s)
           T == {j \in i..n : ~Doubled(s, j)}
<1>1. n \in Nat /\ i \in Nat /\ i <= n /\ i \in 1..(n + 1)
    OBVIOUS
<1>2. n \in T /\ T \subseteq Nat
  <2>1. ~Doubled(s, n)
    <3>1. ~(n < n)
        BY <1>1
    <3> QED BY <3>1 DEF Doubled
  <2>2. \A y \in i..n : y \in Nat
      BY <1>1
  <2> QED BY <1>1, <2>1, <2>2
<1>3. PICK j \in T : \A y \in T : j <= y
    BY <1>2, LeastOne
<1>4. j \in i..n /\ j \in Nat /\ ~Doubled(s, j)
    BY <1>1, <1>3
<1>5. \A m \in i..(j - 1) : Doubled(s, m)
  <2>1. \A m \in i..(j - 1) : m \in i..n /\ ~(j <= m)
      BY <1>1, <1>4
  <2> QED BY <1>3, <2>1
<1> HIDE DEF T
<1>6. j \in 1..n /\ j \in 1..(n + 1) /\ j \in i..(n + 1)
      /\ j + 1 \in j..(n + 1) /\ (j + 1) - 1 = j /\ j + 1 \in 1..(n + 1)
    BY <1>1, <1>4
<1>7. Left(s, i) = Left(s, j)
    BY <1>1, <1>5, <1>6, LeftSplits
<1> DEFINE a == SubSeq(s, j, (j + 1) - 1)
           b == Left(s, j + 1)
<1>8. Left(s, j) = a \o b
  <2>1. \A m \in j..((j + 1) - 1) : m = j
      BY <1>6
  <2>2. \A m \in j..((j + 1) - 1) : ~Doubled(s, m)
      BY <1>4, <2>1
  <2> QED BY <1>6, <2>2, LeftSplits
<1>9. b \in Seq(C)
    BY <1>6, LeftType
<1>10. a \in Seq(C) /\ Len(a) = 1 /\ a[1] = s[j]
  <2>1. /\ a \in Seq(C) /\ Len(a) = (j + 1) - j
        /\ \A m \in 1..((j + 1) - j) : a[m] = s[(j + m) - 1]
      BY <1>6, PieceIs
  <2>2. (j + 1) - j = 1 /\ (j + 1) - 1 = j /\ 1 \in 1..1
      BY <1>6
  <2> HIDE DEF a
  <2> QED BY <2>1, <2>2
<1> HIDE DEF a, b
<1>11. a \o b # <<>> /\ (a \o b)[1] = a[1]
  <2>1. /\ a \o b \in Seq(C) /\ Len(a \o b) = Len(a) + Len(b)
        /\ \A m \in 1..(Len(a) + Len(b)) : (a \o b)[m] = IF m <= Len(a) THEN a[m] ELSE b[m - Len(a)]
      BY <1>9, <1>10, ConcatProperties
  <2>2. Len(b) \in Nat
      BY <1>9
  <2>3. Len(a \o b) # 0 /\ (a \o b)[1] = a[1]
      BY <1>10, <2>1, <2>2
  <2> QED BY <2>1, <2>3, EmptySeq
<1>12. s[j] = s[i]
  <2>1. CASE j = i
      BY <2>1
  <2>2. CASE j # i
    <3>1. i \in i..(j - 1) /\ j - 1 \in i..(j - 1) /\ (j - 1) + 1 = j
        BY <1>1, <1>4, <2>2
    <3>2. Doubled(s, i) /\ Doubled(s, j - 1)
        BY <1>5, <3>1
    <3> QED BY <3>1, <3>2 DEF Doubled
  <2> QED BY <2>1, <2>2
<1> QED BY <1>7, <1>8, <1>10, <1>11, <1>12

----------------------------------------------------------------------------
(****************************************************************************)
(* The scan's own steps, on a text that is one piece after another          *)
(****************************************************************************)
LEMMA MinIs ==
    ASSUME NEW T, T \subseteq Int, NEW x \in T, \A y \in T : x <= y
    PROVE  Min(T) = x
<1> DEFINE z == CHOOSE y \in T : \A w \in T : y <= w
<1>1. z \in T /\ \A w \in T : z <= w
    OBVIOUS
<1>2. Min(T) = z
    BY DEF Min
<1> HIDE DEF z
<1>3. z <= x /\ x <= z /\ x \in Int /\ z \in Int
    BY <1>1
<1> QED BY <1>2, <1>3

LEMMA MaxIs ==
    ASSUME NEW T, T \subseteq Int, NEW x \in T, \A y \in T : y <= x
    PROVE  Max(T) = x
<1> DEFINE z == CHOOSE y \in T : \A w \in T : y >= w
<1>1. z \in T /\ \A w \in T : z >= w
    OBVIOUS
<1>2. Max(T) = z
    BY DEF Max
<1> HIDE DEF z
<1>3. z <= x /\ x <= z /\ x \in Int /\ z \in Int
    BY <1>1
<1> QED BY <1>2, <1>3

\* v begins with c, or there is nothing of it.
NextIs(c, v) == v = <<>> \/ v[1] = c

\* The place of the first character that is c, and of the first that is not.
Place(s, c) == Min({i \in 1..Len(s) : s[i] = c} \cup {Len(s) + 1})
PlaceNot(s, c) == Min({i \in 1..Len(s) : s[i] # c} \cup {Len(s) + 1})

LEMMA Places ==
    ASSUME NEW C, NEW u \in Seq(C), NEW v \in Seq(C), NEW c
    PROVE  /\ (\A i \in 1..Len(u) : u[i] # c) /\ NextIs(c, v) => Place(u \o v, c) = Len(u) + 1
           /\ (\A i \in 1..Len(u) : u[i] = c) /\ (v = <<>> \/ v[1] # c) =>
                 PlaceNot(u \o v, c) = Len(u) + 1
<1> DEFINE s == u \o v
           n == Len(u)
           T == {i \in 1..Len(s) : s[i] = c} \cup {Len(s) + 1}
           R == {i \in 1..Len(s) : s[i] # c} \cup {Len(s) + 1}
<1>1. /\ s \in Seq(C) /\ Len(s) = n + Len(v) /\ n \in Nat /\ Len(v) \in Nat
      /\ \A i \in 1..n : s[i] = u[i]
      /\ v # <<>> => s[n + 1] = v[1] /\ Len(v) # 0
      /\ v = <<>> => Len(v) = 0
  <2>1. /\ s \in Seq(C) /\ Len(s) = n + Len(v)
        /\ \A m \in 1..(n + Len(v)) : s[m] = IF m <= n THEN u[m] ELSE v[m - n]
      BY ConcatProperties
  <2>2. n \in Nat /\ Len(v) \in Nat /\ (v # <<>> <=> Len(v) # 0)
      BY EmptySeq
  <2> HIDE DEF s, n
  <2>3. \A i \in 1..n : s[i] = u[i]
      BY <2>1, <2>2
  <2>4. v # <<>> => s[n + 1] = v[1]
    <3>1. v # <<>> => n + 1 \in 1..(n + Len(v)) /\ ~(n + 1 <= n) /\ (n + 1) - n = 1
        BY <2>2
    <3> QED BY <2>1, <3>1
  <2> QED BY <2>1, <2>2, <2>3, <2>4
<1> HIDE DEF s, n
<1>2. T \subseteq Int /\ R \subseteq Int
    BY <1>1
<1>3. ASSUME \A i \in 1..n : u[i] # c, NextIs(c, v) PROVE Min(T) = n + 1
  <2>1. n + 1 \in T
    <3>1. CASE v = <<>>
        BY <1>1, <3>1
    <3>2. CASE v # <<>>
      <4>1. s[n + 1] = c /\ n + 1 \in 1..Len(s)
          BY <1>1, <1>3, <3>2 DEF NextIs
      <4> QED BY <4>1
    <3> QED BY <3>1, <3>2
  <2>2. ASSUME NEW y \in T PROVE n + 1 <= y
    <3>1. y \notin 1..n
        BY <1>1, <1>3
    <3>2. y \in 1..Len(s) \/ y = Len(s) + 1
        OBVIOUS
    <3> QED BY <1>1, <3>1, <3>2
  <2> HIDE DEF T
  <2> QED BY <1>2, <2>1, <2>2, MinIs
<1>4. ASSUME \A i \in 1..n : u[i] = c, v = <<>> \/ v[1] # c PROVE Min(R) = n + 1
  <2>1. n + 1 \in R
    <3>1. CASE v = <<>>
        BY <1>1, <3>1
    <3>2. CASE v # <<>>
      <4>1. s[n + 1] # c /\ n + 1 \in 1..Len(s)
          BY <1>1, <1>4, <3>2
      <4> QED BY <4>1
    <3> QED BY <3>1, <3>2
  <2>2. ASSUME NEW y \in R PROVE n + 1 <= y
    <3>1. y \notin 1..n
        BY <1>1, <1>4
    <3>2. y \in 1..Len(s) \/ y = Len(s) + 1
        OBVIOUS
    <3> QED BY <1>1, <3>1, <3>2
  <2> HIDE DEF R
  <2> QED BY <1>2, <2>1, <2>2, MinIs
<1> QED BY <1>3, <1>4 DEF Place, PlaceNot, s, n

\* The two pieces of a text.
LEMMA Pieces ==
    ASSUME NEW C, NEW u \in Seq(C), NEW v \in Seq(C)
    PROVE  SubSeq(u \o v, 1, Len(u)) = u /\ From(u \o v, Len(u) + 1) = v
<1> DEFINE s == u \o v
           n == Len(u)
           m == Len(v)
           a == SubSeq(s, 1, (n + 1) - 1)
           b == From(s, n + 1)
<1>1. /\ s \in Seq(C) /\ Len(s) = n + m
      /\ \A i \in 1..(n + m) : s[i] = IF i <= n THEN u[i] ELSE v[i - n]
    BY ConcatProperties
<1>2. n \in Nat /\ m \in Nat
    OBVIOUS
<1> HIDE DEF s
<1>3. n + 1 \in 1..(Len(s) + 1) /\ 1 \in 1..(Len(s) + 1) /\ n + 1 \in 1..(Len(s) + 1)
    BY <1>1, <1>2
<1>4. /\ a \in Seq(C) /\ Len(a) = (n + 1) - 1
      /\ \A i \in 1..((n + 1) - 1) : a[i] = s[(1 + i) - 1]
    BY <1>1, <1>3, PieceIs
<1>5. /\ b \in Seq(C) /\ Len(b) = Len(s) + 1 - (n + 1)
      /\ \A i \in 1..(Len(s) + 1 - (n + 1)) : b[i] = s[(n + 1 + i) - 1]
    BY <1>1, <1>3, FromIs
<1> HIDE DEF a, b, n, m
<1>6. a = u
  <2>1. \A i \in 1..n : i \in 1..((n + 1) - 1) /\ (1 + i) - 1 = i /\ i \in 1..(n + m) /\ i <= n
      BY <1>2
  <2>2. \A i \in 1..n : a[i] = u[i]
      BY <1>1, <1>4, <2>1
  <2>3. Len(a) = n
      BY <1>2, <1>4
  <2> QED BY <1>4, <2>2, <2>3, SeqEqual DEF n
<1>7. b = v
  <2>1. Len(s) + 1 - (n + 1) = m
      BY <1>1, <1>2
  <2>2. \A i \in 1..m : (n + 1 + i) - 1 = n + i /\ n + i \in 1..(n + m) /\ ~(n + i <= n) /\ (n + i) - n = i
      BY <1>2
  <2>3. \A i \in 1..m : b[i] = v[i]
      BY <1>1, <1>5, <2>1, <2>2
  <2> QED BY <1>5, <2>1, <2>3, SeqEqual DEF m
<1>8. (n + 1) - 1 = n
    BY <1>2
<1> QED BY <1>6, <1>7, <1>8 DEF a, b, n, s

\* u has no c; u has nothing but spaces.
Lacks(u, c) == \A m \in 1..Len(u) : u[m] # c
Blank(u) == \A m \in 1..Len(u) : u[m] = " "

\* w is what comes in v behind a c, or there is nothing of either.
Behind(c, v, w) == (v = <<>> /\ w = <<>>) \/ v = <<c>> \o w

LEMMA BehindNext ==
    ASSUME NEW C, NEW c \in C, NEW v \in Seq(C), NEW w \in Seq(C), Behind(c, v, w)
    PROVE  NextIs(c, v)
<1>1. CASE v = <<>>
    BY <1>1 DEF NextIs
<1>2. CASE v = <<c>> \o w
    BY <1>2 DEF NextIs
<1> QED BY <1>1, <1>2 DEF Behind

LEMMA BehindIs ==
    ASSUME NEW C, NEW u \in Seq(C), NEW c \in C, NEW v \in Seq(C), NEW w \in Seq(C),
           Behind(c, v, w), Lacks(u, c)
    PROVE  /\ Place(u \o v, c) = Len(u) + 1
           /\ SubSeq(u \o v, 1, Len(u)) = u /\ From(u \o v, Len(u) + 2) = w
<1>1. NextIs(c, v)
    BY BehindNext
<1>2. From(u \o v, Len(u) + 2) = w
  <2>1. CASE v = <<>> /\ w = <<>>
    <3> DEFINE n == Len(u)
               z == SubSeq(u, n + 2, n)
    <3>1. u \o v = u
        BY <2>1, ConcatEmptySeq
    <3>2. n \in Nat
        OBVIOUS
    <3> HIDE DEF n
    <3>3. z = <<>>
        BY <3>2, SubSeqEmpty
    <3> QED BY <2>1, <3>1, <3>3 DEF From, z, n
  <2>2. CASE v = <<c>> \o w
    <3> DEFINE d == <<c>>
               x == u \o d
    <3>1. d \in Seq(C) /\ Len(d) = 1
        OBVIOUS
    <3> HIDE DEF d
    <3>a. u \in Seq(C) /\ d \in Seq(C)
        BY <3>1
    <3>b. x \in Seq(C) /\ Len(x) = Len(u) + Len(d)
        BY <3>a, ConcatProperties
    <3>r. Regroups(C)
        BY Regroup
    <3>3. u \o (d \o w) = x \o w
        BY <3>1, <3>r, SMTT(30) DEF Regroups
    <3> HIDE DEF x
    <3>2. x \in Seq(C) /\ Len(x) = Len(u) + 1
        BY <3>1, <3>b
    <3>4. From(x \o w, Len(x) + 1) = w
        BY <3>2, Pieces
    <3>5. Len(x) + 1 = Len(u) + 2
        BY <3>2
    <3> QED BY <2>2, <3>3, <3>4, <3>5 DEF d
  <2> QED BY <2>1, <2>2 DEF Behind
<1> QED BY <1>1, <1>2, Places, Pieces DEF Lacks

LEMMA StrsepIs ==
    ASSUME NEW C, NEW u \in Seq(C), NEW c \in C, NEW v \in Seq(C), NEW w \in Seq(C),
           Behind(c, v, w), Lacks(u, c)
    PROVE  /\ Strsep(u \o v, c) = [tok |-> u, rest |-> w]
           /\ c = "," => skipNextComma(u \o v) = w
           /\ c = ":" => AfterColon(u \o v) = w
<1> DEFINE s == u \o v
           i == Place(s, c)
<1>1. i = Len(u) + 1 /\ SubSeq(s, 1, Len(u)) = u /\ From(s, Len(u) + 2) = w
    BY BehindIs
<1>2. Len(u) \in Nat
    OBVIOUS
<1>3. i - 1 = Len(u) /\ i + 1 = Len(u) + 2
    BY <1>1, <1>2
<1> HIDE DEF s
<1>4. Strsep(s, c) = [tok |-> SubSeq(s, 1, i - 1), rest |-> From(s, i + 1)]
    BY DEF Strsep, FirstWhere, Place
<1>5. c = "," => skipNextComma(s) = From(s, i + 1)
    BY DEF skipNextComma, FirstWhere, Place
<1>6. c = ":" => AfterColon(s) = From(s, i + 1)
    BY DEF AfterColon, FirstWhere, Place
<1> HIDE DEF i
<1> QED BY <1>1, <1>3, <1>4, <1>5, <1>6 DEF s

LEMMA SkipIs ==
    ASSUME NEW C, NEW u \in Seq(C), NEW v \in Seq(C),
           Blank(u), v = <<>> \/ v[1] # " "
    PROVE  skipWhiteSpace(u \o v) = v
<1> DEFINE s == u \o v
           i == PlaceNot(s, " ")
<1>1. i = Len(u) + 1
    BY Places DEF Blank
<1>2. skipWhiteSpace(s) = From(s, i)
    BY DEF skipWhiteSpace, FirstWhere, PlaceNot
<1> HIDE DEF i
<1> QED BY <1>1, <1>2, Pieces

----------------------------------------------------------------------------
(****************************************************************************)
(* Fields                                                                   *)
(****************************************************************************)
\* The quotes up to j are even in number.
Even(s, j) == Cardinality(Quotes(s, 1, j)) % 2 = 0

LEMMA NoneKeeps ==
    ASSUME NEW s, NEW i \in Nat \ {0}, NEW j \in Nat, i <= j + 1,
           \A m \in i..j : s[m] # Quote
    PROVE  Even(s, j) <=> Even(s, i - 1)
<1>1. ASSUME NEW m \in 1..j, s[m] = Quote PROVE m \in 1..(i - 1)
  <2>1. m \notin i..j
      BY <1>1
  <2> QED BY <2>1
<1>2. \A m \in 1..(i - 1) : m \in 1..j
    OBVIOUS
<1>3. Quotes(s, 1, j) = Quotes(s, 1, i - 1)
    BY <1>1, <1>2 DEF Quotes
<1> QED BY <1>3 DEF Even

LEMMA OneTurns ==
    ASSUME NEW s, NEW i \in Nat \ {0}, s[i] = Quote
    PROVE  Even(s, i) <=> ~Even(s, i - 1)
<1> DEFINE T == Quotes(s, 1, i - 1)
<1>1. IsFiniteSet(T)
  <2>1. IsFiniteSet(1..(i - 1)) /\ T \in SUBSET (1..(i - 1))
      BY FS_Interval DEF Quotes
  <2> QED BY <2>1, FS_Subset
<1>2. Quotes(s, 1, i) = T \cup {i} /\ i \notin T
  <2>1. \A m : m \in 1..i <=> m \in 1..(i - 1) \/ m = i
      OBVIOUS
  <2>2. i \notin 1..(i - 1)
      OBVIOUS
  <2> QED BY <2>1, <2>2 DEF Quotes
<1>3. Cardinality(Quotes(s, 1, i)) = Cardinality(T) + 1 /\ Cardinality(T) \in Nat
    BY <1>1, <1>2, FS_AddElement, FS_CardinalityType
<1> HIDE DEF T
<1>4. (Cardinality(T) + 1) % 2 = 0 <=> Cardinality(T) % 2 # 0
    BY <1>3
<1> QED BY <1>3, <1>4 DEF Even, T

LEMMA SeparatorIs ==
    ASSUME NEW C, NEW s \in Seq(C), NEW i \in 1..Len(s)
    PROVE  i \in Separators(s) <=> s[i] = "," /\ Even(s, i - 1)
BY DEF Separators, Even

\* A field goes to the next separator, or to the end of the line.
LEMMA EndIs ==
    ASSUME NEW C, NEW s \in Seq(C), NEW i \in 1..Len(s)
    PROVE  /\ End(s, i) \in i..(Len(s) + 1)
           /\ End(s, i) <= Len(s) => End(s, i) \in Separators(s)
           /\ \A j \in i..(End(s, i) - 1) : j \notin Separators(s)
<1> DEFINE n == Len(s)
           T == {j \in Separators(s) : j >= i} \cup {n + 1}
<1>a. Separators(s) \subseteq 1..n
    BY DEF Separators
<1>1. n \in Nat /\ i \in Nat /\ i <= n /\ Separators(s) \subseteq 1..n
  <2> HIDE DEF T
  <2> QED BY <1>a
<1> HIDE DEF n
<1>2. T \subseteq Nat /\ T \subseteq Int /\ T # {}
    BY <1>1
<1>3. PICK b \in T : \A y \in T : b <= y
    BY <1>2, LeastOne
<1>4. End(s, i) = b
  <2>1. Min(T) = b
    <3> HIDE DEF T
    <3> QED BY <1>2, <1>3, MinIs
  <2> QED BY <2>1 DEF End, n
<1>5. b \in i..(n + 1) /\ (b <= n => b \in Separators(s))
  <2>1. ~(n + 1 <= n)
      BY <1>1
  <2>2. CASE b = n + 1
      BY <1>1, <2>1, <2>2
  <2>3. CASE b # n + 1
    <3>1. b \in Separators(s) /\ b >= i
        BY <1>3, <2>3
    <3> QED BY <1>1, <3>1
  <2> QED BY <2>2, <2>3
<1>6. \A j \in i..(b - 1) : j \notin Separators(s)
  <2>1. \A j \in i..(b - 1) : j >= i /\ ~(b <= j)
      BY <1>5, <1>1
  <2>2. ASSUME NEW j \in i..(b - 1), j \in Separators(s) PROVE FALSE
    <3>1. j \in T
        BY <2>1, <2>2
    <3> QED BY <1>3, <2>1, <3>1
  <2> QED BY <2>2
<1> QED BY <1>4, <1>5, <1>6 DEF n

LEMMA FieldBegins ==
    ASSUME NEW C, NEW s \in Seq(C), NEW i \in Fields(s)
    PROVE  i \in 1..Len(s) /\ Even(s, i - 1)
<1>1. i \in 1..Len(s) /\ i \in Nat \ {0}
    BY DEF Fields
<1>2. CASE i = 1
  <2>a. \A m : m \notin 1..0
      OBVIOUS
  <2>1. Quotes(s, 1, 0) = {}
      BY <2>a DEF Quotes
  <2>b. i - 1 = 0 /\ 0 % 2 = 0
      BY <1>2
  <2>2. Cardinality(Quotes(s, 1, i - 1)) = 0
      BY <2>b, <2>1, FS_EmptySet
  <2> QED BY <1>1, <2>2, <2>b DEF Even
<1>3. CASE i # 1
  <2>1. i - 1 \in Separators(s) /\ i - 1 \in 1..Len(s)
      BY <1>1, <1>3 DEF Fields, Separators
  <2>2. s[i - 1] = "," /\ Even(s, (i - 1) - 1)
      BY <2>1, SeparatorIs
  <2>3. "," # Quote
      BY DEF Quote
  <2>4. i - 1 \in Nat \ {0} /\ i - 1 <= (i - 1) + 1 /\ \A m \in (i - 1)..(i - 1) : m = i - 1
      BY <1>1, <1>3
  <2>5. Even(s, i - 1) <=> Even(s, (i - 1) - 1)
      BY <2>2, <2>3, <2>4, NoneKeeps
  <2> QED BY <1>1, <2>2, <2>5
<1> QED BY <1>2, <1>3

\* Behind a separator come more of them, of which the last one is left, and then
\* a field.
LEMMA CommaRun ==
    ASSUME NEW C, NEW s \in Seq(C), NEW b \in Separators(s)
    PROVE  \E e \in b..Len(s) :
              /\ \A m \in b..e : m \in Separators(s)
              /\ e + 1 \notin Separators(s)
              /\ Left(s, b) = <<",">> \o Left(s, e + 1)
<1> DEFINE n == Len(s)
           K == {m \in 1..n : s[m] = ","}
           T == (b..(n + 1)) \ K
<1>1. b \in 1..n /\ n \in Nat /\ b \in Nat \ {0} /\ b <= n /\ K \subseteq 1..n
  <2>1. b \in 1..n
      BY DEF Separators
  <2>2. n \in Nat
      OBVIOUS
  <2>3. K \subseteq 1..n
      OBVIOUS
  <2> HIDE DEF n, K, T
  <2> QED BY <2>1, <2>2, <2>3
<1>b. b \in K /\ Even(s, b - 1)
    BY <1>1, SeparatorIs
<1>k. \A m \in K : s[m] = ","
    OBVIOUS
<1>K. \A m \in 1..n : m \notin K => s[m] # ","
    OBVIOUS
<1> HIDE DEF n, K
<1>2. PICK j \in T : \A y \in T : j <= y
  <2>1. T \subseteq Nat /\ n + 1 \in T
      BY <1>1
  <2> HIDE DEF T
  <2> QED BY <2>1, LeastOne
<1> DEFINE e == j - 1
<1>3. /\ e \in b..n /\ e \in 1..n /\ e \in Nat \ {0} /\ e + 1 = j /\ (e + 1) - 1 = e
      /\ j \in b..(n + 1) /\ j \notin K
  <2>1. j # b /\ j \in b..(n + 1) /\ j \notin K
      BY <1>b, <1>2
  <2> HIDE DEF T
  <2> QED BY <1>1, <2>1
<1>4. \A m \in b..e : m \in K
  <2> SUFFICES ASSUME NEW m \in b..e, m \notin K PROVE FALSE
      OBVIOUS
  <2>1. m \in T /\ ~(j <= m)
      BY <1>1, <1>3
  <2> HIDE DEF T
  <2> QED BY <1>2, <2>1
<1> HIDE DEF e, T
<1>5. ASSUME NEW m \in b..e PROVE m \in Separators(s)
  <2>1. m \in 1..n /\ m - 1 \in Nat /\ b <= (m - 1) + 1 /\ \A x \in b..(m - 1) : x \in b..e
      BY <1>1, <1>3
  <2>2. "," # Quote
      BY DEF Quote
  <2>3. \A x \in b..(m - 1) : s[x] # Quote
      BY <1>4, <1>k, <2>1, <2>2
  <2>4. Even(s, m - 1) <=> Even(s, b - 1)
      BY <1>1, <2>1, <2>3, NoneKeeps
  <2>5. s[m] = ","
      BY <1>4, <1>k
  <2> QED BY <1>b, <2>1, <2>4, <2>5, SeparatorIs DEF n
<1>6. e + 1 \notin Separators(s)
  <2>1. CASE j \in 1..n
      BY <1>3, <1>K, <2>1 DEF Separators
  <2>2. CASE j \notin 1..n
      BY <1>3, <2>2 DEF Separators, n
  <2> QED BY <2>1, <2>2
<1>7. Left(s, b) = Left(s, e)
  <2>1. b \in 1..(n + 1) /\ e \in b..(n + 1)
      BY <1>1, <1>3
  <2>2. \A m \in b..(e - 1) : m < n /\ m \in b..e /\ m + 1 \in b..e
      BY <1>1, <1>3
  <2>3. \A m \in b..(e - 1) : Doubled(s, m)
      BY <1>4, <1>k, <2>2 DEF Doubled, n
  <2> QED BY <2>1, <2>3, LeftSplits DEF n
<1> DEFINE z == SubSeq(s, e, (e + 1) - 1)
<1>8. Left(s, e) = z \o Left(s, e + 1)
  <2>1. e \in 1..(n + 1) /\ e + 1 \in e..(n + 1)
      BY <1>1, <1>3
  <2>2. ~Doubled(s, e)
    <3>1. e < n => j \in 1..n
        BY <1>1, <1>3
    <3>2. e < n => s[e + 1] # ","
        BY <1>3, <1>K, <3>1
    <3> QED BY <3>2 DEF Doubled, n
  <2>3. \A m \in e..((e + 1) - 1) : ~Doubled(s, m)
    <3>1. \A m \in e..((e + 1) - 1) : m = e
        BY <1>3
    <3> QED BY <2>2, <3>1
  <2> QED BY <2>1, <2>3, LeftSplits DEF n
<1>9. z = <<",">>
  <2>1. e \in 1..(n + 1) /\ e + 1 \in e..(n + 1) /\ (e + 1) - e = 1 /\ 1 \in 1..1
      BY <1>1, <1>3
  <2>2. /\ z \in Seq(C) /\ Len(z) = (e + 1) - e
        /\ \A m \in 1..((e + 1) - e) : z[m] = s[(e + m) - 1]
      BY <2>1, PieceIs DEF n
  <2>3. e \in b..e
      BY <1>1, <1>3
  <2>4. s[e] = ","
      BY <1>4, <1>k, <2>3
  <2> HIDE DEF z
  <2> DEFINE c == s[e]
  <2>5. Len(z) = 1 /\ z[1] = c
      BY <1>3, <2>1, <2>2
  <2>6. e \in 1..n
      BY <1>3
  <2>7. c \in C
      BY <2>6 DEF n
  <2> HIDE DEF c
  <2>8. z = <<c>>
      BY <2>2, <2>5, <2>7, IsOne
  <2> QED BY <2>4, <2>8 DEF c
<1> HIDE DEF z
<1> QED BY <1>3, <1>5, <1>6, <1>7, <1>8, <1>9 DEF n

\* The next one of a set of places is one more of them.
LEMMA CountsNext ==
    ASSUME NEW n \in Nat, NEW S, S \subseteq 1..n, NEW i \in 1..n, NEW j \in S,
           i < j, \A m \in (i + 1)..(j - 1) : m \notin S
    PROVE  Cardinality(S \cap 1..j) = Cardinality(S \cap 1..i) + 1
<1> DEFINE T == S \cap 1..i
<1>1. IsFiniteSet(T)
  <2>1. IsFiniteSet(1..i) /\ T \in SUBSET (1..i)
      BY FS_Interval
  <2> QED BY <2>1, FS_Subset
<1>2. j \in 1..n
    OBVIOUS
<1>3. j \notin 1..i /\ \A m : m \in 1..j <=> m \in 1..i \/ m \in (i + 1)..(j - 1) \/ m = j
    BY <1>2
<1>4. S \cap 1..j = T \cup {j} /\ j \notin T
    BY <1>3
<1> HIDE DEF T
<1>5. Cardinality(S \cap 1..j) = Cardinality(T) + 1
    BY <1>1, <1>4, FS_AddElement
<1> QED BY <1>5 DEF T

LEMMA CountsLast ==
    ASSUME NEW n \in Nat, NEW S, S \subseteq 1..n, NEW i \in 1..n,
           \A m \in (i + 1)..n : m \notin S
    PROVE  Cardinality(S) = Cardinality(S \cap 1..i)
<1>1. \A m \in 1..n : m \in 1..i \/ m \in (i + 1)..n
    OBVIOUS
<1>2. S = S \cap 1..i
    BY <1>1
<1> QED BY <1>2

\* w is what is left of the line from its k-th field on, or the line has no more.
AtField(s, k, w) ==
    \/ k = Cardinality(Fields(s)) + 1 /\ w = <<>>
    \/ \E i \in Fields(s) : Cardinality(Fields(s) \cap 1..i) = k /\ w = Left(s, i)

LEMMA NextField ==
    ASSUME NEW C, NEW s \in Seq(C), NEW i \in Fields(s)
    PROVE  \E w \in Seq(C) :
              /\ End(s, i) = Len(s) + 1 => Left(s, End(s, i)) = <<>> /\ w = <<>>
              /\ End(s, i) # Len(s) + 1 => Left(s, End(s, i)) = <<",">> \o w
              /\ AtField(s, Cardinality(Fields(s) \cap 1..i) + 1, w)
<1> DEFINE n == Len(s)
           b == End(s, i)
           F == Fields(s)
           G == Separators(s)
           p0 == Cardinality(F \cap 1..i)
<1>1. i \in F /\ i \in 1..n /\ n \in Nat /\ i \in Nat \ {0}
  <2>1. i \in F /\ i \in 1..n
      BY DEF Fields
  <2>2. n \in Nat
      OBVIOUS
  <2> HIDE DEF n, F
  <2> QED BY <2>1, <2>2
<1>F. F \subseteq 1..n
    BY DEF Fields
<1>f. \A m \in 1..n : m \in F <=> m = 1 \/ (m - 1 \in G /\ m \notin G)
    BY DEF Fields
<1>2. /\ b \in i..(n + 1) /\ (b <= n => b \in G)
      /\ \A j \in i..(b - 1) : j \notin G
    BY <1>1, EndIs
<1> HIDE DEF b, n, F, G
\* No field begins between here and the separator's end.
<1>3. ASSUME NEW m \in (i + 1)..b, m \in F PROVE FALSE
  <2>1. m # 1 /\ m - 1 \in i..(b - 1)
      BY <1>1, <1>2
  <2>2. m - 1 \notin G
      BY <1>2, <2>1
  <2> QED BY <1>F, <1>f, <1>3, <2>1, <2>2
<1> HIDE DEF p0
<1>4. CASE b = n + 1
  <2>1. \A m \in (i + 1)..n : m \in (i + 1)..b
      BY <1>1, <1>4
  <2>2. \A m \in (i + 1)..n : m \notin F
      BY <1>3, <2>1
  <2>3. Cardinality(F) = p0
      BY <1>1, <1>F, <2>2, CountsLast DEF p0
  <2>4. n + 1 \in 1..(n + 1)
      BY <1>1
  <2>5. Left(s, b) = <<>>
      BY <1>4, <2>4, LeftType DEF n
  <2>6. <<>> \in Seq(C) /\ AtField(s, p0 + 1, <<>>)
      BY <2>3 DEF AtField, F
  <2> QED BY <1>4, <2>5, <2>6 DEF b, n, p0, F
<1>5. CASE b # n + 1
  <2>1. b \in G
      BY <1>1, <1>2, <1>5
  <2>2. PICK e \in b..n :
            /\ \A m \in b..e : m \in G
            /\ e + 1 \notin G
            /\ Left(s, b) = <<",">> \o Left(s, e + 1)
      BY <2>1, CommaRun DEF G, n
  <2> DEFINE w == Left(s, e + 1)
  <2>a. e \in b..n
      OBVIOUS
  <2>3. e \in Nat /\ e + 1 \in 1..(n + 1) /\ e \in b..e /\ i < e + 1 /\ (e + 1) - 1 = e
      BY <1>1, <1>2, <2>a
  <2>4. w \in Seq(C) /\ (e + 1 = n + 1 => w = <<>>)
      BY <2>3, LeftType DEF n
  <2> HIDE DEF w
  <2>5. ASSUME NEW m \in (i + 1)..e, m \in F PROVE FALSE
    <3>1. CASE m <= b
      <4>1. m \in (i + 1)..b
          BY <1>1, <1>2, <2>3, <3>1
      <4> QED BY <1>3, <2>5, <4>1
    <3>2. CASE ~(m <= b)
      <4>1. m \in b..e /\ m # 1
          BY <1>1, <1>2, <2>3, <3>2
      <4>2. m \in G
          BY <2>2, <4>1
      <4> QED BY <1>F, <1>f, <2>5, <4>1, <4>2
    <3> QED BY <3>1, <3>2
  <2>6. AtField(s, p0 + 1, w)
    <3>1. CASE e = n
      <4>1. \A m \in (i + 1)..n : m \notin F
          BY <2>5, <3>1
      <4>2. Cardinality(F) = p0
          BY <1>1, <1>F, <4>1, CountsLast DEF p0
      <4>3. w = <<>>
          BY <2>4, <3>1
      <4> QED BY <4>2, <4>3 DEF AtField, F
    <3>2. CASE e # n
      <4>1. e + 1 \in 1..n
          BY <1>1, <2>a, <2>3, <3>2
      <4>2. e \in G /\ e + 1 \notin G
          BY <2>2, <2>3
      <4>3. e + 1 \in F
          BY <1>f, <2>3, <4>1, <4>2
      <4> DEFINE j == e + 1
      <4>4. j \in F /\ i < j /\ \A m \in (i + 1)..(j - 1) : m \notin F
          BY <2>3, <2>5, <4>3
      <4> HIDE DEF j
      <4>5. Cardinality(F \cap 1..j) = p0 + 1
          BY <1>1, <1>F, <4>4, CountsNext, ZenonT(40) DEF p0
      <4> USE DEF j
      <4> QED BY <4>3, <4>5 DEF AtField, F, w
    <3> QED BY <3>1, <3>2
  <2>7. Left(s, b) = <<",">> \o w
      BY <2>2 DEF w
  <2> QED BY <1>5, <2>4, <2>6, <2>7 DEF b, n, p0, F
<1> QED BY <1>4, <1>5


----------------------------------------------------------------------------
(****************************************************************************)
(* Tokens                                                                   *)
(****************************************************************************)
\* A text is the spaces it begins with, and what skipWhiteSpace finds.
SkipsTo(f, u, g) ==
    /\ f = u \o g
    /\ Blank(u)
    /\ g = <<>> \/ g[1] # " "
    /\ skipWhiteSpace(f) = g
    /\ \A m \in 1..Len(g) : \E x \in 1..Len(f) : g[m] = f[x]

LEMMA SkipParts ==
    ASSUME NEW C, NEW f \in Seq(C)
    PROVE  \E u \in Seq(C), g \in Seq(C) : SkipsTo(f, u, g)
<1> DEFINE n == Len(f)
           K == {m \in 1..n : f[m] = " "}
           T == (1..(n + 1)) \ K
<1>1. n \in Nat
    OBVIOUS
<1>a. K \subseteq 1..n
    OBVIOUS
<1>2. (\A m \in K : f[m] = " ") /\ (\A m \in 1..n : m \notin K => f[m] # " ")
    OBVIOUS
<1> HIDE DEF n, K
<1>3. PICK k \in T : \A y \in T : k <= y
  <2>1. T \subseteq Nat /\ n + 1 \in T
      BY <1>1, <1>a
  <2> HIDE DEF T
  <2> QED BY <2>1, LeastOne
<1>4. k \in 1..(n + 1) /\ k \notin K /\ 1 \in 1..(n + 1)
    BY <1>1
<1>5. \A m \in 1..(k - 1) : m \in K
  <2> SUFFICES ASSUME NEW m \in 1..(k - 1), m \notin K PROVE FALSE
      OBVIOUS
  <2>1. m \in T /\ ~(k <= m)
      BY <1>1, <1>4
  <2> HIDE DEF T
  <2> QED BY <1>3, <2>1
<1> HIDE DEF T
<1> DEFINE u == SubSeq(f, 1, k - 1)
           g == From(f, k)
<1>6. From(f, 1) = u \o g /\ From(f, 1) = f
  <2>1. From(f, 1) = f
      BY SubSeqFull DEF From
  <2>2. From(f, 1) = u \o g
      BY <1>4, FromSplits DEF n
  <2> QED BY <2>1, <2>2
<1>7. u \in Seq(C) /\ Blank(u)
  <2>1. /\ u \in Seq(C) /\ Len(u) = k - 1
        /\ \A m \in 1..(k - 1) : u[m] = f[(1 + m) - 1]
      BY <1>4, PieceIs DEF n
  <2>2. \A m \in 1..(k - 1) : (1 + m) - 1 = m
      BY <1>4
  <2> HIDE DEF u
  <2>3. \A m \in 1..(k - 1) : u[m] = f[m]
      BY <2>1, <2>2
  <2> QED BY <1>2, <1>5, <2>1, <2>3 DEF Blank
<1>8. /\ g \in Seq(C) /\ Len(g) = n + 1 - k
      /\ \A m \in 1..(n + 1 - k) : g[m] = f[(k + m) - 1]
    BY <1>4, FromIs DEF n
<1>9. g = <<>> \/ g[1] # " "
  <2>1. CASE k \in 1..n
    <3>1. 1 \in 1..(n + 1 - k) /\ (k + 1) - 1 = k
        BY <1>1, <2>1
    <3>2. g[1] = f[k]
      <4> HIDE DEF g
      <4> QED BY <1>8, <3>1
    <3> QED BY <1>2, <1>4, <2>1, <3>2
  <2>2. CASE k \notin 1..n
    <3>1. n + 1 - k = 0
        BY <1>1, <1>4, <2>2
    <3> HIDE DEF g
    <3>2. Len(g) = 0
        BY <1>8, <3>1
    <3> QED BY <1>8, <3>2, EmptySeq
  <2> QED BY <2>1, <2>2
<1>10. \A m \in 1..Len(g) : \E x \in 1..n : g[m] = f[x]
  <2> HIDE DEF g
  <2>1. \A m \in 1..(n + 1 - k) : (k + m) - 1 \in 1..n
      BY <1>1, <1>4
  <2> QED BY <1>8, <2>1
<1> HIDE DEF u, g
<1>11. skipWhiteSpace(u \o g) = g
    BY <1>7, <1>8, <1>9, SkipIs
<1>12. f = u \o g
    BY <1>6
<1>13. SkipsTo(f, u, g)
    BY <1>7, <1>9, <1>10, <1>11, <1>12 DEF n, SkipsTo
<1> QED BY <1>7, <1>8, <1>13

\* A text in front of another one gives its own characters first.
LEMMA FirstOfBoth ==
    ASSUME NEW C, NEW g \in Seq(C), NEW v \in Seq(C)
    PROVE  /\ g # <<>> => g \o v # <<>> /\ (g \o v)[1] = g[1] /\ 1 \in 1..Len(g)
           /\ g = <<>> => g \o v = v
<1>1. /\ g \o v \in Seq(C) /\ Len(g \o v) = Len(g) + Len(v)
      /\ \A m \in 1..(Len(g) + Len(v)) : (g \o v)[m] = IF m <= Len(g) THEN g[m] ELSE v[m - Len(g)]
    BY ConcatProperties
<1>2. Len(g) \in Nat /\ Len(v) \in Nat /\ (g # <<>> <=> Len(g) # 0)
    BY EmptySeq
<1> DEFINE x == g \o v
<1>3. g = <<>> => x = v
    BY ConcatEmptySeq
<1> HIDE DEF x
<1>4. g # <<>> => Len(x) # 0 /\ x[1] = g[1] /\ 1 \in 1..Len(g)
    BY <1>1, <1>2 DEF x
<1>5. g # <<>> => x # <<>>
    BY <1>1, <1>4, EmptySeq DEF x
<1> QED BY <1>3, <1>4, <1>5 DEF x

Comma == ","

LEMMA PlainToken ==
    ASSUME NEW C, Comma \in C, NEW f \in Seq(C), NEW v \in Seq(C), NEW w \in Seq(C),
           Behind(Comma, v, w), Lacks(f, Quote), Lacks(f, Comma)
    PROVE  nextTok(f \o v) = [tok |-> skipWhiteSpace(f), rest |-> w]
<1> DEFINE c == Comma
<1>c. c \in C /\ Behind(c, v, w)
    OBVIOUS
<1>d. c # " " /\ c # Quote
    BY DEF Quote, Comma
<1>1. PICK u \in Seq(C), g \in Seq(C) : SkipsTo(f, u, g)
    BY SkipParts
<1>s. f = u \o g /\ skipWhiteSpace(f) = g /\ Blank(u)
    BY <1>1 DEF SkipsTo
<1>2. Lacks(g, Quote) /\ Lacks(g, c) /\ (g = <<>> \/ g[1] # " ")
    BY <1>1 DEF SkipsTo, Lacks
<1> DEFINE t == g \o v
<1>3. f \o v = u \o t
  <2>1. Regroups(C)
      BY Regroup
  <2>2. (u \o g) \o v = u \o (g \o v)
      BY <2>1, SMTT(30) DEF Regroups
  <2> QED BY <1>s, <2>2
<1>4. t \in Seq(C)
    BY ConcatProperties
<1> HIDE DEF t, c
<1>5. v = <<>> \/ v[1] = c
    BY <1>c, BehindNext DEF NextIs
<1>7. t = <<>> \/ (t[1] # " " /\ t[1] # Quote)
  <2>1. CASE g = <<>>
    <3>1. t = v
        BY <2>1, FirstOfBoth DEF t
    <3> QED BY <1>5, <1>d, <3>1
  <2>2. CASE g # <<>>
    <3>1. t[1] = g[1] /\ 1 \in 1..Len(g)
        BY <2>2, FirstOfBoth DEF t
    <3> QED BY <1>2, <2>2, <3>1 DEF Lacks
  <2> QED BY <2>1, <2>2
<1>8. skipWhiteSpace(u \o t) = t
    BY <1>s, <1>4, <1>7, SkipIs
<1>9. Strsep(t, c) = [tok |-> g, rest |-> w]
    BY <1>c, <1>2, StrsepIs DEF t
<1>10. nextTok(u \o t) = Strsep(t, ",")
  <2> DEFINE z == u \o t
  <2>1. skipWhiteSpace(z) = t
      BY <1>8
  <2>2. ~(t # <<>> /\ Head(t) = Quote)
    <3>1. t # <<>> => Head(t) = t[1]
        BY <1>4, HeadIs
    <3> QED BY <1>7, <3>1
  <2> HIDE DEF z
  <2>3. nextTok(z) = Strsep(t, ",")
      BY <2>1, <2>2 DEF nextTok
  <2> QED BY <2>3 DEF z
<1> QED BY <1>s, <1>3, <1>9, <1>10 DEF c, Comma

QuotedText(u, x, y, v) == u \o (<<Quote>> \o (x \o (<<Quote>> \o (y \o v))))

LEMMA QuotedToken ==
    ASSUME NEW C, Comma \in C, Quote \in C, NEW u \in Seq(C), NEW x \in Seq(C),
           NEW y \in Seq(C), NEW v \in Seq(C), NEW w \in Seq(C), Behind(Comma, v, w),
           Blank(u), Lacks(x, Quote), Lacks(y, Comma)
    PROVE  nextTok(QuotedText(u, x, y, v)) = [tok |-> x, rest |-> w]
<1> DEFINE d == <<Quote>>
           r == y \o v
           dr == d \o r
           t == x \o dr
           dt == d \o t
           z == u \o dt
<1>1. r \in Seq(C)
    BY ConcatProperties
<1>q. d \in Seq(C) /\ Len(d) = 1 /\ d[1] = Quote
    BY OneIs
<1>2. d \in Seq(C) /\ Len(d) = 1
    BY <1>q
<1>3. d # <<>>
    OBVIOUS
<1>4. Behind(Quote, dr, r)
    BY DEF Behind
<1> HIDE DEF d, r
<1>5. dr \in Seq(C)
    BY <1>1, <1>2, ConcatProperties
<1> HIDE DEF dr
<1>6. t \in Seq(C)
    BY <1>5, ConcatProperties
<1> HIDE DEF t
<1>7. dt \in Seq(C) /\ dt # <<>> /\ dt[1] = Quote
  <2>1. dt \in Seq(C)
      BY <1>2, <1>6, ConcatProperties
  <2> QED BY <1>q, <1>3, <1>6, <2>1, FirstOfBoth
<1>8. Head(dt) = Quote /\ Tail(dt) = t
  <2>1. From(dt, Len(d) + 1) = t
      BY <1>2, <1>6, Pieces
  <2>2. Len(d) + 1 = 2
      BY <1>2
  <2> HIDE DEF dt
  <2>3. Head(dt) = dt[1] /\ Tail(dt) = From(dt, 2)
      BY <1>7, HeadIs
  <2> QED BY <1>7, <2>1, <2>2, <2>3
<1> HIDE DEF dt
<1>9. skipWhiteSpace(z) = dt
  <2>1. Quote # " "
      BY DEF Quote
  <2> QED BY <1>7, <2>1, SkipIs
<1>10. Strsep(t, Quote) = [tok |-> x, rest |-> r]
  <2> DEFINE c == Quote
  <2>1. c \in C /\ Behind(c, dr, r) /\ Lacks(x, c)
      BY <1>4
  <2> HIDE DEF c
  <2>2. Strsep(t, c) = [tok |-> x, rest |-> r]
      BY <1>1, <1>5, <2>1, StrsepIs DEF t
  <2> QED BY <2>2 DEF c
<1>11. skipNextComma(r) = w
  <2>1. Comma = "," => skipNextComma(y \o v) = w
      BY StrsepIs
  <2> QED BY <2>1 DEF Comma, r
<1> HIDE DEF z
<1>12. nextTok(z) = [[tok |-> x, rest |-> r] EXCEPT !.rest = skipNextComma(@)]
    BY <1>7, <1>8, <1>9, <1>10 DEF nextTok
<1>13. nextTok(z) = [tok |-> x, rest |-> w]
    BY <1>11, <1>12
<1> QED BY <1>13 DEF QuotedText, z, dt, t, dr, d, r


----------------------------------------------------------------------------
(****************************************************************************)
(* The scan of a field                                                      *)
(****************************************************************************)
\* No c from i to j.
Free(s, i, j, c) == \A m \in i..j : s[m] # c

LEMMA FreeLacks ==
    ASSUME NEW C, NEW s \in Seq(C), NEW i \in 1..(Len(s) + 1), NEW j \in i..(Len(s) + 1),
           NEW c, Free(s, i, j - 1, c)
    PROVE  Lacks(SubSeq(s, i, j - 1), c)
<1> DEFINE z == SubSeq(s, i, j - 1)
<1>1. Len(z) = j - i /\ \A m \in 1..(j - i) : z[m] = s[(i + m) - 1]
    BY PieceIs
<1>2. \A m \in 1..(j - i) : (i + m) - 1 \in i..(j - 1)
    OBVIOUS
<1> HIDE DEF z
<1>3. ASSUME NEW m \in 1..Len(z) PROVE z[m] # c
  <2>1. z[m] = s[(i + m) - 1] /\ (i + m) - 1 \in i..(j - 1)
      BY <1>1, <1>2
  <2> QED BY <2>1 DEF Free
<1> QED BY <1>3 DEF Lacks, z

\* A character that no other comma follows is the first of what is left.
LEMMA LeftOne ==
    ASSUME NEW C, NEW s \in Seq(C), NEW i \in 1..Len(s), ~Doubled(s, i)
    PROVE  Left(s, i) = <<s[i]>> \o Left(s, i + 1)
<1> DEFINE n == Len(s)
           z == SubSeq(s, i, (i + 1) - 1)
           c == s[i]
<1>1. n \in Nat /\ c \in C
    OBVIOUS
<1> HIDE DEF n, c
<1>2. /\ i \in 1..(n + 1) /\ i + 1 \in i..(n + 1) /\ (i + 1) - i = 1 /\ (i + 1) - 1 = i
      /\ \A m \in i..((i + 1) - 1) : m = i
    BY <1>1 DEF n
<1>3. \A m \in i..((i + 1) - 1) : ~Doubled(s, m)
    BY <1>2
<1>4. Left(s, i) = z \o Left(s, i + 1)
    BY <1>2, <1>3, LeftSplits DEF n
<1>5. /\ z \in Seq(C) /\ Len(z) = (i + 1) - i
      /\ \A m \in 1..((i + 1) - i) : z[m] = s[(i + m) - 1]
    BY <1>2, PieceIs DEF n
<1>6. 1 \in 1..1
    OBVIOUS
<1> HIDE DEF z
<1>7. Len(z) = 1 /\ z[1] = c
    BY <1>2, <1>5, <1>6 DEF c
<1>8. z = <<c>>
    BY <1>1, <1>5, <1>7, IsOne
<1> QED BY <1>4, <1>8 DEF c

\* Outside of quotes there is no comma in a field.
LEMMA NoCommaOutside ==
    ASSUME NEW C, NEW s \in Seq(C), NEW i \in Fields(s),
           NEW j \in i..End(s, i), Even(s, j - 1), Free(s, j, End(s, i) - 1, Quote)
    PROVE  Free(s, j, End(s, i) - 1, Comma)
<1> DEFINE n == Len(s)
           b == End(s, i)
           G == Separators(s)
<1>1. i \in 1..n /\ n \in Nat
    BY FieldBegins
<1>2. b \in i..(n + 1) /\ \A m \in i..(b - 1) : m \notin G
    BY <1>1, EndIs
<1> HIDE DEF n, b, G
<1>j. j \in i..b
    BY DEF b
<1>3. ASSUME NEW m \in j..(b - 1), s[m] = Comma PROVE FALSE
  <2>1. /\ m \in 1..n /\ m \in i..(b - 1) /\ m - 1 \in Nat /\ j \in Nat \ {0} /\ j <= (m - 1) + 1
        /\ \A x \in j..(m - 1) : x \in j..(b - 1)
      BY <1>1, <1>2, <1>j
  <2>2. \A x \in j..(m - 1) : s[x] # Quote
      BY <2>1 DEF Free, b
  <2>3. Even(s, m - 1) <=> Even(s, j - 1)
      BY <2>1, <2>2, NoneKeeps
  <2>4. m \in G
      BY <1>3, <2>1, <2>3, SeparatorIs DEF G, n, Comma
  <2> QED BY <1>2, <2>1, <2>4
<1> QED BY <1>3 DEF Free, b


LEMMA PlainField ==
    ASSUME NEW C, Comma \in C, NEW s \in Seq(C), NEW i \in Fields(s), NEW w \in Seq(C),
           Behind(Comma, Left(s, End(s, i)), w), Quotes(s, i, End(s, i) - 1) = {}
    PROVE  /\ nextTok(Left(s, i)) = [tok |-> Text(s, i), rest |-> w]
           /\ Free(s, i, End(s, i) - 1, Comma)
<1> DEFINE n == Len(s)
           b == End(s, i)
           f == SubSeq(s, i, b - 1)
           v == Left(s, b)
<1>1. i \in 1..n /\ n \in Nat /\ i \in 1..(n + 1)
    BY FieldBegins
<1>2. b \in i..(n + 1) /\ b \in 1..(n + 1)
    BY <1>1, EndIs
<1>3. Free(s, i, b - 1, Quote)
    BY DEF Free, Quotes
<1>4. Free(s, i, b - 1, Comma)
  <2>1. i \in i..b
      BY <1>1, <1>2
  <2>2. Even(s, i - 1)
      BY FieldBegins
  <2> QED BY <1>3, <2>1, <2>2, NoCommaOutside
<1> HIDE DEF b
<1>5. Left(s, i) = f \o v
  <2>1. \A m \in i..(b - 1) : ~Doubled(s, m)
      BY <1>4 DEF Free, Doubled, Comma
  <2> QED BY <1>1, <1>2, <2>1, LeftSplits
<1>6. f \in Seq(C) /\ v \in Seq(C)
    BY <1>1, <1>2, PieceIs, LeftType
<1>7. Lacks(f, Quote) /\ Lacks(f, Comma)
    BY <1>1, <1>2, <1>3, <1>4, FreeLacks
<1>8. Text(s, i) = skipWhiteSpace(f)
    BY DEF Text, b
<1> HIDE DEF f
<1>9. Behind(Comma, v, w)
    BY DEF b
<1> HIDE DEF v
<1>10. nextTok(f \o v) = [tok |-> skipWhiteSpace(f), rest |-> w]
    BY <1>6, <1>7, <1>9, PlainToken
<1> QED BY <1>4, <1>5, <1>8, <1>10 DEF b

Spaces(s, i, j) == \A m \in i..j : s[m] = " "
SingleCommas(s, i, j) == \A m \in i..j : ~(s[m] = "," /\ s[m + 1] = ",")

LEMMA QuotedField ==
    ASSUME NEW C, Comma \in C, Quote \in C, NEW s \in Seq(C), NEW i \in Fields(s), NEW w \in Seq(C),
           Behind(Comma, Left(s, End(s, i)), w),
           NEW a, NEW c, a < c, Quotes(s, i, End(s, i) - 1) = {a, c},
           Spaces(s, i, a - 1), SingleCommas(s, i, End(s, i) - 2)
    PROVE  nextTok(Left(s, i)) = [tok |-> Text(s, i), rest |-> w]
<1> DEFINE n == Len(s)
           b == End(s, i)
           u == SubSeq(s, i, a - 1)
           x == SubSeq(s, a + 1, c - 1)
           y == SubSeq(s, c + 1, b - 1)
           v == Left(s, b)
<1>1. i \in 1..n /\ n \in Nat /\ i \in 1..(n + 1)
    BY FieldBegins
<1>2. b \in i..(n + 1) /\ b \in 1..(n + 1)
    BY <1>1, EndIs
<1> HIDE DEF n, b
<1>3. a \in i..(b - 1) /\ c \in i..(b - 1)
    BY DEF Quotes, b
<1>4. s[a] = Quote /\ s[c] = Quote
    BY DEF Quotes
<1>5. /\ a \in 1..n /\ c \in 1..n /\ a \in Nat /\ c \in Nat
      /\ a \in i..(n + 1) /\ a + 1 \in 1..(n + 1) /\ c \in (a + 1)..(n + 1)
      /\ c + 1 \in 1..(n + 1) /\ c + 1 \in i..b /\ b \in (c + 1)..(n + 1)
      /\ c \in 1..(n + 1) /\ a \in 1..(n + 1)
    BY <1>1, <1>2, <1>3
<1>6. /\ Free(s, i, a - 1, Quote)
      /\ Free(s, a + 1, c - 1, Quote)
      /\ Free(s, c + 1, b - 1, Quote)
  <2>1. \A m : (m \in i..(a - 1) \/ m \in (a + 1)..(c - 1) \/ m \in (c + 1)..(b - 1)) =>
                   m \in i..(b - 1) /\ m \notin {a, c}
      BY <1>1, <1>2, <1>5
  <2>2. \A m \in i..(b - 1) : m \notin {a, c} => s[m] # Quote
      BY DEF Quotes, b
  <2> QED BY <2>1, <2>2 DEF Free
<1>7. Even(s, c)
  <2>1. Even(s, i - 1)
      BY FieldBegins
  <2>2. Even(s, a - 1)
    <3>1. i \in Nat \ {0} /\ a - 1 \in Nat /\ i <= (a - 1) + 1
        BY <1>1, <1>5
    <3> QED BY <1>6, <2>1, <3>1, NoneKeeps DEF Free
  <2>3. ~Even(s, a)
    <3>1. a \in Nat \ {0}
        BY <1>5
    <3> QED BY <1>4, <2>2, <3>1, OneTurns
  <2>4. ~Even(s, c - 1)
    <3>1. a + 1 \in Nat \ {0} /\ c - 1 \in Nat /\ a + 1 <= (c - 1) + 1 /\ (a + 1) - 1 = a
        BY <1>5
    <3> QED BY <1>6, <2>3, <3>1, NoneKeeps DEF Free
  <2>5. c \in Nat \ {0}
      BY <1>5
  <2> QED BY <1>4, <2>4, <2>5, OneTurns
<1>8. Free(s, c + 1, b - 1, Comma)
  <2>1. (c + 1) - 1 = c
      BY <1>5
  <2> QED BY <1>5, <1>6, <1>7, <2>1, NoCommaOutside DEF b
<1>9. \A m \in i..(b - 1) : ~Doubled(s, m)
  <2> SUFFICES ASSUME NEW m \in i..(b - 1), Doubled(s, m) PROVE FALSE
      OBVIOUS
  <2>1. s[m] = "," /\ s[m + 1] = ","
      BY DEF Doubled
  <2>2. m \notin i..(b - 2)
      BY <2>1 DEF b, SingleCommas
  <2>3. m = b - 1
      BY <1>1, <1>2, <2>2
  <2>4. m = c \/ m \in (c + 1)..(b - 1)
      BY <1>5, <2>3
  <2>5. m # c
      BY <1>4, <2>1 DEF Quote
  <2> QED BY <1>8, <2>1, <2>4, <2>5 DEF Free, Comma
<1>10. /\ \A m \in i..(a - 1) : m \in i..(b - 1)
       /\ \A m \in (a + 1)..(c - 1) : m \in i..(b - 1)
       /\ \A m \in (c + 1)..(b - 1) : m \in i..(b - 1)
    BY <1>1, <1>2, <1>5
<1>11. Left(s, i) = u \o Left(s, a)
    BY <1>1, <1>5, <1>9, <1>10, LeftSplits DEF n
<1>12. Left(s, a) = <<Quote>> \o Left(s, a + 1)
    BY <1>3, <1>4, <1>5, <1>9, LeftOne DEF n
<1>13. Left(s, a + 1) = x \o Left(s, c)
    BY <1>5, <1>9, <1>10, LeftSplits DEF n
<1>14. Left(s, c) = <<Quote>> \o Left(s, c + 1)
    BY <1>3, <1>4, <1>5, <1>9, LeftOne DEF n
<1>15. Left(s, c + 1) = y \o v
    BY <1>5, <1>9, <1>10, LeftSplits DEF n
<1>16. Left(s, i) = QuotedText(u, x, y, v)
  <2> HIDE DEF u, x, y, v
  <2> QED BY <1>11, <1>12, <1>13, <1>14, <1>15 DEF QuotedText
<1>17. u \in Seq(C) /\ Blank(u)
  <2>1. /\ u \in Seq(C) /\ Len(u) = a - i
        /\ \A m \in 1..(a - i) : u[m] = s[(i + m) - 1]
      BY <1>1, <1>5, PieceIs DEF n
  <2>2. \A m \in 1..(a - i) : (i + m) - 1 \in i..(a - 1)
      BY <1>1, <1>5
  <2> HIDE DEF u
  <2> QED BY <2>1, <2>2 DEF Blank, Spaces
<1>18. x \in Seq(C) /\ Lacks(x, Quote)
    BY <1>5, <1>6, PieceIs, FreeLacks DEF n
<1>19. y \in Seq(C) /\ Lacks(y, Comma)
    BY <1>5, <1>8, PieceIs, FreeLacks DEF n
<1>20. v \in Seq(C) /\ Behind(Comma, v, w)
    BY <1>2, LeftType DEF n, b
<1>21. Text(s, i) = x
  <2> DEFINE q == {a, c}
  <2>1. q \subseteq Int /\ q # {} /\ (\A m \in q : a <= m) /\ (\A m \in q : m <= c)
      BY <1>5
  <2>a. a \in q /\ c \in q
      OBVIOUS
  <2> HIDE DEF q
  <2>2. Min(q) = a
      BY <2>1, <2>a, MinIs
  <2>3. Max(q) = c
      BY <2>1, <2>a, MaxIs
  <2>4. Quotes(s, i, b - 1) = q
      BY DEF q, b
  <2>5. Text(s, i) = SubSeq(s, Min(q) + 1, Max(q) - 1)
      BY <2>1, <2>4 DEF Text, b
  <2> QED BY <2>2, <2>3, <2>5
<1> HIDE DEF u, x, y, v
<1>22. nextTok(QuotedText(u, x, y, v)) = [tok |-> x, rest |-> w]
    BY <1>17, <1>18, <1>19, <1>20, QuotedToken
<1> QED BY <1>16, <1>21, <1>22


\* A dash is followed by a comma in what is left where it is in the line.
LEMMA DashIs ==
    ASSUME NEW C, NEW s \in Seq(C), NEW i \in 1..Len(s)
    PROVE  /\ Dash(Left(s, i)) <=> s[i] = "-" /\ i + 1 \in 1..Len(s) /\ s[i + 1] = ","
           /\ s[i] = "-" => Left(s, i) = <<s[i]>> \o Left(s, i + 1)
<1> DEFINE n == Len(s)
           l == Left(s, i)
           t == Left(s, i + 1)
           d == <<s[i]>>
<1>1. n \in Nat /\ i + 1 \in 1..(n + 1) /\ i \in 1..(n + 1)
  <2>1. n \in Nat /\ i \in 1..n
      OBVIOUS
  <2> HIDE DEF n
  <2> QED BY <2>1
<1>2. l # <<>> /\ l[1] = s[i] /\ l \in Seq(C) /\ t \in Seq(C)
    BY <1>1, LeftHead, LeftType
<1>3. s[i] = "-" => l = d \o t
  <2>1. s[i] = "-" => ~Doubled(s, i)
      BY DEF Doubled
  <2> QED BY <2>1, LeftOne
<1>4. i + 1 \in 1..n => t # <<>> /\ t[1] = s[i + 1]
    BY LeftHead
<1>5. i + 1 \notin 1..n => t = <<>>
  <2>1. i + 1 \notin 1..n => i + 1 = n + 1
    <3> HIDE DEF n
    <3> QED BY <1>1
  <2> QED BY <1>1, <2>1, LeftType
<1>6. d \in Seq(C) /\ Len(d) = 1
    BY OneIs
<1> HIDE DEF l, t, d, n
<1>7. /\ d \o t \in Seq(C) /\ Len(d \o t) = Len(d) + Len(t)
      /\ \A m \in 1..(Len(d) + Len(t)) : (d \o t)[m] = IF m <= Len(d) THEN d[m] ELSE t[m - Len(d)]
    BY <1>2, <1>6, ConcatProperties
<1>8. Len(t) \in Nat /\ (t # <<>> <=> Len(t) # 0)
    BY <1>2, EmptySeq
<1> DEFINE e == d \o t
<1>9. (Len(e) >= 2 <=> t # <<>>) /\ (t # <<>> => e[2] = t[1])
  <2>1. t # <<>> => 2 \in 1..(1 + Len(t)) /\ ~(2 <= 1) /\ 2 - 1 = 1
      BY <1>8
  <2> HIDE DEF e
  <2>2. Len(e) >= 2 <=> t # <<>>
      BY <1>6, <1>7, <1>8 DEF e
  <2> QED BY <1>6, <1>7, <2>1, <2>2 DEF e
<1> HIDE DEF e
<1>10. s[i] = "-" => (Dash(l) <=> i + 1 \in 1..n /\ s[i + 1] = ",")
    BY <1>2, <1>3, <1>4, <1>5, <1>9 DEF Dash, e
<1>11. s[i] # "-" => ~Dash(l)
    BY <1>2 DEF Dash
<1> QED BY <1>3, <1>10, <1>11 DEF l, t, d, n


\* What a conversion finds at the beginning of a field: the field's text, or that
\* its value is missing; and it leaves w.
Scans(s, i, w) ==
    /\ nextTok(Left(s, i)) = [tok |-> Text(s, i), rest |-> w]
    /\ Dash(Left(s, i)) <=> IsMissing(s, i)
    /\ IsMissing(s, i) => From(Left(s, i), 3) = w

LEMMA FieldScans ==
    ASSUME NEW C, Comma \in C, Quote \in C, NEW s \in Seq(C), NEW i \in Fields(s), FieldIsRegular(s, i)
    PROVE  \E w \in Seq(C) :
              /\ Scans(s, i, w)
              /\ AtField(s, Cardinality(Fields(s) \cap 1..i) + 1, w)
<1> DEFINE n == Len(s)
           b == End(s, i)
           v == Left(s, b)
           q == Quotes(s, i, b - 1)
<1>1. i \in 1..n /\ n \in Nat /\ i \in 1..(n + 1)
    BY FieldBegins
<1>a. b \in i..(n + 1) /\ b \in 1..(n + 1)
    BY <1>1, EndIs
<1>2. /\ b \in i..(n + 1) /\ b \in 1..(n + 1)
      /\ b <= n => b \in Separators(s)
    BY <1>1, EndIs
<1>b. b <= n => s[b] = Comma
    BY <1>2 DEF Separators, Comma
<1>3. PICK w \in Seq(C) :
          /\ b = n + 1 => v = <<>> /\ w = <<>>
          /\ b # n + 1 => v = <<",">> \o w
          /\ AtField(s, Cardinality(Fields(s) \cap 1..i) + 1, w)
    BY NextField
<1>4. Behind(Comma, v, w)
    BY <1>3 DEF Behind, Comma
\* The field is plain, or in quotes; a dash before its first comma is all of it.
<1> DEFINE Dashed == s[i] = "-" /\ i + 1 \in 1..n /\ s[i + 1] = ","
<1>5. Dashed /\ Free(s, i, b - 1, Comma) => i + 1 \notin i..(b - 1)
    BY DEF Free, Comma
<1>6. Dashed => s[i] = "-"
    OBVIOUS
<1> HIDE DEF Dashed
<1>7. /\ nextTok(Left(s, i)) = [tok |-> Text(s, i), rest |-> w]
      /\ Dashed => i + 1 \notin i..(b - 1)
  <2>1. CASE q = {}
    <3>1. nextTok(Left(s, i)) = [tok |-> Text(s, i), rest |-> w] /\ Free(s, i, b - 1, Comma)
        BY <1>4, <2>1, PlainField
    <3> QED BY <1>5, <3>1
  <2>2. CASE q # {}
    <3>1. PICK a \in q, c \in q :
              /\ a < c /\ q = {a, c} /\ \A m \in i..(a - 1) : s[m] = " "
              /\ \A m \in i..(b - 2) : ~(s[m] = "," /\ s[m + 1] = ",")
        BY <2>2 DEF FieldIsRegular
    <3>2. a < c /\ q = {a, c} /\ Spaces(s, i, a - 1) /\ SingleCommas(s, i, b - 2)
        BY <3>1 DEF Spaces, SingleCommas
    <3>3. nextTok(Left(s, i)) = [tok |-> Text(s, i), rest |-> w]
        BY <1>4, <3>2, QuotedField
    <3>4. a \in i..(b - 1) /\ s[a] = Quote
        BY DEF Quotes
    <3>5. s[i] # "-"
      <4>1. CASE a = i
          BY <3>4, <4>1 DEF Quote
      <4>2. CASE a # i
        <5>1. i \in i..(a - 1)
          <6> HIDE DEF b, n
          <6> QED BY <1>1, <3>4, <4>2
        <5>2. s[i] = " "
            BY <3>2, <5>1 DEF Spaces
        <5> QED BY <5>2
      <4> QED BY <4>1, <4>2
    <3> QED BY <1>6, <3>3, <3>5
  <2> QED BY <2>1, <2>2
<1> DEFINE z == SubSeq(s, i, b - 1)
           l == Left(s, i)
<1>8. /\ z \in Seq(C) /\ Len(z) = b - i
      /\ \A m \in 1..(b - i) : z[m] = s[(i + m) - 1]
    BY <1>1, <1>2, PieceIs
<1>9. ASSUME IsMissing(s, i) PROVE Dashed
  <2>1. z = <<"-">> /\ b <= n
      BY <1>9 DEF IsMissing
  <2> DEFINE d == <<"-">>
  <2>2. Len(d) = 1 /\ d[1] = "-"
      OBVIOUS
  <2>3. z = d /\ b <= n
      BY <2>1
  <2> HIDE DEF z, d, n, b
  <2>4. b - i = 1 /\ 1 \in 1..(b - i) /\ (i + 1) - 1 = i /\ i + 1 = b
    <3>1. b - i = 1
        BY <1>8, <2>2, <2>3
    <3>2. i \in Nat /\ b \in Nat
        BY <1>1, <1>a
    <3>3. i + 1 = b /\ (i + 1) - 1 = i
        BY <3>1, <3>2
    <3>4. 1 \in 1..1
        OBVIOUS
    <3> QED BY <3>1, <3>3, <3>4
  <2>5. s[i] = "-"
      BY <1>8, <2>2, <2>3, <2>4
  <2>6. s[i + 1] = Comma /\ i + 1 \in 1..n
      BY <1>1, <1>2, <1>b, <2>3, <2>4
  <2> QED BY <2>5, <2>6 DEF Dashed, n, Comma
<1>10. ASSUME Dashed PROVE IsMissing(s, i) /\ From(l, 3) = w
  <2> DEFINE c == s[i]
             d == <<c>>
             e == <<Comma>>
             x == d \o e
  <2>1. i + 1 \in 1..n /\ c = "-"
      BY <1>10 DEF Dashed
  <2>2. i \notin Separators(s)
      BY <2>1 DEF Separators
  <2>3. b = i + 1 /\ b <= n /\ b # n + 1
    <3> HIDE DEF n, b, c
    <3> QED BY <1>1, <1>2, <1>7, <1>10, <2>1, <2>2
  <2>4. c \in C
      BY <1>1
  <2>5. IsMissing(s, i)
    <3>1. b - i = 1 /\ (i + 1) - 1 = i /\ 1 \in 1..1
      <4> HIDE DEF n, b
      <4> QED BY <1>1, <2>3
    <3> HIDE DEF z, b
    <3>2. Len(z) = 1 /\ z[1] = c
        BY <1>8, <3>1
    <3> HIDE DEF c
    <3>3. z = <<c>>
        BY <1>8, <2>4, <3>2, IsOne
    <3> QED BY <2>1, <2>3, <3>3 DEF IsMissing, z, b, n
  <2>6. l = d \o Left(s, i + 1)
      BY <1>1, <2>1, DashIs
  <2>7. Left(s, i + 1) = e \o w
      BY <1>3, <2>3 DEF Comma
  <2>8. d \in Seq(C) /\ e \in Seq(C) /\ Len(d) = 1 /\ Len(e) = 1
      BY <2>4, OneIs
  <2> HIDE DEF d, e, l, c
  <2>9. x \in Seq(C) /\ Len(x) = Len(d) + Len(e)
      BY <2>8, ConcatProperties
  <2>r. Regroups(C)
      BY Regroup
  <2>10. d \o (e \o w) = x \o w
      BY <2>8, <2>r DEF Regroups
  <2> HIDE DEF x
  <2>11. From(x \o w, Len(x) + 1) = w
      BY <2>9, Pieces
  <2>12. Len(x) + 1 = 3
      BY <2>8, <2>9
  <2>13. l = x \o w
      BY <2>6, <2>7, <2>10
  <2> QED BY <2>5, <2>11, <2>12, <2>13
<1>11. Dash(l) <=> Dashed
    BY <1>1, DashIs DEF Dashed
<1>12. Scans(s, i, w)
    BY <1>7, <1>9, <1>10, <1>11 DEF Scans
<1> QED BY <1>3, <1>12


----------------------------------------------------------------------------
(****************************************************************************)
(* The beginning of the scan                                                *)
(****************************************************************************)
Colon == ":"

\* A text without c is one of other characters, and the other way round.
LEMMA Narrow ==
    ASSUME NEW C, NEW c
    PROVE  /\ \A u \in Seq(C) : Lacks(u, c) => u \in Seq(C \ {c})
           /\ \A u \in Seq(C \ {c}) : u \in Seq(C) /\ Lacks(u, c)
<1> DEFINE D == C \ {c}
<1>1. ASSUME NEW u \in Seq(C), Lacks(u, c) PROVE u \in Seq(D)
  <2>1. \A m \in 1..Len(u) : u[m] \in D
      BY <1>1 DEF Lacks
  <2>2. Len(u) \in Nat /\ u = [m \in 1..Len(u) |-> u[m]]
      OBVIOUS
  <2> HIDE DEF D
  <2> QED BY <2>1, <2>2, IsASeq
<1>2. ASSUME NEW u \in Seq(D) PROVE u \in Seq(C) /\ Lacks(u, c)
  <2>1. \A m \in 1..Len(u) : u[m] \in D
    <3> HIDE DEF D
    <3> QED OBVIOUS
  <2>2. \A m \in 1..Len(u) : u[m] \in C
      BY <2>1
  <2>3. Len(u) \in Nat /\ u = [m \in 1..Len(u) |-> u[m]]
    <3> HIDE DEF D
    <3> QED OBVIOUS
  <2>4. Lacks(u, c)
      BY <2>1 DEF Lacks
  <2> HIDE DEF D
  <2>5. u \in Seq(C)
      BY <2>2, <2>3, IsASeq
  <2> QED BY <2>4, <2>5
<1> QED BY <1>1, <1>2

\* a is b with a text without c before it.
Prefixed(C, c, a, b) == \E u \in Seq(C) : Lacks(u, c) /\ a = u \o b

\* Before a text that is written there comes nothing that was not there.
LEMMA CommasOfPrefix ==
    ASSUME NEW C, NEW c, NEW s \in Seq(C), NEW t \in Seq(C), Lacks(s, c)
    PROVE  Prefixed(C, c, removeConsecutiveCommas(s \o t), removeConsecutiveCommas(t))
<1> DEFINE n == Len(s)
           r == removeConsecutiveCommas(t)
           D == C \ {c}
<1>p. PICK d \in [0..n -> Seq(C)] : TmpOfBoth(C, s, t, d)
    BY CommasOfBoth
<1>1. /\ d[0] = <<>>
      /\ \A i \in 1..n :
            d[i] = IF Doubled(s \o t, i) THEN d[i - 1] ELSE Append(d[i - 1], s[i])
      /\ removeConsecutiveCommas(s \o t) = d[n] \o r
      /\ r \in Seq(C)
    BY <1>p DEF TmpOfBoth
<1>2. n \in Nat
    OBVIOUS
<1>3. s \in Seq(D)
    BY Narrow
<1>4. \A i \in 1..n : s[i] \in D
  <2> HIDE DEF D
  <2> QED BY <1>3
<1> HIDE DEF r, D
<1>5. \A i \in 0..n : d[i] \in Seq(D)
  <2> DEFINE T == {i \in 0..n : d[i] \notin Seq(D)}
  <2>1. T \subseteq Nat
      OBVIOUS
  <2>2. ASSUME T # {} PROVE FALSE
    <3>1. PICK i \in T : \A y \in T : i <= y
        BY <2>1, <2>2, LeastOne
    <3>2. i \in 0..n /\ d[i] \notin Seq(D)
        BY <3>1
    <3>a. <<>> \in Seq(D)
        OBVIOUS
    <3>3. i # 0
        BY <1>1, <3>2, <3>a
    <3>4. i \in 1..n /\ i - 1 \in 0..n /\ ~(i <= i - 1)
        BY <1>2, <3>2, <3>3
    <3>5. i - 1 \notin T
        BY <3>1, <3>4
    <3>6. d[i - 1] \in Seq(D) /\ s[i] \in D
        BY <1>4, <3>4, <3>5
    <3>7. Append(d[i - 1], s[i]) \in Seq(D)
        BY <3>6
    <3> QED BY <1>1, <3>2, <3>4, <3>6, <3>7
  <2> QED BY <2>2
<1>6. n \in 0..n
    BY <1>2
<1>7. d[n] \in Seq(C) /\ Lacks(d[n], c)
    BY <1>5, <1>6, Narrow DEF D
<1> QED BY <1>1, <1>7 DEF r, Prefixed

LEMMA BothAt ==
    ASSUME NEW C, NEW g \in Seq(C), NEW v \in Seq(C), v # <<>>
    PROVE  Len(g) + 1 \in 1..Len(g \o v) /\ (g \o v)[Len(g) + 1] = v[1]
<1> DEFINE n == Len(g)
           x == g \o v
<1>1. /\ x \in Seq(C) /\ Len(x) = n + Len(v)
      /\ \A m \in 1..(n + Len(v)) : x[m] = IF m <= n THEN g[m] ELSE v[m - n]
    BY ConcatProperties
<1>2. n \in Nat /\ Len(v) \in Nat /\ Len(v) # 0
    BY EmptySeq
<1> HIDE DEF n, x
<1>3. n + 1 \in 1..(n + Len(v)) /\ ~(n + 1 <= n) /\ (n + 1) - n = 1
    BY <1>2
<1> QED BY <1>1, <1>3 DEF n, x

LEMMA ColonStays ==
    ASSUME NEW C, NEW s \in Seq(C)
    PROVE  /\ HasColon(s) <=> HasColon(removeConsecutiveCommas(s))
           /\ HasColon(s) =>
                 /\ AfterColon(s) \in Seq(C)
                 /\ AfterColon(removeConsecutiveCommas(s)) = Left(AfterColon(s), 1)
<1> DEFINE n == Len(s)
           r == removeConsecutiveCommas(s)
<1>1. n \in Nat
    OBVIOUS
<1>2. CASE ~HasColon(s)
  <2>1. Lacks(s, Colon)
      BY <1>2 DEF HasColon, Lacks, Colon
  <2>2. s \in Seq(C \ {Colon})
      BY <2>1, Narrow
  <2>3. r \in Seq(C \ {Colon})
      BY <2>2, CommasType
  <2>4. Lacks(r, Colon)
      BY <2>3, Narrow
  <2>5. ~HasColon(r)
      BY <2>4 DEF HasColon, Lacks, Colon
  <2> QED BY <1>2, <2>5
<1>3. CASE HasColon(s)
  <2> DEFINE K == {m \in 1..n : s[m] = Colon}
             M == K \cup {n + 1}
  <2>1. K \subseteq 1..n /\ K # {}
      BY <1>3 DEF HasColon, Colon
  <2>2. (\A m \in K : s[m] = Colon) /\ (\A m \in 1..n : m \notin K => s[m] # Colon)
      OBVIOUS
  <2>3. Place(s, Colon) = Min(M)
      BY DEF Place
  <2> HIDE DEF K, n
  <2>4. PICK k \in K : \A y \in K : k <= y
    <3>1. K \subseteq Nat
        BY <1>1, <2>1
    <3> QED BY <2>1, <3>1, LeastOne
  <2>5. /\ k \in 1..n /\ 1 \in 1..(n + 1) /\ k \in 1..(n + 1) /\ k + 1 \in 1..(n + 1)
        /\ \A m \in 1..(k - 1) : m \in 1..n /\ ~(k <= m)
      BY <1>1, <2>1
  <2>6. \A m \in 1..(k - 1) : m \notin K
      BY <2>4, <2>5
  <2>7. Min(M) = k
    <3>1. M \subseteq Int /\ k \in M /\ \A y \in M : k <= y
        BY <1>1, <2>1, <2>4, <2>5
    <3> HIDE DEF M
    <3> QED BY <3>1, MinIs
  <2> DEFINE u == SubSeq(s, 1, k - 1)
             t == From(s, k)
             body == From(s, k + 1)
  <2>8. AfterColon(s) = body
    <3>1. AfterColon(s) = From(s, Place(s, Colon) + 1)
        BY DEF AfterColon, FirstWhere, Place, Colon
    <3> QED BY <2>3, <2>7, <3>1
  <2>9. u \in Seq(C) /\ t \in Seq(C) /\ body \in Seq(C)
      BY <2>5, PieceIs, FromIs DEF n
  <2>10. Lacks(u, Colon)
    <3>1. Free(s, 1, k - 1, Colon)
        BY <2>2, <2>5, <2>6 DEF Free
    <3> QED BY <2>5, <3>1, FreeLacks DEF n
  <2>11. s = u \o t
    <3>1. From(s, 1) = s
        BY SubSeqFull DEF From
    <3>2. From(s, 1) = u \o t
        BY <2>5, FromSplits DEF n
    <3> QED BY <3>1, <3>2
  <2> DEFINE l == Left(s, k + 1)
             d == <<Colon>>
             v == d \o l
  <2>12. removeConsecutiveCommas(t) = v
    <3>1. s[k] = Colon
        BY <2>2, <2>4
    <3>2. ~Doubled(s, k)
        BY <3>1 DEF Doubled, Colon
    <3>3. Left(s, k) = <<s[k]>> \o Left(s, k + 1)
        BY <2>5, <3>2, LeftOne DEF n
    <3> QED BY <3>1, <3>3 DEF Left
  <2>13. Colon \in C /\ l \in Seq(C)
    <3>1. s[k] = Colon /\ s[k] \in C
        BY <2>2, <2>4, <2>5 DEF n
    <3> QED BY <2>5, <3>1, LeftType DEF n
  <2>14. v \in Seq(C) /\ v # <<>> /\ v[1] = Colon
    <3>1. d \in Seq(C) /\ d # <<>> /\ d[1] = Colon
        BY <2>13, OneIs
    <3> HIDE DEF d, l
    <3> QED BY <2>13, <3>1, ConcatProperties, FirstOfBoth
  <2>15. Behind(Colon, v, l)
      BY DEF Behind
  <2> HIDE DEF u, t, v, d
  <2> DEFINE rt == removeConsecutiveCommas(t)
             rut == removeConsecutiveCommas(u \o t)
             c == Colon
  <2>16. PICK x \in Seq(C) : Lacks(x, Colon) /\ rut = x \o rt
    <3>1. Lacks(u, c)
        BY <2>10
    <3> HIDE DEF c
    <3>2. Prefixed(C, c, rut, rt)
        BY <2>9, <3>1, CommasOfPrefix
    <3> QED BY <3>2 DEF c, Prefixed
  <2>17. r = x \o v
      BY <2>11, <2>12, <2>16
  <2> HIDE DEF r, l
  <2>18. HasColon(r)
    <3>1. Len(x) + 1 \in 1..Len(r) /\ r[Len(x) + 1] = Colon
        BY <2>14, <2>17, BothAt
    <3> QED BY <3>1 DEF HasColon, Colon
  <2>19. AfterColon(r) = l
    <3>1. Colon = ":" => AfterColon(x \o v) = l
        BY <2>13, <2>14, <2>15, <2>16, StrsepIs
    <3> QED BY <2>17, <3>1 DEF Colon
  <2>20. l = Left(body, 1)
    <3>1. From(body, 1) = body
        BY <2>9, SubSeqFull DEF From
    <3> HIDE DEF body
    <3> QED BY <3>1 DEF Left, l, body
  <2> QED BY <1>3, <2>8, <2>9, <2>18, <2>19, <2>20 DEF r
<1> QED BY <1>2, <1>3


----------------------------------------------------------------------------
(****************************************************************************)
(* The scan                                                                 *)
(****************************************************************************)
\* What a format's conversions should store.
Values == {Expected(k) : k \in {m \in 1..Len(fmt) : m <= FieldCount}}

Stored ==
    /\ out \in Seq(Values) /\ Len(out) = p - 1
    /\ \A k \in 1..(p - 1) : out[k] = Expected(k)

\* Why a scan has stopped.
Stopped ==
    \/ p - 1 = Len(fmt)
    \/ p - 1 = FieldCount
    \/ p <= FieldCount /\ fmt[p] = "d" /\ Expected(p) = <<>>

\* While a scan goes on its cursor is at the next conversion's field.
TokInv ==
    /\ in_line \in Lines /\ fmt \in Fmts /\ p \in 1..(Len(fmt) + 1)
    /\ ~HasColon(in_line) => ~scanning /\ out = <<>>
    /\ InDomain =>
          /\ Stored /\ p - 1 <= FieldCount
          /\ scanning => AtField(Body, p, rest)
          /\ ~scanning => Stopped


----------------------------------------------------------------------------
Chars == STRING \cup {Comma, Quote}

LEMMA FirstField ==
    ASSUME NEW C, NEW s \in Seq(C)
    PROVE  AtField(s, 1, Left(s, 1))
<1> DEFINE n == Len(s)
           F == Fields(s)
<1>1. n \in Nat /\ F \subseteq 1..n
    BY DEF Fields
<1>2. CASE n = 0
  <2>1. F = {}
    <3>1. \A m : m \notin 1..0
        OBVIOUS
    <3> HIDE DEF F
    <3> QED BY <1>1, <1>2, <3>1
  <2>2. Cardinality(F) = 0
      BY <2>1, FS_EmptySet
  <2>3. 1 \in 1..(n + 1) /\ 1 = n + 1 /\ 1 = 0 + 1
    <3> HIDE DEF n
    <3> QED BY <1>1, <1>2
  <2>4. Left(s, 1) = <<>>
      BY <2>3, LeftType
  <2> QED BY <2>2, <2>3, <2>4 DEF AtField
<1>3. CASE n # 0
  <2>1. 1 \in 1..n
    <3> HIDE DEF n
    <3> QED BY <1>1, <1>3
  <2>2. 1 \in F
      BY <2>1 DEF Fields
  <2>3. F \cap 1..1 = {1}
    <3>1. \A m : m \in 1..1 <=> m = 1
        OBVIOUS
    <3> HIDE DEF F
    <3> QED BY <2>2, <3>1
  <2>4. Cardinality(F \cap 1..1) = 1
    <3> HIDE DEF F
    <3> QED BY <2>3, FS_Singleton
  <2> QED BY <2>2, <2>4 DEF AtField
<1> QED BY <1>2, <1>3

LEMMA CountIsNat ==
    ASSUME NEW C, NEW s \in Seq(C)
    PROVE  Cardinality(Fields(s)) \in Nat
<1> DEFINE F == Fields(s)
<1>1. IsFiniteSet(1..Len(s)) /\ F \in SUBSET (1..Len(s))
  <2>1. Len(s) \in Nat
      OBVIOUS
  <2> QED BY <2>1, FS_Interval DEF Fields
<1> HIDE DEF F
<1>2. Cardinality(F) \in Nat
    BY <1>1, FS_Subset, FS_CardinalityType
<1> QED BY <1>2 DEF F

LEMMA BodyType ==
    ASSUME TokInv
    PROVE  /\ in_line \in Seq(Chars) /\ fmt \in Seq({"d", "s"})
           /\ HasColon(in_line) => Body \in Seq(Chars)
<1>1. in_line \in Seq(STRING) /\ fmt \in Seq({"d", "s"})
    BY ScanAssumption DEF TokInv
<1>2. in_line \in Seq(Chars)
  <2>1. \A m \in 1..Len(in_line) : in_line[m] \in STRING
      BY <1>1
  <2>2. \A m \in 1..Len(in_line) : in_line[m] \in Chars
      BY <2>1 DEF Chars
  <2>3. Len(in_line) \in Nat /\ in_line = [m \in 1..Len(in_line) |-> in_line[m]]
      BY <1>1
  <2> QED BY <2>2, <2>3, IsASeq
<1> QED BY <1>1, <1>2, ColonStays DEF Body

THEOREM InitTokInv == Init => TokInv
<1> SUFFICES ASSUME Init PROVE TokInv
    OBVIOUS
<1> DEFINE r == removeConsecutiveCommas(in_line)
<1>1. /\ in_line \in Lines /\ fmt \in Fmts /\ p = 1 /\ out = <<>>
      /\ rest = IF HasColon(r) THEN AfterColon(r) ELSE <<>>
      /\ scanning = HasColon(r)
    BY DEF Init
<1>2. in_line \in Seq(STRING) /\ fmt \in Seq({"d", "s"})
    BY <1>1, ScanAssumption
<1>3. in_line \in Seq(Chars)
  <2>1. \A m \in 1..Len(in_line) : in_line[m] \in STRING
      BY <1>2
  <2>2. \A m \in 1..Len(in_line) : in_line[m] \in Chars
      BY <2>1 DEF Chars
  <2>3. Len(in_line) \in Nat /\ in_line = [m \in 1..Len(in_line) |-> in_line[m]]
      BY <1>2
  <2> QED BY <2>2, <2>3, IsASeq
<1>4. /\ HasColon(in_line) <=> HasColon(r)
      /\ HasColon(in_line) => Body \in Seq(Chars) /\ AfterColon(r) = Left(Body, 1)
    BY <1>3, ColonStays DEF Body
<1> HIDE DEF r
<1>5. p \in 1..(Len(fmt) + 1)
  <2>1. Len(fmt) \in Nat
      BY <1>2
  <2> QED BY <1>1, <2>1
<1>6. ASSUME InDomain
      PROVE  /\ Stored /\ p - 1 <= FieldCount
             /\ AtField(Body, p, rest)
             /\ scanning
  <2>1. HasColon(in_line) /\ HasColon(r)
      BY <1>4, <1>6 DEF InDomain
  <2>2. Stored
    <3>1. p - 1 = 0 /\ \A k : k \notin 1..0
        BY <1>1
    <3>2. out \in Seq(Values) /\ Len(out) = 0
        BY <1>1
    <3> QED BY <3>1, <3>2 DEF Stored
  <2>3. FieldCount \in Nat
      BY <1>4, <2>1, CountIsNat DEF FieldCount
  <2>4. AtField(Body, 1, Left(Body, 1))
      BY <1>4, <2>1, FirstField
  <2>5. AtField(Body, p, rest)
      BY <1>1, <1>4, <2>1, <2>4
  <2>6. p - 1 <= FieldCount
      BY <1>1, <2>3
  <2>7. scanning
      BY <1>1, <2>1
  <2> QED BY <2>2, <2>5, <2>6, <2>7
<1>7. ~HasColon(in_line) => ~scanning /\ out = <<>>
    BY <1>1, <1>4
<1> QED BY <1>1, <1>5, <1>6, <1>7 DEF TokInv

\* What a conversion meets: the field of its number.
Meets(i, w) ==
    /\ i \in Fields(Body) /\ rest = Left(Body, i) /\ p <= FieldCount
    /\ Expected(p) = Value(Body, i, fmt[p])
    /\ Scans(Body, i, w) /\ AtField(Body, p + 1, w)

LEMMA AtItsField ==
    ASSUME TokInv, InDomain, More
    PROVE  \E i, w : Meets(i, w)
<1> DEFINE F == Fields(Body)
           C(i) == Cardinality(F \cap 1..i)
<1>1. Body \in Seq(Chars)
    BY BodyType DEF InDomain
<1>2. Len(Body) \in Nat /\ F \subseteq 1..Len(Body)
    BY <1>1 DEF Fields
<1>3. AtField(Body, p, rest) /\ rest # <<>>
    BY DEF TokInv, More
<1>4. PICK i \in F : C(i) = p /\ rest = Left(Body, i)
    BY <1>3 DEF AtField
<1>5. p <= FieldCount
  <2>1. IsFiniteSet(F)
    <3>1. IsFiniteSet(1..Len(Body)) /\ F \in SUBSET (1..Len(Body))
        BY <1>2, FS_Interval
    <3> HIDE DEF F
    <3> QED BY <3>1, FS_Subset
  <2>2. F \cap 1..i \in SUBSET F
      OBVIOUS
  <2> HIDE DEF F
  <2>3. Cardinality(F \cap 1..i) <= Cardinality(F)
      BY <2>1, <2>2, FS_Subset
  <2> QED BY <1>4, <2>3 DEF FieldCount, F
<1>6. Expected(p) = Value(Body, i, fmt[p])
  <2> DEFINE x == CHOOSE y \in F : C(y) = p
  <2>1. x \in F /\ C(x) = p
    <3> HIDE DEF F, C
    <3> QED BY <1>4
  <2>2. Expected(p) = Value(Body, x, fmt[p])
      BY DEF Expected
  <2> HIDE DEF x, F
  <2>3. x = i
      BY <1>2, <1>4, <2>1, KthIsOne
  <2> QED BY <2>2, <2>3
<1>7. FieldIsRegular(Body, i)
    BY DEF InDomain, Regular
<1>8. Comma \in Chars /\ Quote \in Chars
    BY DEF Chars
<1>9. PICK w \in Seq(Chars) : Scans(Body, i, w) /\ AtField(Body, C(i) + 1, w)
    BY <1>1, <1>7, <1>8, FieldScans
<1>10. AtField(Body, p + 1, w)
    BY <1>4, <1>9
<1>11. i \in Fields(Body) /\ rest = Left(Body, i)
    BY <1>4
<1> HIDE DEF F, C
<1> QED BY <1>5, <1>6, <1>9, <1>10, <1>11 DEF Meets


\* A value is stored behind the others.
LEMMA StoreOne ==
    ASSUME NEW V, NEW o \in Seq(V), NEW x \in V
    PROVE  /\ Append(o, x) \in Seq(V) /\ Len(Append(o, x)) = Len(o) + 1
           /\ Append(o, x)[Len(o) + 1] = x
           /\ \A k \in 1..Len(o) : Append(o, x)[k] = o[k]
OBVIOUS

\* What a step that goes on to the next field keeps.
LEMMA StepsOn ==
    ASSUME TokInv, InDomain, More, UNCHANGED <<in_line, fmt>>,
           p' = p + 1, out' = Append(out, Expected(p)), p <= FieldCount
    PROVE  Stored' /\ p' - 1 <= FieldCount'
<1> DEFINE V == Values
           x == Expected(p)
<1>1. /\ Body' = Body /\ FieldCount' = FieldCount
      /\ \A k : Expected(k)' = Expected(k)
    BY DEF Body, FieldCount, Expected
<1>2. Values' = Values
    BY <1>1 DEF Values
<1>3. p \in Nat \ {0} /\ p \in 1..Len(fmt)
  <2>1. p \in 1..(Len(fmt) + 1) /\ p <= Len(fmt)
      BY DEF TokInv, More
  <2>2. Len(fmt) \in Nat
      BY BodyType
  <2> QED BY <2>1, <2>2
<1>4. out \in Seq(V) /\ Len(out) = p - 1 /\ \A k \in 1..(p - 1) : out[k] = Expected(k)
    BY DEF TokInv, Stored
<1>5. x \in V
    BY <1>3 DEF Values
<1> HIDE DEF V, x
<1>6. /\ out' \in Seq(V) /\ Len(out') = Len(out) + 1
      /\ out'[Len(out) + 1] = x
      /\ \A k \in 1..Len(out) : out'[k] = out[k]
    BY <1>4, <1>5, StoreOne DEF x
<1>7. Len(out') = p' - 1 /\ Len(out) + 1 = p
    BY <1>3, <1>4, <1>6
<1>8. ASSUME NEW k \in 1..(p' - 1) PROVE out'[k] = Expected(k)
  <2>1. k \in 1..(p - 1) \/ k = p
      BY <1>3
  <2>2. CASE k = p
      BY <1>6, <1>7, <2>2 DEF x
  <2>3. CASE k \in 1..(p - 1)
      BY <1>4, <1>6, <2>3
  <2> QED BY <2>1, <2>2, <2>3
<1>9. Stored'
    BY <1>1, <1>2, <1>6, <1>7, <1>8 DEF Stored, V
<1>10. p' - 1 = p
    BY <1>3
<1>11. p' - 1 <= FieldCount'
    BY <1>1, <1>10
<1> QED BY <1>9, <1>11


THEOREM NextTokInv == TokInv /\ [Next]_vars => TokInv'
<1> SUFFICES ASSUME TokInv, [Next]_vars PROVE TokInv'
    OBVIOUS
<1> USE DEF TokInv
<1>1. CASE UNCHANGED vars
  <2>1. /\ Body' = Body /\ FieldCount' = FieldCount /\ InDomain' = InDomain
        /\ \A k : Expected(k)' = Expected(k)
      BY <1>1 DEF vars, Body, FieldCount, InDomain, Expected
  <2>2. Values' = Values
      BY <1>1, <2>1 DEF Values, vars
  <2>3. Stored' <=> Stored
      BY <1>1, <2>1, <2>2 DEF Stored, vars
  <2>4. Stopped' <=> Stopped
      BY <1>1, <2>1 DEF Stopped, vars
  <2>5. AtField(Body, p, rest)' <=> AtField(Body, p, rest)
      BY <1>1, <2>1 DEF vars
  <2> QED BY <1>1, <2>1, <2>3, <2>4, <2>5 DEF vars
<1>2. ASSUME Next PROVE TokInv'
  <2>1. in_line' = in_line /\ fmt' = fmt
      BY <1>2 DEF Next, Finish, Missing, Convert
  <2>2. /\ Body' = Body /\ FieldCount' = FieldCount
        /\ \A k : Expected(k)' = Expected(k)
      BY <2>1 DEF Body, FieldCount, Expected
  <2>3. InDomain' <=> InDomain
      BY <2>1, <2>2 DEF InDomain
  <2>4. HasColon(in_line)
      BY <1>2 DEF Next, Finish, Missing, Convert, More
  <2>5. p \in 1..(Len(fmt) + 1) /\ Len(fmt) \in Nat
      BY BodyType
  <2>6. CASE Finish
    <3>1. /\ p' = p /\ out' = out /\ rest' = rest /\ ~scanning' /\ scanning
          /\ rest = <<>> \/ p > Len(fmt)
        BY <2>6 DEF Finish
    <3>2. ASSUME InDomain PROVE Stored' /\ p' - 1 <= FieldCount' /\ Stopped'
      <4>1. Values' = Values
          BY <2>1, <2>2 DEF Values
      <4>2. Stored'
          BY <2>2, <3>1, <3>2, <4>1 DEF Stored
      <4>3. Stopped
        <5>1. CASE p > Len(fmt)
          <6>1. p - 1 = Len(fmt)
              BY <2>5, <5>1
          <6> QED BY <6>1 DEF Stopped
        <5>2. CASE rest = <<>>
          <6>1. Body \in Seq(Chars)
              BY <2>4, BodyType
          <6>2. FieldCount \in Nat
              BY <6>1, CountIsNat DEF FieldCount
          <6>3. \A i \in Fields(Body) : i \in 1..Len(Body)
              BY DEF Fields
          <6>4. \A i \in Fields(Body) : Left(Body, i) # <<>>
              BY <6>1, <6>3, LeftHead
          <6>5. p = FieldCount + 1
              BY <3>1, <3>2, <5>2, <6>4 DEF AtField, FieldCount
          <6>6. p - 1 = FieldCount
              BY <6>2, <6>5
          <6> QED BY <6>6 DEF Stopped
        <5> QED BY <3>1, <5>1, <5>2
      <4>4. Stopped' <=> Stopped
          BY <2>1, <2>2, <3>1 DEF Stopped
      <4>5. p' - 1 <= FieldCount'
          BY <2>2, <3>1, <3>2
      <4> QED BY <4>2, <4>3, <4>4, <4>5
    <3> QED BY <2>1, <2>3, <2>4, <2>5, <3>1, <3>2
  <2>7. CASE Missing
    <3>1. /\ More /\ Dash(rest) /\ rest' = From(rest, 3) /\ p' = p + 1 /\ scanning' = scanning
          /\ out' = Append(out, IF fmt[p] = "d" THEN <<"-", "1">> ELSE <<"unset">>)
        BY <2>7 DEF Missing
    <3>2. p' \in 1..(Len(fmt) + 1)
      <4>1. p <= Len(fmt)
          BY <3>1 DEF More
      <4> QED BY <2>5, <3>1, <4>1
    <3>3. ASSUME InDomain
          PROVE  Stored' /\ p' - 1 <= FieldCount' /\ AtField(Body', p', rest')
      <4>1. PICK i, w : Meets(i, w)
          BY <3>1, <3>3, AtItsField
      <4>2. IsMissing(Body, i) /\ rest' = w
          BY <3>1, <4>1 DEF Meets, Scans
      <4>3. out' = Append(out, Expected(p)) /\ p <= FieldCount
          BY <3>1, <4>1, <4>2 DEF Meets, Value
      <4>4. Stored' /\ p' - 1 <= FieldCount'
          BY <2>1, <3>1, <3>3, <4>3, StepsOn
      <4>5. AtField(Body, p + 1, w)
          BY <4>1 DEF Meets
      <4> QED BY <2>2, <3>1, <4>2, <4>4, <4>5
    <3>4. scanning'
        BY <3>1 DEF More
    <3> QED BY <2>1, <2>3, <2>4, <3>2, <3>3, <3>4
  <2>8. CASE Convert
    <3> DEFINE t == nextTok(rest)
               NoNumber == fmt[p] = "d" /\ Numeral(t.tok) = <<>>
    <3>1. More /\ ~Dash(rest) /\ rest' = t.rest
        BY <2>8 DEF Convert
    <3>2. NoNumber => ~scanning' /\ out' = out /\ p' = p
        BY <2>8 DEF Convert
    <3>3. ~NoNumber => /\ out' = Append(out, IF fmt[p] = "d" THEN Numeral(t.tok) ELSE t.tok)
                       /\ p' = p + 1 /\ scanning' = scanning
        BY <2>8 DEF Convert
    <3>4. p <= Len(fmt) /\ scanning
        BY <3>1 DEF More
    <3>5. p' \in 1..(Len(fmt) + 1)
      <4>1. p' = p \/ p' = p + 1
          BY <3>2, <3>3
      <4> QED BY <2>5, <3>4, <4>1
    <3>6. ASSUME InDomain
          PROVE  /\ Stored' /\ p' - 1 <= FieldCount'
                 /\ scanning' => AtField(Body', p', rest')
                 /\ ~scanning' => Stopped'
      <4>1. PICK i, w : Meets(i, w)
          BY <3>1, <3>6, AtItsField
      <4>2. t.tok = Text(Body, i) /\ t.rest = w /\ ~IsMissing(Body, i)
          BY <3>1, <4>1 DEF Meets, Scans
      <4>3. p <= FieldCount /\ AtField(Body, p + 1, w)
          BY <4>1 DEF Meets
      <4>4. Expected(p) = IF fmt[p] = "d" THEN Numeral(t.tok) ELSE t.tok
          BY <4>1, <4>2 DEF Meets, Value
      <4>5. CASE NoNumber
        <5>1. Values' = Values
            BY <2>1, <2>2 DEF Values
        <5>2. Stored'
            BY <2>2, <3>2, <3>6, <4>5, <5>1 DEF Stored
        <5>3. Stopped
            BY <4>3, <4>4, <4>5 DEF Stopped
        <5>4. Stopped' <=> Stopped
            BY <2>1, <2>2, <3>2, <4>5 DEF Stopped
        <5>5. p' - 1 <= FieldCount'
            BY <2>2, <3>2, <3>6, <4>5
        <5> QED BY <3>2, <4>5, <5>2, <5>3, <5>4, <5>5
      <4>6. CASE ~NoNumber
        <5>1. out' = Append(out, Expected(p)) /\ p' = p + 1 /\ scanning' = scanning
            BY <3>3, <4>4, <4>6
        <5> HIDE DEF NoNumber
        <5>2. Stored' /\ p' - 1 <= FieldCount'
            BY <2>1, <3>1, <3>6, <4>3, <5>1, StepsOn
        <5>3. AtField(Body', p', rest')
            BY <2>2, <3>1, <4>2, <4>3, <5>1
        <5> QED BY <3>4, <5>1, <5>2, <5>3
      <4> QED BY <4>5, <4>6
    <3> QED BY <2>1, <2>3, <2>4, <3>5, <3>6
  <2> QED BY <1>2, <2>6, <2>7, <2>8 DEF Next
<1> QED BY <1>1, <1>2

THEOREM TokInvHolds == Spec => []TokInv
BY InitTokInv, NextTokInv, PTL DEF Spec

\* Each conversion stores the value of its own field: the fields are those between
\* the commas outside of quotes, the empty ones left out (at_tok_scanf over
\* at_tok_nextint, at_tok_nextstr and nextTok).  This is of the lines that fit in
\* removeConsecutiveCommas' 256 bytes (ScanAssumption).
THEOREM StoresItsFields == Spec => []StoresFields
<1>1. TokInv => StoresFields
  <2> SUFFICES ASSUME TokInv, InDomain PROVE Len(out) <= FieldCount /\ \A k \in 1..Len(out) : out[k] = Expected(k)
      BY DEF StoresFields
  <2> QED BY DEF TokInv, Stored
<1> QED BY <1>1, TokInvHolds, PTL

\* A scan stops at the end of the format or of the line, or at a field that is not
\* the number it should be, and without a colon before the first field, for lines
\* of less than 256 characters.
THEOREM CountsItsFields == Spec => []CountsFields
<1>1. TokInv => CountsFields
  <2> SUFFICES ASSUME TokInv, ~scanning PROVE CountsFields
      BY DEF CountsFields
  <2>1. CASE ~HasColon(in_line)
      BY <2>1 DEF TokInv, CountsFields
  <2>2. CASE HasColon(in_line) /\ InDomain
    <3>1. Stored /\ p - 1 <= FieldCount /\ Stopped
        BY <2>2 DEF TokInv
    <3>2. Len(out) = p - 1 /\ p \in 1..(Len(fmt) + 1)
        BY <3>1 DEF TokInv, Stored
    <3>3. Len(fmt) \in Nat /\ FieldCount \in Nat
        BY <2>2, BodyType, CountIsNat DEF FieldCount
    <3> DEFINE n == Len(fmt)
               m == FieldCount
               o == Len(out)
    <3>4. n \in Nat /\ m \in Nat /\ p \in 1..(n + 1) /\ o = p - 1 /\ p - 1 <= m
        BY <3>1, <3>2, <3>3
    <3>5. (p - 1 = n \/ p - 1 = m) \/ (p <= m /\ fmt[p] = "d" /\ Expected(p) = <<>>)
        BY <3>1 DEF Stopped
    <3>6. (n <= m => Min({n, m}) = n) /\ (m <= n => Min({n, m}) = m)
      <4> DEFINE T == {n, m}
      <4>1. T \subseteq Int /\ n \in T /\ m \in T /\ (n <= m => \A y \in T : n <= y)
            /\ (m <= n => \A y \in T : m <= y)
          BY <3>4
      <4> HIDE DEF T, n, m
      <4>2. (n <= m => Min(T) = n) /\ (m <= n => Min(T) = m)
          BY <4>1, MinIs
      <4> QED BY <4>2 DEF T
    <3> HIDE DEF n, m, o
    <3>7. CASE p - 1 = n \/ p - 1 = m
      <4>1. (p - 1 = n => n <= m) /\ (p - 1 = m => m <= n)
          BY <3>4
      <4>2. o = Min({n, m})
          BY <3>4, <3>6, <3>7, <4>1
      <4> QED BY <2>2, <4>2 DEF CountsFields, n, m, o
    <3>8. CASE p <= m /\ fmt[p] = "d" /\ Expected(p) = <<>>
      <4>1. o < m /\ o + 1 = p
        <5>1. p <= m
            BY <3>8
        <5> QED BY <3>4, <5>1
      <4>2. fmt[o + 1] = "d" /\ Expected(o + 1) = <<>>
          BY <3>8, <4>1
      <4> QED BY <2>2, <4>1, <4>2 DEF CountsFields, m, o
    <3> QED BY <3>5, <3>7, <3>8
  <2>3. CASE HasColon(in_line) /\ ~InDomain
      BY <2>3 DEF CountsFields
  <2> QED BY <2>1, <2>2, <2>3
<1> QED BY <1>1, TokInvHolds, PTL
===============================================================================
