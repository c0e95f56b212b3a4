---------------------------- MODULE IndexLemmas ----------------------------
(***************************************************************************)
(* The highest of some indices, as it is looked for by loops that take the *)
(* last entry of a list: it exists.                                        *)
(***************************************************************************)
EXTENDS Integers, SequencesExt, FiniteSetsExt, FiniteSetTheorems, WellFoundedInduction, TLAPS

\* Of some indices up to n one is the highest.  The stretches from each of them up to n are
\* finite sets, and there is a smallest one of these.
LEMMA HighestIndex ==
  ASSUME NEW n \in Nat, NEW S \in SUBSET (1 .. n), S # {}
  PROVE  Max(S) \in S /\ \A i \in S : i <= Max(S)
<1> DEFINE T == {i .. n : i \in S}
           R == StrictSubsetOrdering(1 .. n)
<1>1. T \subseteq FiniteSubsetsOf(1 .. n) /\ T # {}
  <2>1. \A i \in S : i .. n \in SUBSET (1 .. n)
    OBVIOUS
  <2>2. \A i \in S : IsFiniteSet(i .. n)
    BY FS_Interval
  <2> QED
    BY <2>1, <2>2 DEF FiniteSubsetsOf
<1>2. IsWellFoundedOn(R, FiniteSubsetsOf(1 .. n))
  BY FS_StrictSubsetOrderingWellFounded
<1>3. \E x \in T : \A y \in T : <<y, x>> \notin R
  <2> HIDE DEF T, R
  <2> QED
    BY <1>1, <1>2, WFMin
<1>4. PICK h \in S : \A y \in T : <<y, h .. n>> \notin R
  BY <1>3
<1>5. ASSUME NEW i \in S, ~(i <= h)
      PROVE  FALSE
  <2>1. i .. n \in SUBSET (1 .. n) /\ h .. n \in SUBSET (1 .. n)
    OBVIOUS
  <2>2. i .. n \subseteq h .. n /\ i .. n # h .. n
    <3>1. h \in h .. n /\ h \notin i .. n
      BY <1>5
    <3> QED
      BY <1>5, <3>1
  <2>3. <<i .. n, h .. n>> \in R
    BY <2>1, <2>2 DEF StrictSubsetOrdering
  <2> QED
    BY <1>4, <2>3
<1>6. \E x \in S : \A y \in S : x >= y
  BY <1>5
<1> QED
  BY <1>6 DEF Max

\* Of some offsets up to n one is the lowest: of the stretches up to each there is a smallest.
LEMMA LowestOffset ==
  ASSUME NEW n \in Nat, NEW S \in SUBSET (0 .. n), S # {}
  PROVE  Min(S) \in S /\ \A i \in S : Min(S) <= i
<1> DEFINE T == {0 .. i : i \in S}
           R == StrictSubsetOrdering(0 .. n)
<1>1. T \subseteq FiniteSubsetsOf(0 .. n) /\ T # {}
  <2>1. \A i \in S : 0 .. i \in SUBSET (0 .. n)
    OBVIOUS
  <2>2. \A i \in S : IsFiniteSet(0 .. i)
    BY FS_Interval
  <2> QED
    BY <2>1, <2>2 DEF FiniteSubsetsOf
<1>2. IsWellFoundedOn(R, FiniteSubsetsOf(0 .. n))
  BY FS_StrictSubsetOrderingWellFounded
<1>3. \E x \in T : \A y \in T : <<y, x>> \notin R
  <2> HIDE DEF T, R
  <2> QED
    BY <1>1, <1>2, WFMin
<1>4. PICK l \in S : \A y \in T : <<y, 0 .. l>> \notin R
  BY <1>3
<1>5. ASSUME NEW i \in S, ~(l <= i)
      PROVE  FALSE
  <2>1. 0 .. i \in SUBSET (0 .. n) /\ 0 .. l \in SUBSET (0 .. n)
    OBVIOUS
  <2>2. 0 .. i \subseteq 0 .. l /\ 0 .. i # 0 .. l
    <3>1. l \in 0 .. l /\ l \notin 0 .. i
      BY <1>5
    <3> QED
      BY <1>5, <3>1
  <2>3. <<0 .. i, 0 .. l>> \in R
    BY <2>1, <2>2 DEF StrictSubsetOrdering
  <2> QED
    BY <1>4, <2>3
<1>6. \E x \in S : \A y \in S : x <= y
  BY <1>5
<1> QED
  BY <1>6 DEF Min

-----------------------------------------------------------------------------
(* Induction up to a number, and folds.                                    *)

\* Induction: of the numbers that are not in the set there would be a lowest one.
LEMMA UpTo ==
  ASSUME NEW n \in Nat, NEW S, 0 \in S, \A m \in S : m \in 0 .. n /\ m < n => m + 1 \in S
  PROVE  0 .. n \subseteq S
<1> DEFINE T == {m \in 0 .. n : m \notin S}
<1>1. ASSUME T # {}
      PROVE  FALSE
  <2>1. Min(T) \in T /\ \A m \in T : Min(T) <= m
    <3>1. T \in SUBSET (0 .. n)
      OBVIOUS
    <3> HIDE DEF T
    <3> QED
      BY <1>1, <3>1, LowestOffset
  <2> DEFINE l == Min(T)
  <2>2. l \in 0 .. n /\ l \notin S /\ \A m \in T : l <= m
    BY <2>1
  <2> HIDE DEF l
  <2>3. l - 1 \in 0 .. n /\ l - 1 < n /\ l = (l - 1) + 1 /\ ~(l <= l - 1)
    BY <2>2
  <2>4. l - 1 \in S
    BY <2>2, <2>3
  <2> QED
    BY <2>2, <2>3, <2>4
<1> QED
  BY <1>1

LEMMA HighestOf ==
  ASSUME NEW n \in Nat, NEW s \in SUBSET (1 .. n), n \in s
  PROVE  Max(s) = n
<1>1. Max(s) \in s /\ n <= Max(s)
  BY HighestIndex
<1> DEFINE m == Max(s)
<1>2. m \in 1 .. n /\ n <= m
  BY <1>1
<1> HIDE DEF m
<1>3. m = n
  BY <1>2
<1> QED
  BY <1>3 DEF m

\* What a fold from the left takes from base, when act[i] is what element i does.
Folds(n, Q, base, act, g) ==
  /\ g \in [SUBSET (1 .. n) -> Q]
  /\ \A s \in SUBSET (1 .. n) : g[s] = IF s = {} THEN base ELSE act[Max(s)][g[s \ {Max(s)}]]

\* A function as the library's folds choose it exists.
LEMMA FoldThere ==
  ASSUME NEW n \in Nat, NEW Q, NEW base \in Q, NEW act \in [1 .. n -> [Q -> Q]]
  PROVE  \E g : Folds(n, Q, base, act, g)
<1> DEFINE S == {m \in 0 .. n : \E g : Folds(m, Q, base, act, g)}
<1>1. 0 \in S
  <2> DEFINE g == [s \in SUBSET (1 .. 0) |-> base]
  <2>1. SUBSET (1 .. 0) = {{}}
    OBVIOUS
  <2>2. Folds(0, Q, base, act, g)
    BY <2>1 DEF Folds
  <2>3. 0 \in 0 .. n
    OBVIOUS
  <2> HIDE DEF g
  <2> QED
    BY <2>2, <2>3
<1>2. ASSUME NEW m \in S, m \in 0 .. n /\ m < n
      PROVE  m + 1 \in S
  <2>1. PICK g : Folds(m, Q, base, act, g)
    OBVIOUS
  <2> DEFINE l == m + 1
             h == [s \in SUBSET (1 .. l) |-> IF l \in s THEN act[l][g[s \ {l}]] ELSE g[s]]
  <2>2. l \in 1 .. n /\ l \in Nat /\ m \in Nat /\ l \notin 1 .. m /\ l \in 0 .. n
        /\ \A i \in 1 .. l : i = l \/ i \in 1 .. m
    BY <1>2
  <2>3. 1 .. m \subseteq 1 .. l
    BY <2>2
  <2> HIDE DEF l
  <2>4. /\ \A s \in SUBSET (1 .. m) : g[s] \in Q
        /\ \A s \in SUBSET (1 .. m) : g[s] = IF s = {} THEN base ELSE act[Max(s)][g[s \ {Max(s)}]]
    BY <2>1 DEF Folds
  <2>5. \A s \in SUBSET (1 .. l) : s \ {l} \in SUBSET (1 .. m) /\ (l \notin s => s \in SUBSET (1 .. m))
    BY <2>2
  <2>6. /\ \A s \in SUBSET (1 .. l) : l \in s => h[s] = act[l][g[s \ {l}]]
        /\ \A s \in SUBSET (1 .. l) : l \notin s => h[s] = g[s]
        /\ h = [s \in SUBSET (1 .. l) |-> h[s]]
    OBVIOUS
  <2> HIDE DEF h
  <2>7. ASSUME NEW s \in SUBSET (1 .. l)
        PROVE  h[s] \in Q /\ h[s] = IF s = {} THEN base ELSE act[Max(s)][h[s \ {Max(s)}]]
    <3>1. CASE l \in s
      <4> DEFINE r == s \ {l}
      <4>1. Max(s) = l
        BY <2>2, <3>1, HighestOf
      <4>2. r \in SUBSET (1 .. m) /\ r \in SUBSET (1 .. l) /\ l \notin r
        BY <2>3, <2>5
      <4>3. h[r] = g[r] /\ g[r] \in Q
        BY <2>4, <2>6, <4>2
      <4>4. h[s] = act[l][g[r]] /\ s # {}
        BY <2>6, <3>1
      <4> HIDE DEF r
      <4>5. h[s] \in Q /\ h[s] = act[l][h[r]]
        BY <2>2, <4>3, <4>4
      <4> QED
        BY <4>1, <4>4, <4>5 DEF r
    <3>2. CASE l \notin s
      <4>1. s \in SUBSET (1 .. m) /\ h[s] = g[s]
        BY <2>5, <2>6, <3>2
      <4> DEFINE r == s \ {Max(s)}
      <4>2. r \in SUBSET (1 .. m) /\ r \in SUBSET (1 .. l) /\ l \notin r
        BY <2>3, <3>2, <4>1
      <4>3. h[r] = g[r]
        BY <2>6, <4>2
      <4>4. g[s] \in Q /\ g[s] = IF s = {} THEN base ELSE act[Max(s)][g[r]]
        BY <2>4, <4>1
      <4> HIDE DEF r
      <4>5. g[s] = IF s = {} THEN base ELSE act[Max(s)][h[r]]
        BY <4>3, <4>4
      <4> QED
        BY <4>1, <4>4, <4>5 DEF r
    <3> QED
      BY <3>1, <3>2
  <2>8. h \in [SUBSET (1 .. l) -> Q]
    BY <2>6, <2>7
  <2>9. Folds(l, Q, base, act, h)
    BY <2>7, <2>8 DEF Folds
  <2> QED
    BY <2>2, <2>9 DEF l
<1> HIDE DEF S
<1>3. 0 .. n \subseteq S
  BY <1>1, <1>2, UpTo
<1>4. n \in S
  BY <1>3
<1> QED
  BY <1>4 DEF S

\* The stretches of indices that a fold takes one behind the other
LEMMA Stretches ==
  ASSUME NEW n \in Nat, NEW k \in 1 .. n
  PROVE  /\ 1 .. k \in SUBSET (1 .. n) /\ 1 .. k # {} /\ Max(1 .. k) = k
         /\ (1 .. k) \ {k} = 1 .. k - 1
<1>1. k \in Nat /\ 1 .. k \in SUBSET (1 .. n) /\ k \in 1 .. k /\ (1 .. k) \ {k} = 1 .. k - 1
  OBVIOUS
<1>2. 1 .. k \in SUBSET (1 .. k)
  OBVIOUS
<1>3. Max(1 .. k) = k
  BY <1>1, <1>2, HighestOf
<1> QED
  BY <1>1, <1>3

\* What holds before the first stretch and from each to the next holds of the last; it may
\* depend on how far the stretch goes.
LEMMA AlongStretches ==
  ASSUME NEW n \in Nat, NEW I, NEW f, f[{}] \in I[0],
         \A k \in 1 .. n : f[1 .. k - 1] \in I[k - 1] => f[1 .. k] \in I[k]
  PROVE  f[1 .. n] \in I[n]
<1> DEFINE S == {m \in 0 .. n : f[1 .. m] \in I[m]}
<1>1. 0 \in S
  <2>1. 0 \in 0 .. n /\ 1 .. 0 = {}
    OBVIOUS
  <2> QED
    BY <2>1
<1>2. ASSUME NEW m \in S, m \in 0 .. n /\ m < n
      PROVE  m + 1 \in S
  <2> DEFINE k == m + 1
  <2>1. k \in 1 .. n /\ k - 1 = m /\ k \in 0 .. n
    BY <1>2
  <2>2. f[1 .. m] \in I[m]
    OBVIOUS
  <2> HIDE DEF k
  <2>3. f[1 .. k] \in I[k]
    BY <2>1, <2>2
  <2> QED
    BY <2>1, <2>3 DEF k
<1> HIDE DEF S
<1>3. 0 .. n \subseteq S
  BY <1>1, <1>2, UpTo
<1>4. n \in S
  BY <1>3
<1> QED
  BY <1>4 DEF S

\* What holds all the way
LEMMA KeptAlong ==
  ASSUME NEW n \in Nat, NEW Q, NEW f, f[{}] \in Q,
         \A k \in 1 .. n : f[1 .. k - 1] \in Q => f[1 .. k] \in Q
  PROVE  f[1 .. n] \in Q
<1> DEFINE I == [k \in 0 .. n |-> Q]
<1>1. \A k \in 0 .. n : I[k] = Q
  OBVIOUS
<1>2. 0 \in 0 .. n /\ n \in 0 .. n /\ \A k \in 1 .. n : k \in 0 .. n /\ k - 1 \in 0 .. n
  OBVIOUS
<1> HIDE DEF I
<1>3. f[{}] \in I[0] /\ \A k \in 1 .. n : f[1 .. k - 1] \in I[k - 1] => f[1 .. k] \in I[k]
  BY <1>1, <1>2
<1>4. f[1 .. n] \in I[n]
  BY <1>3, AlongStretches
<1> QED
  BY <1>1, <1>2, <1>4

-----------------------------------------------------------------------------
(* Sequences joined one behind the other.                                  *)

\* The sequences up to each one, joined
Joins(n, S, seqs, f) ==
  /\ \A k \in 1 .. n : f[k] \in Seq(S)
  /\ f[1] = seqs[1]
  /\ \A k \in 2 .. n : f[k] = f[k - 1] \o seqs[k]

LEMMA FlattenJoins ==
  ASSUME NEW S, NEW n \in Nat \ {0}, NEW seqs \in [1 .. n -> Seq(S)]
  PROVE  \E f : Joins(n, S, seqs, f) /\ f[n] = FlattenSeq(seqs)
<1> DEFINE act == [i \in 1 .. n |-> [t \in Seq(S) |-> t \o seqs[i]]]
           Eq(f) == f = [i \in 1 .. Len(seqs) |-> IF i = 1 THEN seqs[i] ELSE f[i - 1] \o seqs[i]]
           h == CHOOSE f : Eq(f)
<1>1. Len(seqs) = n /\ n \in Nat /\ n >= 1
  OBVIOUS
<1>2. FlattenSeq(seqs) = h[n]
  BY <1>1 DEF FlattenSeq
<1>3. \A i \in 1 .. n : seqs[i] \in Seq(S)
  OBVIOUS
<1>4. act \in [1 .. n -> [Seq(S) -> Seq(S)]] /\ << >> \in Seq(S)
  BY <1>3
<1>5. \A i \in 1 .. n : \A t \in Seq(S) : act[i][t] = t \o seqs[i]
  OBVIOUS
<1> HIDE DEF act
<1>6. PICK g : Folds(n, Seq(S), << >>, act, g)
  BY <1>1, <1>4, FoldThere
<1>7. /\ \A s \in SUBSET (1 .. n) : g[s] \in Seq(S)
      /\ \A s \in SUBSET (1 .. n) : g[s] = IF s = {} THEN << >> ELSE act[Max(s)][g[s \ {Max(s)}]]
  BY <1>6 DEF Folds
<1> DEFINE f == [i \in 1 .. n |-> g[1 .. i]]
<1>8. ASSUME NEW k \in 1 .. n
      PROVE  g[1 .. k] = g[1 .. k - 1] \o seqs[k] /\ g[1 .. k - 1] \in Seq(S)
  <2>1. /\ 1 .. k \in SUBSET (1 .. n) /\ 1 .. k # {} /\ Max(1 .. k) = k
        /\ (1 .. k) \ {k} = 1 .. k - 1
    BY <1>1, Stretches
  <2>2. 1 .. k - 1 \in SUBSET (1 .. n)
    BY <1>1
  <2>3. g[1 .. k - 1] \in Seq(S)
    BY <1>7, <2>2
  <2>4. g[1 .. k] = act[k][g[1 .. k - 1]]
    BY <1>7, <2>1
  <2> QED
    BY <1>5, <2>3, <2>4
<1>9. g[1 .. 1] = seqs[1]
  <2>1. 1 \in 1 .. n /\ 1 .. 1 - 1 = {} /\ {} \in SUBSET (1 .. n)
    BY <1>1
  <2>2. g[{}] = << >>
    BY <1>7, <2>1
  <2>3. g[1 .. 1] = << >> \o seqs[1] /\ seqs[1] \in Seq(S)
    BY <1>3, <1>8, <2>1, <2>2
  <2> DEFINE t == seqs[1]
  <2> HIDE DEF t
  <2>4. t \in Seq(S) => << >> \o t = t
    OBVIOUS
  <2> QED
    BY <2>3, <2>4 DEF t
<1>10. Eq(f)
  <2>1. ASSUME NEW i \in 1 .. n
        PROVE  f[i] = IF i = 1 THEN seqs[i] ELSE f[i - 1] \o seqs[i]
    <3>1. CASE i = 1
      BY <1>9, <3>1
    <3>2. CASE i # 1
      <4>1. i - 1 \in 1 .. n
        BY <1>1, <3>2
      <4> QED
        BY <1>8, <3>2, <4>1
    <3> QED
      BY <3>1, <3>2
  <2> QED
    BY <1>1, <2>1
<1>11. Eq(h)
  <2> HIDE DEF Eq
  <2> QED
    BY <1>10
<1>12. h = [i \in 1 .. n |-> IF i = 1 THEN seqs[i] ELSE h[i - 1] \o seqs[i]]
  BY <1>1, <1>11
<1> HIDE DEF h, f
<1>13. h[1] = seqs[1] /\ \A k \in 2 .. n : h[k] = h[k - 1] \o seqs[k]
  <2>1. 1 \in 1 .. n /\ \A k \in 2 .. n : k \in 1 .. n /\ k # 1
    BY <1>1
  <2> QED
    BY <1>12, <2>1
<1> DEFINE R == {m \in 0 .. n : m = 0 \/ h[m] \in Seq(S)}
<1>14. 0 .. n \subseteq R
  <2>1. 0 \in R
    BY <1>1
  <2>2. ASSUME NEW m \in R, m \in 0 .. n /\ m < n
        PROVE  m + 1 \in R
    <3>1. m + 1 \in 0 .. n /\ m + 1 \in 1 .. n
      BY <1>1, <2>2
    <3>2. CASE m = 0
      BY <1>1, <1>3, <1>13, <3>1, <3>2
    <3>3. CASE m # 0
      <4> DEFINE k == m + 1
      <4>1. k \in 2 .. n /\ k - 1 = m /\ k \in 1 .. n
        BY <1>1, <2>2, <3>3
      <4>2. h[m] \in Seq(S)
        BY <3>3
      <4> HIDE DEF k
      <4>3. h[k] = h[m] \o seqs[k] /\ seqs[k] \in Seq(S)
        BY <1>3, <1>13, <4>1
      <4>4. h[k] \in Seq(S)
        BY <4>2, <4>3
      <4> QED
        BY <3>1, <4>4 DEF k
    <3> QED
      BY <3>2, <3>3
  <2> HIDE DEF R
  <2> QED
    BY <1>1, <2>1, <2>2, UpTo
<1>15. \A k \in 1 .. n : h[k] \in Seq(S)
  <2>1. \A k \in 1 .. n : k \in 0 .. n /\ k # 0
    BY <1>1
  <2> QED
    BY <1>14, <2>1
<1> QED
  BY <1>2, <1>13, <1>15 DEF Joins
=============================================================================
