----------------------------- MODULE AacProofs -----------------------------
(***************************************************************************)
(* Theorems about AacInputs: of the stream, type correctness with what is  *)
(* carried over between PES, and that workspace and source stay in step    *)
(* while nothing is lost; of the pure parts, that what a frame is          *)
(* converted into is what the standard asks for, and that the tree of a    *)
(* codebook decodes it.                                                    *)
(***************************************************************************)
EXTENDS AacInputs, IndexLemmas, SequenceTheorems

CellSet == {c \in [of : Frames, at : Nat, gap : BOOLEAN] : c.at \in 1 .. c.of.len}

LEMMA CellIs ==
  ASSUME NEW c \in CellSet
  PROVE  /\ c.of \in Frames /\ c.at \in 1 .. c.of.len /\ c.gap \in BOOLEAN
         /\ c = [of |-> c.of, at |-> c.at, gap |-> c.gap]
         /\ c.of.len \in Nat /\ c.of.len >= HeaderLen /\ FrameLen(c) \in Nat
<1>1. c.of \in [len : Nat, verdict : Verdicts, fake : Nat, fakeLen : Nat] /\ HeaderLen <= c.of.len
  BY StreamAssumption DEF CellSet
<1>2. c.of.len \in Nat /\ c.of.fakeLen \in Nat
  BY <1>1
<1>3. c.of \in Frames /\ c.at \in 1 .. c.of.len /\ c.gap \in BOOLEAN
      /\ c = [of |-> c.of, at |-> c.at, gap |-> c.gap]
  BY DEF CellSet
<1>4. HeaderLen \in Nat
  BY StreamAssumption
<1> QED
  BY <1>1, <1>2, <1>3, <1>4 DEF FrameLen

-----------------------------------------------------------------------------
(* Sequences, and induction up to a number.                                *)

LEMMA PieceIs ==
  ASSUME NEW S, NEW s \in Seq(S), NEW a \in Nat, a <= Len(s), NEW b \in Nat, b <= Len(s), a <= b
  PROVE  /\ SubSeq(s, a + 1, b) \in Seq(S) /\ Len(SubSeq(s, a + 1, b)) = b - a
         /\ \A i \in 1 .. b - a : SubSeq(s, a + 1, b)[i] = s[a + i]
OBVIOUS

Joined(S, s, t) ==
  /\ s \o t \in Seq(S) /\ Len(s \o t) = Len(s) + Len(t)
  /\ \A i \in 1 .. Len(s) : (s \o t)[i] = s[i]
  /\ \A i \in 1 .. Len(t) : (s \o t)[Len(s) + i] = t[i]

LEMMA JoinedIs ==
  ASSUME NEW S, NEW s \in Seq(S), NEW t \in Seq(S)
  PROVE  Joined(S, s, t)
BY DEF Joined

LEMMA SameSequence ==
  ASSUME NEW S, NEW s \in Seq(S), NEW t \in Seq(S), Len(s) = Len(t),
         \A i \in 1 .. Len(s) : s[i] = t[i]
  PROVE  s = t
OBVIOUS

\* n steps from w on, within Q.
Course(Q, w, step, n) ==
  \E f \in [0 .. n -> Q] : f[0] = w /\ \A k \in 1 .. n : f[k] = step[f[k - 1]]

\* A function may be iterated.
LEMMA Iterated ==
  ASSUME NEW Q, NEW w \in Q, NEW step \in [Q -> Q], NEW n \in Nat
  PROVE  Course(Q, w, step, n)
<1> DEFINE Steps(m, f) == f \in [0 .. m -> Q] /\ f[0] = w /\ \A k \in 1 .. m : f[k] = step[f[k - 1]]
           S == {m \in 0 .. n : \E f : Steps(m, f)}
<1>1. 0 \in S
  <2> DEFINE f == [k \in 0 .. 0 |-> w]
  <2>1. Steps(0, f)
    OBVIOUS
  <2> HIDE DEF f, Steps
  <2>2. \E g : Steps(0, g)
    BY <2>1
  <2> QED
    BY <2>2
<1>2. ASSUME NEW m \in S, m < n
      PROVE  m + 1 \in S
  <2>1. PICK f : Steps(m, f)
    OBVIOUS
  <2> DEFINE g == [k \in 0 .. m + 1 |-> IF k = m + 1 THEN step[f[m]] ELSE f[k]]
  <2>2. m \in Nat /\ f[m] \in Q
    BY <2>1
  <2>3. g \in [0 .. m + 1 -> Q] /\ g[m + 1] = step[f[m]] /\ \A k \in 0 .. m : g[k] = f[k]
    BY <2>1, <2>2
  <2> HIDE DEF g
  <2>4. ASSUME NEW k \in 1 .. m + 1
        PROVE  g[k] = step[g[k - 1]]
    <3>1. k - 1 \in 0 .. m /\ g[k - 1] = f[k - 1]
      BY <2>2, <2>3
    <3>2. CASE k = m + 1
      BY <2>2, <2>3, <3>1, <3>2
    <3>3. CASE k # m + 1
      <4>1. k \in 1 .. m /\ k \in 0 .. m
        BY <2>2, <3>3
      <4> QED
        BY <2>1, <2>3, <3>1, <4>1
    <3> QED
      BY <3>2, <3>3
  <2>5. g[0] = w
    BY <2>1, <2>2, <2>3
  <2>6. Steps(m + 1, g)
    BY <2>3, <2>4, <2>5
  <2>7. m + 1 \in 0 .. n
    BY <1>2, <2>2
  <2> QED
    BY <2>6, <2>7
<1> HIDE DEF S
<1>3. 0 .. n \subseteq S
  BY <1>1, <1>2, UpTo
<1>4. n \in S
  BY <1>3
<1> QED
  BY <1>4 DEF S, Course

-----------------------------------------------------------------------------
(* The front of the workspace.                                             *)

\* A whole frame is no shorter than a header, and no longer than what there is.
LEMMA WholeIs ==
  ASSUME NEW w \in Seq(CellSet), Whole(w)
  PROVE  /\ FrameLen(w[2]) \in Nat /\ HeaderLen <= FrameLen(w[2]) /\ FrameLen(w[2]) <= Len(w)
         /\ Behind(w) \in Seq(CellSet) /\ Len(Behind(w)) = Len(w) - FrameLen(w[2])
         /\ FirstFrame(w) \in Seq(CellSet) /\ Len(FirstFrame(w)) = FrameLen(w[2])
         /\ \A i \in 1 .. FrameLen(w[2]) : FirstFrame(w)[i] = w[i]
         /\ \A i \in 1 .. Len(w) - FrameLen(w[2]) : Behind(w)[i] = w[FrameLen(w[2]) + i]
<1> DEFINE n == FrameLen(w[2])
<1>1. HeaderLen \in Nat /\ HeaderLen >= 2 /\ Len(w) \in Nat
  BY StreamAssumption
<1>2. Len(w) >= HeaderLen /\ n <= Len(w) /\ ~NoFrame(w)
  BY DEF Whole
<1>3. w[2] \in CellSet
  <2>1. 2 \in 1 .. Len(w)
    BY <1>1, <1>2
  <2> HIDE DEF CellSet
  <2> QED
    BY <2>1
<1>4. n \in Nat
  BY <1>3, CellIs
<1>5. HeaderLen <= n
  BY <1>1, <1>2, <1>4 DEF NoFrame
<1> HIDE DEF CellSet, n
<1>6. /\ SubSeq(w, n + 1, Len(w)) \in Seq(CellSet) /\ Len(SubSeq(w, n + 1, Len(w))) = Len(w) - n
      /\ \A i \in 1 .. Len(w) - n : SubSeq(w, n + 1, Len(w))[i] = w[n + i]
  BY <1>1, <1>2, <1>4, PieceIs
<1>7. /\ SubSeq(w, 1, n) \in Seq(CellSet) /\ Len(SubSeq(w, 1, n)) = n
      /\ \A i \in 1 .. n : SubSeq(w, 1, n)[i] = w[i]
  <2>1. 0 \in Nat /\ 0 <= Len(w) /\ 0 <= n /\ n - 0 = n /\ 0 + 1 = 1 /\ \A i \in 1 .. n : 0 + i = i
    BY <1>1, <1>4
  <2>2. /\ SubSeq(w, 0 + 1, n) \in Seq(CellSet) /\ Len(SubSeq(w, 0 + 1, n)) = n - 0
        /\ \A i \in 1 .. n - 0 : SubSeq(w, 0 + 1, n)[i] = w[0 + i]
    BY <1>1, <1>2, <1>4, <2>1, PieceIs
  <2> QED
    BY <2>1, <2>2
<1> QED
  BY <1>2, <1>4, <1>5, <1>6, <1>7 DEF Behind, FirstFrame, n

\* Whole frames are skipped one by one, and what is left behind the last of them is carried
\* over; it is among whatever is not left by skipping one.
LEMMA CarriedIs ==
  ASSUME NEW P \in SUBSET Seq(CellSet), NEW w \in P, \A v \in P : Skipped(v) \in P
  PROVE  \E v \in P : ~Whole(v) /\ Carried(w) = IF NoFrame(v) THEN << >> ELSE v
<1> DEFINE step == [v \in P |-> Skipped(v)]
           after[n \in 0 .. Len(w)] == IF n = 0 THEN w ELSE Skipped(after[n - 1])
           Seen(f) == [n \in 0 .. Len(w) |-> IF n = 0 THEN w ELSE Skipped(f[n - 1])]
           last == Len(w) \div HeaderLen
<1>1. w \in Seq(CellSet) /\ Len(w) \in Nat
  BY DEF CellSet
<1>2. after = Seen(after)
  <2>1. step \in [P -> P] /\ w \in P /\ \A v \in P : step[v] = Skipped(v)
    OBVIOUS
  <2> HIDE DEF step, after
  <2>2. PICK f \in [0 .. Len(w) -> P] : f[0] = w /\ \A k \in 1 .. Len(w) : f[k] = step[f[k - 1]]
    <3>1. Course(P, w, step, Len(w))
      BY <1>1, <2>1, Iterated
    <3> QED
      BY <3>1 DEF Course
  <2>3. ASSUME NEW k \in 0 .. Len(w)
        PROVE  f[k] = IF k = 0 THEN w ELSE Skipped(f[k - 1])
    <3>1. CASE k = 0
      BY <2>2, <3>1
    <3>2. CASE k # 0
      <4>1. k \in 1 .. Len(w) /\ k - 1 \in 0 .. Len(w)
        BY <1>1, <3>2
      <4>2. f[k - 1] \in P
        BY <4>1
      <4> QED
        BY <2>1, <2>2, <3>2, <4>1, <4>2
    <3> QED
      BY <3>1, <3>2
  <2>4. f = Seen(f)
    BY <2>3
  <2> HIDE DEF Seen
  <2>5. (CHOOSE g : g = Seen(g)) = Seen(CHOOSE g : g = Seen(g))
    BY <2>4
  <2> QED
    BY <2>5 DEF Seen, after
<1>3. Carried(w) = IF NoFrame(after[last]) THEN << >> ELSE after[last]
  BY DEF Carried
<1> HIDE DEF after
<1>4. /\ after[0] = w
      /\ \A n \in 0 .. Len(w) : n < Len(w) => after[n + 1] = Skipped(after[n])
  <2>1. after[0] = w
    BY <1>1, <1>2
  <2>2. ASSUME NEW n \in 0 .. Len(w), n < Len(w)
        PROVE  after[n + 1] = Skipped(after[n])
    <3>1. n + 1 \in 0 .. Len(w) /\ n + 1 # 0 /\ (n + 1) - 1 = n
      BY <1>1, <2>2
    <3> QED
      BY <1>2, <3>1
  <2> QED
    BY <2>1, <2>2
<1>5. HeaderLen \in Nat /\ HeaderLen >= 2
  BY StreamAssumption
<1> DEFINE S == {n \in 0 .. Len(w) : /\ after[n] \in P
                                     /\ ~Whole(after[n]) \/ Len(after[n]) + n * HeaderLen <= Len(w)}
<1>6. 0 \in S
  <2>1. 0 * HeaderLen = 0 /\ Len(w) + 0 = Len(w) /\ 0 \in 0 .. Len(w)
    BY <1>1, <1>5
  <2>2. after[0] \in P /\ Len(after[0]) + 0 * HeaderLen <= Len(w)
    BY <1>1, <1>4, <2>1
  <2> QED
    BY <2>1, <2>2
<1>7. ASSUME NEW n \in S, n < Len(w)
      PROVE  n + 1 \in S
  <2> DEFINE v == after[n]
             u == after[n + 1]
  <2>1. /\ v \in P /\ v \in Seq(CellSet) /\ u = Skipped(v) /\ u \in P /\ n \in Nat
        /\ ~Whole(v) \/ Len(v) + n * HeaderLen <= Len(w)
    BY <1>1, <1>4, <1>7
  <2> HIDE DEF v, u
  <2>2. CASE ~Whole(v)
    <3>1. u = v
      BY <2>1, <2>2 DEF Skipped
    <3> QED
      BY <1>1, <1>7, <2>1, <2>2, <3>1 DEF u
  <2>3. CASE Whole(v)
    <3>1. Len(u) = Len(v) - FrameLen(v[2]) /\ FrameLen(v[2]) \in Nat /\ HeaderLen <= FrameLen(v[2])
      BY <2>1, <2>3, WholeIs DEF Skipped
    <3>2. Len(v) + n * HeaderLen <= Len(w)
      BY <2>1, <2>3
    <3>3. (n + 1) * HeaderLen = n * HeaderLen + HeaderLen /\ n * HeaderLen \in Nat
      BY <1>5, <2>1
    <3>4. Len(v) \in Nat
      BY <2>1 DEF CellSet
    <3> DEFINE a == n * HeaderLen
               b == (n + 1) * HeaderLen
               l == FrameLen(v[2])
    <3>5. Len(u) = Len(v) - l /\ l \in Nat /\ HeaderLen <= l /\ Len(v) + a <= Len(w)
          /\ b = a + HeaderLen /\ a \in Nat
      BY <3>1, <3>2, <3>3
    <3> HIDE DEF a, b, l
    <3>6. Len(u) + b <= Len(w)
      BY <1>1, <1>5, <3>4, <3>5
    <3>7. n + 1 \in 0 .. Len(w)
      BY <1>1, <1>7, <2>1
    <3> QED
      BY <2>1, <3>6, <3>7 DEF u, b
  <2> QED
    BY <2>2, <2>3
<1>8. last \in 0 .. Len(w) /\ Len(w) < last * HeaderLen + HeaderLen
  BY <1>1, <1>5
<1> HIDE DEF S, last
<1>9. last \in S
  <2>1. 0 .. Len(w) \subseteq S
    BY <1>1, <1>6, <1>7, UpTo
  <2> QED
    BY <1>8, <2>1
<1>10. ~Whole(after[last])
  <2> DEFINE v == after[last]
             a == last * HeaderLen
  <2>1. v \in P /\ (~Whole(v) \/ Len(v) + a <= Len(w))
    BY <1>9 DEF S
  <2>2. Len(v) \in Nat /\ a \in Nat
    <3>1. v \in Seq(CellSet)
      BY <2>1
    <3> QED
      BY <1>5, <1>8, <3>1 DEF CellSet
  <2>3. Len(w) < a + HeaderLen
    BY <1>8
  <2> HIDE DEF v, a
  <2>4. Len(v) + a <= Len(w) => ~(Len(v) >= HeaderLen)
    BY <1>1, <1>5, <2>2, <2>3
  <2> QED
    BY <2>1, <2>4 DEF Whole, v
<1>11. after[last] \in P
  BY <1>9 DEF S
<1> QED
  BY <1>3, <1>10, <1>11
-----------------------------------------------------------------------------
(* The frames in the cells of a source.                                    *)

StreamOK(s) ==
  /\ s \in Seq(CellSet) /\ s # << >> /\ s[1].at = 1
  /\ \A i \in 1 .. Len(s) - 1 : Follows(s[i], s[i + 1])

\* Behind these a frame begins.
Starts(s) == {0} \cup Ends(s)

LEMMA CellsAre ==
  ASSUME NEW s, StreamOK(s)
  PROVE  /\ Len(s) \in Nat /\ Len(s) >= 1 /\ DOMAIN s = 1 .. Len(s)
         /\ \A i \in 1 .. Len(s) :
              /\ s[i] \in CellSet /\ s[i].of \in Frames /\ s[i].of.len \in Nat
              /\ s[i].at \in 1 .. s[i].of.len /\ s[i].of.len >= HeaderLen
<1>1. s \in Seq(CellSet) /\ s # << >>
  BY DEF StreamOK
<1> HIDE DEF CellSet
<1>2. Len(s) \in Nat /\ DOMAIN s = 1 .. Len(s) /\ Len(s) >= 1 /\ \A i \in 1 .. Len(s) : s[i] \in CellSet
  BY <1>1
<1> QED
  BY <1>2, CellIs

LEMMA StartsAre ==
  ASSUME NEW s, StreamOK(s)
  PROVE  /\ 0 \in Starts(s) /\ Starts(s) \subseteq 0 .. Len(s) /\ Ends(s) \subseteq 1 .. Len(s)
         /\ \A i \in 1 .. Len(s) : s[i].at = s[i].of.len => i \in Starts(s) /\ i \in Ends(s)
         /\ \A i \in Starts(s) : i # 0 => i \in Ends(s) /\ s[i].at = s[i].of.len
         /\ \A i \in Ends(s) : i \in Starts(s)
BY CellsAre DEF Starts, Ends

\* The cell at i is as far behind the start of its frame as its place says.
Placed(s, i) ==
  s[i].at <= i /\ i - s[i].at \in Starts(s) /\ s[(i - s[i].at) + 1].of = s[i].of

LEMMA BehindAStart ==
  ASSUME NEW s, StreamOK(s), NEW i \in 1 .. Len(s)
  PROVE  Placed(s, i)
<1> DEFINE S == {k \in 0 .. Len(s) - 1 : Placed(s, k + 1)}
<1>1. Len(s) \in Nat /\ Len(s) - 1 \in Nat /\ 0 \in Starts(s)
  BY CellsAre, StartsAre
<1>2. 0 \in S
  <2>1. s[1].at = 1
    BY DEF StreamOK
  <2>2. 0 + 1 = 1 /\ 1 - 1 = 0 /\ 0 \in 0 .. Len(s) - 1 /\ 1 <= 1
    BY <1>1
  <2> QED
    BY <1>1, <2>1, <2>2 DEF Placed
<1>3. ASSUME NEW k \in S, k \in 0 .. Len(s) - 1 /\ k < Len(s) - 1
      PROVE  k + 1 \in S
  <2> DEFINE c == s[k + 1]
             d == s[(k + 1) + 1]
  <2>1. k + 1 \in 1 .. Len(s) - 1 /\ k + 1 \in 1 .. Len(s) /\ (k + 1) + 1 \in 1 .. Len(s) /\ k \in Nat
    BY <1>1, <1>3
  <2>2. Follows(c, d)
    BY <2>1 DEF StreamOK
  <2>3. /\ c.at \in Nat /\ c.at <= k + 1 /\ (k + 1) - c.at \in Starts(s) /\ d.at \in Nat
        /\ s[((k + 1) - c.at) + 1].of = c.of
    BY <1>3, <2>1, CellsAre DEF Placed
  <2>4. c.at = c.of.len => k + 1 \in Starts(s)
    BY <2>1, StartsAre
  <2>5. k + 1 \in 0 .. Len(s) - 1
    BY <1>1, <1>3, <2>1
  <2> HIDE DEF c, d
  <2>6. Placed(s, (k + 1) + 1)
    <3>1. ASSUME c.at = c.of.len
          PROVE  Placed(s, (k + 1) + 1)
      <4>1. d.at = 1
        BY <2>2, <3>1 DEF Follows
      <4>2. ((k + 1) + 1) - d.at = k + 1 /\ d.at <= (k + 1) + 1
        BY <2>1, <4>1
      <4> QED
        BY <2>4, <3>1, <4>2 DEF Placed, d
    <3>2. ASSUME ~(c.at = c.of.len)
          PROVE  Placed(s, (k + 1) + 1)
      <4>1. d.at = c.at + 1 /\ d.of = c.of
        BY <2>2, <3>2 DEF Follows
      <4>2. ((k + 1) + 1) - d.at = (k + 1) - c.at /\ d.at <= (k + 1) + 1
        BY <2>1, <2>3, <4>1
      <4> QED
        BY <2>3, <4>1, <4>2 DEF Placed, d
    <3> QED
      BY <3>1, <3>2
  <2> QED
    BY <2>5, <2>6
<1> HIDE DEF S
<1>4. 0 .. Len(s) - 1 \subseteq S
  BY <1>1, <1>2, <1>3, UpTo
<1>5. i - 1 \in 0 .. Len(s) - 1 /\ (i - 1) + 1 = i
  BY <1>1
<1>6. i - 1 \in S
  BY <1>4, <1>5
<1> QED
  BY <1>5, <1>6 DEF S

\* A frame has its cells in their order.
LEMMA FrameAt ==
  ASSUME NEW s, StreamOK(s), NEW p \in Starts(s), p < Len(s), NEW j \in 1 .. s[p + 1].of.len,
         p + j <= Len(s)
  PROVE  s[p + j].of = s[p + 1].of /\ s[p + j].at = j
<1> DEFINE f == s[p + 1].of
           S == {k \in 0 .. j - 1 : s[(p + k) + 1].of = f /\ s[(p + k) + 1].at = k + 1}
<1>1. Len(s) \in Nat /\ p \in 0 .. Len(s) /\ p + 1 \in 1 .. Len(s) /\ f.len \in Nat /\ j \in Nat /\ j >= 1
      /\ j <= f.len /\ j - 1 \in Nat
  <2>1. Len(s) \in Nat /\ p \in 0 .. Len(s)
    BY CellsAre, StartsAre
  <2>2. p + 1 \in 1 .. Len(s)
    BY <2>1
  <2>3. f.len \in Nat
    BY <2>2, CellsAre
  <2> QED
    BY <2>1, <2>2, <2>3
<1>2. s[p + 1].at = 1
  <2>1. CASE p = 0
    BY <2>1 DEF StreamOK
  <2>2. CASE p # 0
    <3>1. p \in 1 .. Len(s) - 1 /\ s[p].at = s[p].of.len
      BY <1>1, <2>2, StartsAre
    <3>2. Follows(s[p], s[p + 1])
      BY <3>1 DEF StreamOK
    <3> QED
      BY <3>1, <3>2 DEF Follows
  <2> QED
    BY <2>1, <2>2
<1>3. 0 \in S
  <2>1. 0 \in 0 .. j - 1 /\ (p + 0) + 1 = p + 1 /\ 0 + 1 = 1
    BY <1>1
  <2> QED
    BY <1>2, <2>1
<1>4. ASSUME NEW k \in S, k \in 0 .. j - 1 /\ k < j - 1
      PROVE  k + 1 \in S
  <2> DEFINE c == s[(p + k) + 1]
             d == s[(p + (k + 1)) + 1]
  <2>1. k \in Nat /\ k + 1 < f.len /\ (p + k) + 1 \in 1 .. Len(s) - 1
        /\ ((p + k) + 1) + 1 = (p + (k + 1)) + 1 /\ k + 1 \in 0 .. j - 1
    BY <1>1, <1>4
  <2>2. Follows(c, d)
    <3>1. Follows(s[(p + k) + 1], s[((p + k) + 1) + 1])
      BY <2>1 DEF StreamOK
    <3> QED
      BY <2>1, <3>1
  <2>3. c.of = f /\ c.at = k + 1
    BY <1>4
  <2> HIDE DEF c, d, f
  <2>4. c.at # c.of.len
    BY <1>1, <2>1, <2>3
  <2>5. d.of = f /\ d.at = (k + 1) + 1
    BY <2>2, <2>3, <2>4 DEF Follows
  <2> QED
    BY <2>1, <2>5 DEF d
<1> HIDE DEF S, f
<1>5. 0 .. j - 1 \subseteq S
  BY <1>1, <1>3, <1>4, UpTo
<1>6. j - 1 \in 0 .. j - 1 /\ (p + (j - 1)) + 1 = p + j /\ (j - 1) + 1 = j
  BY <1>1
<1>7. j - 1 \in S
  BY <1>5, <1>6
<1> QED
  BY <1>6, <1>7 DEF S, f

\* No whole frame begins behind p.
Rest(s, p) == p = Len(s) \/ p + s[p + 1].of.len > Len(s)

\* The frame behind p ends next.
LEMMA NextEnd ==
  ASSUME NEW s, StreamOK(s), NEW p \in Starts(s), p < Len(s), NEW k \in Ends(s), p < k
  PROVE  p + s[p + 1].of.len <= k
<1> DEFINE f == s[p + 1].of
<1>1. Len(s) \in Nat /\ p \in 0 .. Len(s) /\ k \in 1 .. Len(s) /\ p + 1 \in 1 .. Len(s)
  BY CellsAre, StartsAre
<1>2. f.len \in Nat
  BY <1>1, CellsAre
<1>3. s[k].at = s[k].of.len
  BY DEF Ends
<1> HIDE DEF f
<1>4. ASSUME k < p + f.len
      PROVE  FALSE
  <2> DEFINE j == k - p
  <2>1. j \in 1 .. f.len /\ p + j = k /\ j # f.len
    BY <1>1, <1>2, <1>4
  <2> HIDE DEF j
  <2>2. s[p + j].of = f /\ s[p + j].at = j
    BY <1>1, <2>1, FrameAt DEF f
  <2> QED
    BY <1>3, <2>1, <2>2
<1> QED
  BY <1>1, <1>2, <1>4 DEF f

LEMMA WholeEnds ==
  ASSUME NEW s, StreamOK(s), NEW p \in Starts(s), ~Rest(s, p)
  PROVE  /\ p < Len(s) /\ s[p + 1].of.len \in Nat /\ s[p + 1].of.len >= 1 /\ p \in Nat
         /\ p + s[p + 1].of.len \in Ends(s) /\ s[p + s[p + 1].of.len].of = s[p + 1].of
<1> DEFINE f == s[p + 1].of
<1>1. Len(s) \in Nat /\ p \in 0 .. Len(s) /\ p < Len(s) /\ p + 1 \in 1 .. Len(s)
  BY CellsAre, StartsAre DEF Rest
<1>2. f.len \in Nat /\ f.len >= 1
  BY <1>1, CellsAre
<1> HIDE DEF f
<1>3. p + f.len <= Len(s)
  BY <1>1, <1>2 DEF Rest, f
<1>4. f.len \in 1 .. f.len /\ p + f.len \in 1 .. Len(s)
  BY <1>1, <1>2, <1>3
<1>5. s[p + f.len].of = f /\ s[p + f.len].at = f.len
  BY <1>1, <1>3, <1>4, FrameAt DEF f
<1>6. p + f.len \in Ends(s)
  BY <1>4, <1>5, StartsAre
<1> QED
  BY <1>1, <1>2, <1>5, <1>6 DEF f

\* What is left when all the frames that end are gone is the frame begun.
LEMMA UnfinishedIs ==
  ASSUME NEW s, StreamOK(s), NEW p \in Starts(s), Rest(s, p)
  PROVE  Unfinished(s) = SubSeq(s, p + 1, Len(s))
<1> DEFINE n == Len(s)
           c == s[n]
<1>1. n \in Nat /\ n >= 1 /\ p \in 0 .. n /\ n \in 1 .. n /\ c.at \in Nat
  BY CellsAre, StartsAre
<1>2. Last(s) = c
  BY DEF Last
<1> HIDE DEF n, c
<1>3. Unfinished(s) = IF c.at = c.of.len THEN << >> ELSE SubSeq(s, n - c.at + 1, n)
  BY <1>2 DEF Unfinished, n
<1>4. CASE p = n
  <2>1. c.at = c.of.len
    BY <1>1, <1>4, StartsAre DEF c
  <2>2. SubSeq(s, n + 1, n) = << >>
    BY <1>1, CellsAre DEF n, StreamOK
  <2> QED
    BY <1>3, <1>4, <2>1, <2>2 DEF n
<1>5. CASE p # n
  <2> DEFINE f == s[p + 1].of
             j == n - p
  <2>1. p + f.len > n /\ p < n
    BY <1>1, <1>5 DEF Rest, n
  <2>2. p + 1 \in 1 .. n
    BY <1>1, <2>1
  <2>3. f.len \in Nat
    BY <2>2, CellsAre DEF n
  <2> HIDE DEF f
  <2>4. j \in 1 .. f.len /\ p + j = n /\ j # f.len /\ n - j = p
    BY <1>1, <2>1, <2>3
  <2> HIDE DEF j
  <2>5. c.of = f /\ c.at = j
    <3>1. s[p + j].of = f /\ s[p + j].at = j
      BY <1>1, <2>1, <2>4, FrameAt DEF f, n
    <3> QED
      BY <2>4, <3>1 DEF c
  <2> QED
    BY <1>3, <2>4, <2>5 DEF n
<1> QED
  BY <1>4, <1>5

LEMMA RestThere ==
  ASSUME NEW s, StreamOK(s)
  PROVE  \E p \in Starts(s) : Rest(s, p)
<1> DEFINE n == Len(s)
           c == s[n]
           p == n - c.at
<1>1. n \in Nat /\ n >= 1 /\ n \in 1 .. n /\ c.at \in 1 .. c.of.len /\ c.of.len \in Nat
  BY CellsAre
<1>2. p \in Starts(s) /\ s[p + 1].of = c.of
  BY <1>1, BehindAStart DEF Placed
<1> HIDE DEF n
<1>3. CASE c.at = c.of.len
  BY <1>1, <1>3, StartsAre DEF Rest, n
<1>4. CASE c.at # c.of.len
  <2>1. p + c.of.len > n
    BY <1>1, <1>4
  <2> QED
    BY <1>2, <2>1 DEF Rest, n
<1> QED
  BY <1>3, <1>4

\* The cells begun are the first of one frame and not all of it.
LEMMA BegunIs ==
  ASSUME NEW s, StreamOK(s), NEW u, u = Unfinished(s)
  PROVE  /\ u \in Seq(CellSet) /\ (u # << >> => Len(u) < u[1].of.len)
         /\ \A i \in 1 .. Len(u) : u[i].at = i /\ u[i].of = u[1].of
         /\ u # << >> => Len(u) \in 1 .. Len(s) /\ u[Len(u)] = s[Len(s)]
         /\ \A i \in 1 .. Len(u) : \E k \in 1 .. Len(s) : u[i] = s[k]
<1>1. PICK p \in Starts(s) : Rest(s, p)
  BY RestThere
<1>2. Len(s) \in Nat /\ p \in 0 .. Len(s) /\ s \in Seq(CellSet)
  BY CellsAre, StartsAre DEF StreamOK
<1>3. u = SubSeq(s, p + 1, Len(s))
  BY <1>1, UnfinishedIs
<1> DEFINE n == Len(s) - p
<1> HIDE DEF CellSet
<1>4. u \in Seq(CellSet) /\ Len(u) = n /\ \A i \in 1 .. n : u[i] = s[p + i]
  BY <1>2, <1>3, PieceIs
<1>5. n \in Nat /\ p + n = Len(s) /\ \A i \in 1 .. n : p + i \in 1 .. Len(s) /\ p + i <= Len(s)
  BY <1>2
<1>6. CASE n = 0
  BY <1>4, <1>5, <1>6
<1>7. CASE n # 0
  <2> DEFINE f == s[p + 1].of
  <2>1. p < Len(s) /\ p + 1 \in 1 .. Len(s) /\ n >= 1 /\ 1 \in 1 .. n /\ n \in 1 .. n
    <3> DEFINE l == Len(s)
    <3>1. n \in Nat /\ n # 0 /\ p + n = l /\ l \in Nat /\ p \in 0 .. l
      BY <1>2, <1>5, <1>7
    <3> HIDE DEF l, n
    <3>2. p < l /\ p + 1 \in 1 .. l /\ n >= 1 /\ 1 \in 1 .. n /\ n \in 1 .. n
      BY <3>1
    <3> QED
      BY <3>2 DEF l
  <2>2. f.len \in Nat /\ p + f.len > Len(s)
    BY <1>1, <1>2, <2>1, CellsAre DEF Rest
  <2> HIDE DEF f
  <2>3. n < f.len /\ \A i \in 1 .. n : i \in 1 .. f.len
    BY <1>2, <2>2
  <2>4. u[1].of = f
    BY <1>4, <2>1 DEF f
  <2> HIDE DEF n
  <2>5. \A i \in 1 .. n : u[i].at = i /\ u[i].of = f
    BY <1>4, <1>5, <2>1, <2>3, FrameAt DEF f
  <2>6. u[n] = s[Len(s)] /\ n \in 1 .. Len(s)
    <3>1. n <= Len(s)
      BY <1>2, <1>5
    <3> QED
      BY <1>2, <1>4, <1>5, <2>1, <3>1
  <2> QED
    BY <1>4, <1>5, <2>3, <2>4, <2>5, <2>6
<1> QED
  BY <1>6, <1>7

-----------------------------------------------------------------------------
(* The frames that end up to some place, and what has been converted.      *)

EndsUpTo(s, p) == {k \in Ends(s) : k <= p}

\* These are the frames that end up to p, and all of them can be converted.
Done(frames, s, p) ==
  /\ frames \in Seq(Seq(CellSet)) /\ Len(frames) = Cardinality(EndsUpTo(s, p))
  /\ \A i \in EndsUpTo(s, p) :
       s[i].of.verdict = "converted" /\ frames[Cardinality(EndsUpTo(s, i))] = Cells(s[i].of)

LEMMA EndsUpToAre ==
  ASSUME NEW s, StreamOK(s), NEW p
  PROVE  /\ EndsUpTo(s, p) \subseteq 1 .. Len(s) /\ IsFiniteSet(EndsUpTo(s, p))
         /\ Cardinality(EndsUpTo(s, p)) \in Nat
<1>1. EndsUpTo(s, p) \subseteq 1 .. Len(s)
  BY StartsAre DEF EndsUpTo
<1>2. IsFiniteSet(1 .. Len(s))
  <2>1. Len(s) \in Nat /\ 1 \in Nat
    BY CellsAre
  <2> QED
    BY <2>1, FS_Interval
<1>3. IsFiniteSet(EndsUpTo(s, p))
  BY <1>1, <1>2, FS_Subset
<1> QED
  BY <1>1, <1>3, FS_CardinalityType

\* With the next frame one more end is there.
LEMMA OneMoreEnd ==
  ASSUME NEW s, StreamOK(s), NEW p \in Starts(s), ~Rest(s, p),
         NEW q, q = p + s[p + 1].of.len
  PROVE  /\ EndsUpTo(s, q) = EndsUpTo(s, p) \cup {q} /\ q \notin EndsUpTo(s, p)
         /\ Cardinality(EndsUpTo(s, q)) = Cardinality(EndsUpTo(s, p)) + 1
<1>1. p < Len(s) /\ p \in Nat /\ q \in Ends(s) /\ q \in Nat /\ p < q
  BY WholeEnds
<1>2. \A k \in Ends(s) : k \in Nat /\ (p < k => q <= k)
  BY <1>1, NextEnd, StartsAre
<1>3. EndsUpTo(s, q) = EndsUpTo(s, p) \cup {q} /\ q \notin EndsUpTo(s, p)
  <2>1. ~(q <= p) /\ q <= q
    BY <1>1
  <2>2. ASSUME NEW k \in Ends(s)
        PROVE  (k <= q => k <= p \/ k = q) /\ (k <= p => k <= q)
    <3>1. k \in Nat /\ (p < k => q <= k)
      BY <1>2
    <3> QED
      BY <1>1, <3>1
  <2> QED
    BY <1>1, <2>1, <2>2 DEF EndsUpTo
<1>4. IsFiniteSet(EndsUpTo(s, p))
  BY EndsUpToAre
<1> QED
  BY <1>3, <1>4, FS_AddElement

LEMMA DoneNext ==
  ASSUME NEW s, StreamOK(s), NEW p \in Starts(s), ~Rest(s, p),
         NEW q, q = p + s[p + 1].of.len, NEW frames, Done(frames, s, p),
         Cells(s[p + 1].of) \in Seq(CellSet), s[p + 1].of.verdict = "converted"
  PROVE  q \in Starts(s) /\ Done(Append(frames, Cells(s[p + 1].of)), s, q)
<1> DEFINE f == s[p + 1].of
           more == Append(frames, Cells(f))
           n == Cardinality(EndsUpTo(s, p))
<1>1. p \in Nat /\ q \in Ends(s) /\ q \in Nat /\ p < q /\ s[q].of = f /\ q \in Starts(s)
  BY WholeEnds, StartsAre
<1>2. /\ EndsUpTo(s, q) = EndsUpTo(s, p) \cup {q}
      /\ Cardinality(EndsUpTo(s, q)) = n + 1 /\ n \in Nat
  BY OneMoreEnd, EndsUpToAre
<1>3. frames \in Seq(Seq(CellSet)) /\ Len(frames) = n
  BY DEF Done
<1>4. Cells(f) \in Seq(CellSet) /\ f.verdict = "converted"
  OBVIOUS
<1> HIDE DEF CellSet, f, n
<1>5. /\ more \in Seq(Seq(CellSet)) /\ Len(more) = n + 1 /\ more[n + 1] = Cells(f)
      /\ \A k \in 1 .. n : more[k] = frames[k]
  BY <1>2, <1>3, <1>4
<1> HIDE DEF more
<1>6. ASSUME NEW i \in EndsUpTo(s, p)
      PROVE  s[i].of.verdict = "converted" /\ more[Cardinality(EndsUpTo(s, i))] = Cells(s[i].of)
  <2>1. Cardinality(EndsUpTo(s, i)) \in 1 .. n
    <3>1. EndsUpTo(s, i) \subseteq EndsUpTo(s, p)
      <4>1. i \in Nat /\ i <= p /\ \A k \in Ends(s) : k \in Nat
        BY StartsAre DEF EndsUpTo
      <4>2. \A k \in Ends(s) : k <= i => k <= p
        BY <1>1, <4>1
      <4> QED
        BY <4>2 DEF EndsUpTo
    <3>2. Cardinality(EndsUpTo(s, i)) <= n
      BY <3>1, EndsUpToAre, FS_Subset DEF n
    <3>3. EndsUpTo(s, i) # {}
      <4>1. i \in Ends(s) /\ i \in Nat
        BY StartsAre DEF EndsUpTo
      <4> QED
        BY <4>1 DEF EndsUpTo
    <3>4. Cardinality(EndsUpTo(s, i)) \in Nat /\ Cardinality(EndsUpTo(s, i)) # 0
      BY <3>3, EndsUpToAre, FS_EmptySet
    <3> QED
      BY <1>2, <3>2, <3>4
  <2> QED
    BY <1>5, <2>1 DEF Done
<1>7. s[q].of.verdict = "converted" /\ more[Cardinality(EndsUpTo(s, q))] = Cells(s[q].of)
  BY <1>1, <1>2, <1>4, <1>5
<1>8. \A i \in EndsUpTo(s, q) :
        s[i].of.verdict = "converted" /\ more[Cardinality(EndsUpTo(s, i))] = Cells(s[i].of)
  BY <1>2, <1>6, <1>7
<1>9. Done(more, s, q)
  BY <1>2, <1>5, <1>8 DEF Done
<1> QED
  BY <1>1, <1>9 DEF more, f

\* When no whole frame is left these are all that end.
LEMMA DoneAll ==
  ASSUME NEW s, StreamOK(s), NEW p \in Starts(s), Rest(s, p), NEW frames, Done(frames, s, p)
  PROVE  /\ FramesOf(frames, s) /\ \A i \in Ends(s) : s[i].of.verdict = "converted"
         /\ frames = << >> => Ends(s) = {}
         /\ Ends(s) = {} => frames = << >>
<1>1. Len(s) \in Nat /\ p \in 0 .. Len(s) /\ Ends(s) \subseteq 1 .. Len(s)
  BY CellsAre, StartsAre
<1>2. EndsUpTo(s, p) = Ends(s)
  <2>1. ASSUME NEW k \in Ends(s)
        PROVE  k <= p
    <3>1. CASE p = Len(s)
      BY <1>1, <3>1
    <3>2. CASE p # Len(s)
      <4> DEFINE l == s[p + 1].of.len
      <4>1. p < Len(s) /\ p + 1 \in 1 .. Len(s) /\ k \in Nat /\ k <= Len(s) /\ p + l > Len(s)
        BY <1>1, <3>2 DEF Rest
      <4>2. l \in Nat
        BY <4>1, CellsAre
      <4>3. p < k => p + l <= k
        BY <4>1, NextEnd
      <4> HIDE DEF l
      <4> QED
        BY <1>1, <4>1, <4>2, <4>3
    <3> QED
      BY <3>1, <3>2
  <2> QED
    BY <2>1 DEF EndsUpTo
<1>3. frames \in Seq(Seq(CellSet)) /\ Len(frames) = Cardinality(Ends(s))
  BY <1>2 DEF Done
<1>4. \A i \in Ends(s) :
        s[i].of.verdict = "converted" /\ frames[Cardinality(EndsUpTo(s, i))] = Cells(s[i].of)
  BY <1>2 DEF Done
<1>5. FramesOf(frames, s)
  BY <1>3, <1>4 DEF FramesOf, EndsUpTo
<1>6. IsFiniteSet(Ends(s))
  BY <1>2, EndsUpToAre
<1>7. Cardinality(Ends(s)) = 0 => Ends(s) = {}
  BY <1>6, FS_EmptySet
<1>8. Ends(s) = {} => Cardinality(Ends(s)) = 0
  BY FS_EmptySet
<1> HIDE DEF CellSet
<1>9. frames = << >> => Len(frames) = 0
  OBVIOUS
<1>10. Len(frames) = 0 => frames = << >>
  BY <1>3
<1> QED
  BY <1>3, <1>4, <1>5, <1>7, <1>8, <1>9, <1>10

-----------------------------------------------------------------------------
(* The workspace while it is in step: the cells behind the frames done.    *)

Unbroken(s) == \A i \in 1 .. Len(s) : ~s[i].gap

InFront(s, p, f, w) ==
  /\ w \in Seq(CellSet) /\ Len(w) = Len(s) - p /\ Len(w) \in Nat
  /\ p \in Nat /\ Len(s) \in Nat /\ p <= Len(s)
  /\ \A i \in 1 .. Len(w) : w[i] = s[p + i] /\ w[i] \in CellSet /\ ~w[i].gap
  /\ Len(w) # 0 =>
       /\ p < Len(s) /\ f \in Frames /\ f.len \in Nat /\ f.len >= HeaderLen
       /\ \A i \in 1 .. Len(w) : i <= f.len => w[i].of = f /\ w[i].at = i

LEMMA FrontCells ==
  ASSUME NEW s, StreamOK(s), Unbroken(s), NEW p \in Starts(s), NEW w, w = SubSeq(s, p + 1, Len(s))
  PROVE  InFront(s, p, s[p + 1].of, w)
<1> DEFINE n == Len(s) - p
           f == s[p + 1].of
<1>1. Len(s) \in Nat /\ p \in 0 .. Len(s) /\ s \in Seq(CellSet)
  BY CellsAre, StartsAre DEF StreamOK
<1> HIDE DEF CellSet
<1>2. w \in Seq(CellSet) /\ Len(w) = n /\ \A i \in 1 .. n : w[i] = s[p + i]
  BY <1>1, PieceIs
<1>3. n \in Nat /\ p \in Nat /\ p <= Len(s) /\ \A i \in 1 .. n : p + i \in 1 .. Len(s) /\ p + i <= Len(s)
  BY <1>1
<1>4. \A i \in 1 .. n : w[i] = s[p + i] /\ w[i] \in CellSet /\ ~w[i].gap
  BY <1>2, <1>3, CellsAre DEF Unbroken
<1>5. ASSUME n # 0
      PROVE  /\ p < Len(s) /\ f \in Frames /\ f.len \in Nat /\ f.len >= HeaderLen
             /\ \A i \in 1 .. n : i <= f.len => w[i].of = f /\ w[i].at = i
  <2>1. p < Len(s) /\ p + 1 \in 1 .. Len(s)
    <3> DEFINE l == Len(s)
    <3>1. n # 0 /\ n = l - p /\ l \in Nat /\ p \in 0 .. l
      BY <1>1, <1>5
    <3> HIDE DEF l
    <3>2. p < l /\ p + 1 \in 1 .. l
      BY <3>1
    <3> QED
      BY <3>2 DEF l
  <2>2. f \in Frames /\ f.len \in Nat /\ f.len >= HeaderLen
    BY <2>1, CellsAre
  <2> HIDE DEF f, n
  <2>3. ASSUME NEW i \in 1 .. n, i <= f.len
        PROVE  w[i].of = f /\ w[i].at = i
    <3>1. i \in 1 .. f.len /\ p + i <= Len(s) /\ w[i] = s[p + i]
      BY <1>2, <1>3, <2>2, <2>3
    <3>2. s[p + i].of = s[p + 1].of /\ s[p + i].at = i
      <4>1. i \in 1 .. s[p + 1].of.len
        BY <3>1 DEF f
      <4> QED
        BY <2>1, <3>1, <4>1, FrameAt
    <3> QED
      BY <3>1, <3>2 DEF f
  <2> QED
    BY <2>1, <2>2, <2>3
<1> HIDE DEF f
<1> QED
  BY <1>1, <1>2, <1>3, <1>4, <1>5 DEF f, InFront

\* It begins with a frame, which is all there when it ends in the cells.
LEMMA FrontIs ==
  ASSUME NEW s, StreamOK(s), Unbroken(s), NEW p \in Starts(s), NEW w, w = SubSeq(s, p + 1, Len(s))
  PROVE  /\ ~NoFrame(w)
         /\ Whole(w) => ~Rest(s, p)
         /\ ~Rest(s, p) => Whole(w)
         /\ Len(w) >= HeaderLen =>
              /\ p < Len(s) /\ w[1].of = s[p + 1].of /\ Sync(w[1]) /\ Second(w[2])
              /\ FrameLen(w[2]) = s[p + 1].of.len /\ Genuine(SubSeq(w, 1, HeaderLen))
<1> DEFINE n == Len(w)
           f == s[p + 1].of
<1>0. InFront(s, p, f, w)
  BY FrontCells
<1>1. HeaderLen \in Nat /\ HeaderLen >= 2
  BY StreamAssumption
<1>2. /\ w \in Seq(CellSet) /\ n = Len(s) - p /\ n \in Nat
      /\ p \in Nat /\ Len(s) \in Nat /\ p <= Len(s)
      /\ \A i \in 1 .. n : ~w[i].gap
  BY <1>0 DEF InFront
<1>3. n # 0 =>
        /\ p < Len(s) /\ f.len \in Nat /\ f.len >= HeaderLen
        /\ \A i \in 1 .. n : i <= f.len => w[i].of = f /\ w[i].at = i
  BY <1>0 DEF InFront
<1> HIDE DEF CellSet
<1>4. w # << >> => n # 0
  BY <1>2
<1> HIDE DEF n, f
<1>5. n # 0 => w[1].of = f /\ w[1].at = 1 /\ Sync(w[1])
  <2>1. n # 0 => 1 \in 1 .. n /\ 1 <= f.len
    BY <1>1, <1>2, <1>3
  <2> QED
    BY <1>3, <2>1 DEF Sync
<1>6. n >= HeaderLen =>
        n # 0 /\ w[2].of = f /\ w[2].at = 2 /\ Second(w[2]) /\ FrameLen(w[2]) = f.len
  <2>1. n >= HeaderLen => n # 0 /\ 2 \in 1 .. n
    BY <1>1, <1>2
  <2>2. n # 0 => 2 <= f.len
    BY <1>1, <1>3
  <2>3. n >= HeaderLen => w[2].of = f /\ w[2].at = 2
    BY <1>3, <2>1, <2>2
  <2> QED
    BY <2>1, <2>3 DEF Second, FrameLen
<1>7. ~NoFrame(w)
  <2>1. ~(w # << >> /\ ~Sync(w[1]))
    BY <1>4, <1>5
  <2>2. n >= HeaderLen => Second(w[2]) /\ ~(FrameLen(w[2]) < HeaderLen)
    <3>1. n >= HeaderLen => f.len \in Nat /\ f.len >= HeaderLen
      BY <1>3, <1>6
    <3>2. f.len \in Nat /\ f.len >= HeaderLen => ~(f.len < HeaderLen)
      BY <1>1
    <3> QED
      BY <1>6, <3>1, <3>2
  <2> QED
    BY <2>1, <2>2 DEF NoFrame, n
<1>8. Whole(w) => n >= HeaderLen /\ f.len <= n
  BY <1>6 DEF Whole, n
<1>9. n >= HeaderLen /\ f.len <= n => Whole(w)
  BY <1>6, <1>7 DEF Whole, n
<1>10. n >= HeaderLen => Genuine(SubSeq(w, 1, HeaderLen))
  <2> SUFFICES ASSUME n >= HeaderLen
               PROVE  Genuine(SubSeq(w, 1, HeaderLen))
    OBVIOUS
  <2> DEFINE h == SubSeq(w, 1, HeaderLen)
  <2>1. /\ SubSeq(w, 0 + 1, HeaderLen) \in Seq(CellSet) /\ Len(SubSeq(w, 0 + 1, HeaderLen)) = HeaderLen - 0
        /\ \A i \in 1 .. HeaderLen - 0 : SubSeq(w, 0 + 1, HeaderLen)[i] = w[0 + i]
    <3>1. 0 \in Nat /\ 0 <= Len(w) /\ 0 <= HeaderLen /\ HeaderLen <= Len(w)
      BY <1>1, <1>2 DEF n
    <3> QED
      BY <1>1, <1>2, <3>1, PieceIs
  <2>2. 0 + 1 = 1 /\ HeaderLen - 0 = HeaderLen /\ \A i \in 1 .. HeaderLen : 0 + i = i
    BY <1>1
  <2>3. h \in Seq(CellSet) /\ Len(h) = HeaderLen /\ \A i \in 1 .. HeaderLen : h[i] = w[i]
    BY <2>1, <2>2
  <2> HIDE DEF h
  <2>4. DOMAIN h = 1 .. HeaderLen
    BY <2>3
  <2>5. n # 0 /\ \A i \in 1 .. HeaderLen : i \in 1 .. n /\ i <= f.len
    BY <1>1, <1>2, <1>3
  <2>6. \A i \in 1 .. HeaderLen : h[i].at = i /\ h[i].of = f /\ ~h[i].gap
    BY <1>2, <1>3, <2>3, <2>5
  <2>7. h[1].of = f
    BY <1>1, <2>6
  <2>8. Genuine(h)
    BY <2>4, <2>6, <2>7 DEF Genuine
  <2> QED
    BY <2>8 DEF h
<1>11. n >= HeaderLen /\ f.len <= n => ~Rest(s, p)
  <2> DEFINE l == Len(s)
  <2>1. n = l - p /\ p \in Nat /\ l \in Nat /\ n \in Nat /\ (Rest(s, p) => p = l \/ p + f.len > l)
    BY <1>2 DEF Rest, f
  <2> HIDE DEF l
  <2>2. n >= HeaderLen => n # 0
    BY <1>1, <2>1
  <2>3. n >= HeaderLen => f.len \in Nat /\ f.len >= HeaderLen
    BY <1>3, <2>2
  <2>4. n >= HeaderLen /\ f.len <= n => ~(p = l \/ p + f.len > l)
    BY <1>1, <2>1, <2>2, <2>3
  <2> QED
    BY <2>1, <2>4
<1>12. ~Rest(s, p) => n >= HeaderLen /\ f.len <= n
  <2> DEFINE l == Len(s)
  <2>1. ~Rest(s, p) => p # l /\ ~(p + f.len > l)
    BY DEF Rest, f
  <2>2. n = l - p /\ p \in Nat /\ l \in Nat /\ p <= l
    BY <1>2
  <2> HIDE DEF l
  <2>3. p # l => n # 0
    BY <2>2
  <2>4. p # l => f.len \in Nat /\ f.len >= HeaderLen
    BY <1>3, <2>3
  <2>5. p # l /\ ~(p + f.len > l) => n >= HeaderLen /\ f.len <= n
    BY <1>1, <2>2, <2>4
  <2> QED
    BY <2>1, <2>5
<1> QED
  BY <1>3, <1>5, <1>6, <1>7, <1>8, <1>9, <1>10, <1>11, <1>12 DEF n, f

\* The frame taken from the front is the one that was sent.
LEMMA FrontFrame ==
  ASSUME NEW s, StreamOK(s), Unbroken(s), NEW p \in Starts(s), NEW w, w = SubSeq(s, p + 1, Len(s)),
         Whole(w)
  PROVE  /\ FirstFrame(w) = Cells(s[p + 1].of) /\ Cells(s[p + 1].of) \in Seq(CellSet)
         /\ Genuine(FirstFrame(w)) /\ w[1].of = s[p + 1].of
         /\ Behind(w) = SubSeq(s, (p + s[p + 1].of.len) + 1, Len(s))
<1> DEFINE f == s[p + 1].of
           g == FirstFrame(w)
<1>0. InFront(s, p, f, w)
  BY FrontCells
<1>1. ~Rest(s, p) /\ Len(w) >= HeaderLen /\ HeaderLen \in Nat /\ HeaderLen >= 2
  BY FrontIs, StreamAssumption DEF Whole
<1>4. FrameLen(w[2]) = f.len /\ w[1].of = f
  BY <1>1, FrontIs
<1> HIDE DEF CellSet, f, g
<1>2. /\ w \in Seq(CellSet) /\ Len(w) = Len(s) - p /\ Len(w) \in Nat /\ Len(w) # 0
      /\ p \in Nat /\ Len(s) \in Nat /\ p <= Len(s)
      /\ \A i \in 1 .. Len(w) : w[i] = s[p + i] /\ w[i] \in CellSet /\ ~w[i].gap
  <2>1. Len(w) \in Nat
    BY <1>0 DEF InFront
  <2>2. Len(w) # 0
    <3> DEFINE n == Len(w)
    <3>1. n \in Nat /\ n >= HeaderLen /\ HeaderLen \in Nat /\ HeaderLen >= 2
      BY <1>1, <2>1
    <3> HIDE DEF n
    <3>2. n # 0
      BY <3>1
    <3> QED
      BY <3>2 DEF n
  <2> QED
    BY <1>0, <2>2 DEF InFront
<1>3. /\ f \in Frames /\ f.len \in Nat /\ f.len >= HeaderLen
      /\ \A i \in 1 .. Len(w) : i <= f.len => w[i].of = f /\ w[i].at = i
  BY <1>0, <1>2 DEF InFront
<1>5. /\ f.len <= Len(w) /\ g \in Seq(CellSet) /\ Len(g) = f.len /\ \A i \in 1 .. f.len : g[i] = w[i]
      /\ Behind(w) \in Seq(CellSet) /\ Len(Behind(w)) = Len(w) - f.len
      /\ \A i \in 1 .. Len(w) - f.len : Behind(w)[i] = w[f.len + i]
  <2>1. /\ FrameLen(w[2]) <= Len(w)
        /\ FirstFrame(w) \in Seq(CellSet) /\ Len(FirstFrame(w)) = FrameLen(w[2])
        /\ \A i \in 1 .. FrameLen(w[2]) : FirstFrame(w)[i] = w[i]
        /\ Behind(w) \in Seq(CellSet) /\ Len(Behind(w)) = Len(w) - FrameLen(w[2])
        /\ \A i \in 1 .. Len(w) - FrameLen(w[2]) : Behind(w)[i] = w[FrameLen(w[2]) + i]
    BY <1>2, WholeIs
  <2> DEFINE n == FrameLen(w[2])
             b == Behind(w)
             l == Len(w)
  <2>2. /\ n <= l /\ g \in Seq(CellSet) /\ Len(g) = n /\ \A i \in 1 .. n : g[i] = w[i]
        /\ b \in Seq(CellSet) /\ Len(b) = l - n /\ \A i \in 1 .. l - n : b[i] = w[n + i]
    BY <2>1 DEF g
  <2>3. n = f.len
    BY <1>4
  <2> HIDE DEF n, b, l
  <2>4. /\ f.len <= l /\ g \in Seq(CellSet) /\ Len(g) = f.len /\ \A i \in 1 .. f.len : g[i] = w[i]
        /\ b \in Seq(CellSet) /\ Len(b) = l - f.len /\ \A i \in 1 .. l - f.len : b[i] = w[f.len + i]
    BY <2>2, <2>3
  <2> QED
    BY <2>4 DEF b, l
<1>6. \A i \in 1 .. f.len : i \in 1 .. Len(w) /\ i <= f.len
  BY <1>2, <1>3, <1>5
<1>7. \A i \in 1 .. f.len : g[i] \in CellSet /\ g[i].of = f /\ g[i].at = i /\ ~g[i].gap
  <2> SUFFICES ASSUME NEW i \in 1 .. f.len
               PROVE  g[i] \in CellSet /\ g[i].of = f /\ g[i].at = i /\ ~g[i].gap
    OBVIOUS
  <2>1. g[i] = w[i] /\ i \in 1 .. Len(w) /\ i <= f.len
    BY <1>5, <1>6
  <2>2. w[i] \in CellSet /\ ~w[i].gap
    BY <1>2, <2>1
  <2>3. w[i].of = f /\ w[i].at = i
    BY <1>3, <2>1
  <2> QED
    BY <2>1, <2>2, <2>3
<1>8. \A i \in 1 .. f.len : g[i] = [of |-> f, at |-> i, gap |-> FALSE]
  <2>1. \A c \in CellSet : c = [of |-> c.of, at |-> c.at, gap |-> c.gap] /\ c.gap \in BOOLEAN
    BY CellIs
  <2>2. \A c \in CellSet : ~c.gap => c.gap = FALSE
    BY <2>1
  <2> QED
    BY <1>7, <2>1, <2>2
<1>9. g = Cells(f)
  <2>1. g = [i \in 1 .. Len(g) |-> g[i]]
    BY <1>5
  <2> QED
    BY <1>5, <1>8, <2>1 DEF Cells
<1>10. Genuine(g)
  <2>1. DOMAIN g = 1 .. f.len /\ 1 \in 1 .. f.len
    BY <1>1, <1>3, <1>5
  <2> QED
    BY <1>7, <2>1 DEF Genuine
<1>11. Behind(w) = SubSeq(s, (p + f.len) + 1, Len(s))
  <2> DEFINE q == p + f.len
             u == SubSeq(s, q + 1, Len(s))
             b == Behind(w)
             l == Len(s)
             n == f.len
             k == Len(w)
  <2>1. p \in Nat /\ l \in Nat /\ n \in Nat /\ n <= k /\ k = l - p /\ k \in Nat /\ q = p + n
    BY <1>2, <1>3, <1>5
  <2>2. s \in Seq(CellSet)
    BY DEF StreamOK
  <2>3. b \in Seq(CellSet) /\ Len(b) = k - n /\ \A i \in 1 .. k - n : b[i] = w[n + i]
    BY <1>5
  <2>4. \A i \in 1 .. k : w[i] = s[p + i]
    BY <1>2
  <2> HIDE DEF q, b, l, n, k
  <2>5. q \in Nat /\ q <= l /\ k - n = l - q
        /\ \A i \in 1 .. l - q : n + i \in 1 .. k /\ p + (n + i) = q + i
    BY <2>1
  <2>6. u \in Seq(CellSet) /\ Len(u) = l - q /\ \A i \in 1 .. l - q : u[i] = s[q + i]
    BY <2>1, <2>2, <2>5, PieceIs DEF l
  <2>7. b \in Seq(CellSet) /\ Len(b) = l - q /\ \A i \in 1 .. l - q : b[i] = s[q + i]
    BY <2>3, <2>4, <2>5
  <2> HIDE DEF u
  <2>8. b = u
    BY <2>6, <2>7, SameSequence
  <2> QED
    BY <2>8 DEF b, u, q, n
<1> QED
  BY <1>4, <1>5, <1>9, <1>10, <1>11 DEF f, g

-----------------------------------------------------------------------------
(* What is carried over, and what the source goes on with.                 *)

\* As between PES: nothing, or bytes that begin with 0xff and hold no whole frame.
Left(v) == v \in Seq(CellSet) /\ (v # << >> => Sync(v[1]) /\ ~Whole(v))

LEMMA CarriedLeft ==
  ASSUME NEW w \in Seq(CellSet)
  PROVE  Left(Carried(w))
<1> DEFINE P == Seq(CellSet)
<1>1. P \in SUBSET Seq(CellSet) /\ w \in P
  OBVIOUS
<1>2. \A v \in P : Skipped(v) \in P
  BY WholeIs DEF Skipped
<1> HIDE DEF P
<1>3. PICK v \in P : ~Whole(v) /\ Carried(w) = IF NoFrame(v) THEN << >> ELSE v
  BY <1>1, <1>2, CarriedIs
<1>4. v \in Seq(CellSet) /\ << >> \in Seq(CellSet)
  <2>1. v \in Seq(CellSet)
    BY <1>1
  <2> HIDE DEF CellSet
  <2> QED
    BY <2>1
<1>5. CASE NoFrame(v)
  BY <1>3, <1>4, <1>5 DEF Left
<1>6. CASE ~NoFrame(v)
  <2>1. Carried(w) = v
    BY <1>3, <1>6
  <2>2. v # << >> => Sync(v[1])
    BY <1>6 DEF NoFrame
  <2> QED
    BY <1>3, <1>4, <2>1, <2>2 DEF Left
<1> QED
  BY <1>5, <1>6

LEMMA CarriedInStep ==
  ASSUME NEW s, StreamOK(s), Unbroken(s), NEW p \in Starts(s), NEW w, w = SubSeq(s, p + 1, Len(s))
  PROVE  Carried(w) = Unfinished(s)
<1> DEFINE P == {SubSeq(s, q + 1, Len(s)) : q \in Starts(s)}
<1>1. w \in P
  OBVIOUS
<1>2. P \in SUBSET Seq(CellSet)
  <2>1. ASSUME NEW q \in Starts(s)
        PROVE  SubSeq(s, q + 1, Len(s)) \in Seq(CellSet)
    BY FrontCells DEF InFront
  <2> QED
    BY <2>1
<1>3. ASSUME NEW v \in P
      PROVE  Skipped(v) \in P
  <2>1. PICK q \in Starts(s) : v = SubSeq(s, q + 1, Len(s))
    BY <1>3
  <2>2. CASE Whole(v)
    <3> DEFINE r == q + s[q + 1].of.len
    <3>1. ~Rest(s, q)
      BY <2>1, <2>2, FrontIs
    <3>2. r \in Starts(s)
      BY <3>1, WholeEnds, StartsAre
    <3>3. Behind(v) = SubSeq(s, r + 1, Len(s))
      BY <2>1, <2>2, FrontFrame
    <3> HIDE DEF r
    <3>4. Skipped(v) = SubSeq(s, r + 1, Len(s))
      BY <2>2, <3>3 DEF Skipped
    <3> QED
      BY <3>2, <3>4
  <2>3. CASE ~Whole(v)
    BY <2>3 DEF Skipped
  <2> QED
    BY <2>2, <2>3
<1> HIDE DEF P
<1>4. PICK v \in P : ~Whole(v) /\ Carried(w) = IF NoFrame(v) THEN << >> ELSE v
  BY <1>1, <1>2, <1>3, CarriedIs
<1>5. PICK q \in Starts(s) : v = SubSeq(s, q + 1, Len(s))
  BY DEF P
<1>6. ~NoFrame(v) /\ (~Rest(s, q) => Whole(v))
  BY <1>5, FrontIs
<1>7. Rest(s, q)
  BY <1>4, <1>6
<1>8. Unfinished(s) = v
  BY <1>5, <1>7, UnfinishedIs
<1> QED
  BY <1>4, <1>6, <1>8

\* Where a header seems to begin at the front, nothing is skipped.
LEMMA ResyncedIs ==
  ASSUME NEW w \in Seq(CellSet)
  PROVE  /\ Resynced(w) \in Seq(CellSet)
         /\ Resynced(w) # << >> => Sync(Resynced(w)[1])
         /\ w # << >> /\ Begins(w, 1) => Resynced(w) = w
<1> DEFINE starts == {i \in DOMAIN w : Begins(w, i)}
           n == Len(w)
<1>1. n \in Nat /\ DOMAIN w = 1 .. n /\ << >> \in Seq(CellSet) /\ (w # << >> => n >= 1)
  <2> HIDE DEF CellSet
  <2> QED
    OBVIOUS
<1>2. Resynced(w) =
        IF starts = {} THEN << >>
        ELSE SubSeq(w, CHOOSE i \in starts : \A k \in starts : i <= k, n)
  BY DEF Resynced
<1>3. starts \in SUBSET (1 .. n) /\ starts \in SUBSET (0 .. n) /\ \A i \in starts : Begins(w, i)
  BY <1>1
<1>4. w # << >> /\ Begins(w, 1) => 1 \in starts
  BY <1>1
<1> HIDE DEF starts, CellSet
<1>5. CASE starts = {}
  BY <1>1, <1>2, <1>4, <1>5
<1>6. CASE starts # {}
  <2> DEFINE l == CHOOSE i \in starts : \A k \in starts : i <= k
  <2>1. Min(starts) \in starts /\ \A k \in starts : Min(starts) <= k
    BY <1>1, <1>3, <1>6, LowestOffset
  <2>2. l \in starts /\ \A k \in starts : l <= k
    BY <2>1
  <2> HIDE DEF l
  <2>3. l \in 1 .. n /\ Sync(w[l])
    BY <1>3, <2>2 DEF Begins
  <2> DEFINE a == l - 1
  <2>4. a \in Nat /\ a <= n /\ n <= n /\ a + 1 = l /\ n - a >= 1 /\ 1 \in 1 .. n - a
    BY <1>1, <2>3
  <2> HIDE DEF a
  <2>5. /\ SubSeq(w, a + 1, n) \in Seq(CellSet) /\ \A i \in 1 .. n - a : SubSeq(w, a + 1, n)[i] = w[a + i]
    BY <1>1, <2>4, PieceIs DEF n
  <2>6. Resynced(w) = SubSeq(w, l, n)
    BY <1>2, <1>6 DEF l
  <2>7. Resynced(w) \in Seq(CellSet) /\ Sync(Resynced(w)[1])
    <3>1. SubSeq(w, l, n) \in Seq(CellSet) /\ SubSeq(w, l, n)[1] = w[l]
      BY <2>4, <2>5
    <3> QED
      BY <2>3, <2>6, <3>1
  <2>8. 1 \in starts => l = 1
    BY <1>1, <2>2, <2>3
  <2>9. l = 1 => SubSeq(w, l, n) = w
    BY <1>1 DEF n
  <2> QED
    BY <1>4, <2>6, <2>7, <2>8, <2>9
<1> QED
  BY <1>5, <1>6

LEMMA StreamIs ==
  ASSUME NEW stream \in Streams
  PROVE  StreamOK(stream)
<1> DEFINE S == [of : Frames, at : Nat, gap : {FALSE}]
<1>1. /\ stream \in Seq(S) /\ stream # << >> /\ stream[1].at = 1
      /\ \A i \in DOMAIN stream : stream[i].at \in 1 .. stream[i].of.len
      /\ \A i \in 1 .. Len(stream) - 1 : Follows(stream[i], stream[i + 1])
  BY StreamsAssumption
<1>2. \A c \in S : c.at \in 1 .. c.of.len => c \in CellSet
  BY DEF CellSet
<1> HIDE DEF S
<1>3. \A i \in DOMAIN stream : stream[i] \in CellSet
  BY <1>1, <1>2
<1> HIDE DEF CellSet
<1>4. stream \in Seq(CellSet)
  BY <1>1, <1>3
<1> QED
  BY <1>1, <1>4 DEF StreamOK

\* The first cells of one frame and not all of it.
Opening(b) ==
  /\ b \in Seq(CellSet) /\ (b # << >> => Len(b) < b[1].of.len)
  /\ \A i \in 1 .. Len(b) : b[i].at = i /\ b[i].of = b[1].of

\* With a payload behind the cells begun these are cells of a source again.
GoesOn(b, payload, which) ==
  /\ payload \in Seq(CellSet) /\ Len(payload) >= 1
  /\ StreamOK(b \o payload) /\ Len(b \o payload) = Len(b) + Len(payload)
  /\ \A i \in 1 .. Len(b) : (b \o payload)[i] = b[i]
  /\ \A i \in 1 .. Len(payload) :
       (b \o payload)[Len(b) + i] = payload[i] /\ payload[i].gap = (i \in which)

Marks(cells, payload) == DOMAIN cells = 1 .. Len(payload)

LEMMA SourceGoesOn ==
  ASSUME NEW b, Opening(b), NEW stream \in Streams, b # << >> => stream[1].of = b[1].of,
         NEW m \in Nat, Len(b) < m, m <= Len(stream), NEW which,
         NEW cells, cells = SubSeq(stream, Len(b) + 1, m)
  PROVE  /\ GoesOn(b, Marked(cells, which), which) /\ Marks(cells, Marked(cells, which))
         /\ b = << >> => cells[1].at = 1
<1> DEFINE l == Len(b)
           n == m - l
           payload == Marked(cells, which)
           all == b \o payload
<1>1. b \in Seq(CellSet) /\ l \in Nat
  <2>1. b \in Seq(CellSet)
    BY DEF Opening
  <2> HIDE DEF CellSet
  <2> QED
    BY <2>1
<1>2. StreamOK(stream) /\ stream \in Seq(CellSet) /\ Len(stream) \in Nat /\ stream[1].at = 1
  BY StreamIs, CellsAre DEF StreamOK
<1> HIDE DEF CellSet
<1>3. l < m /\ l <= m /\ l <= Len(stream) /\ n \in Nat /\ n >= 1 /\ l + n = m
  BY <1>1, <1>2
<1>4. cells \in Seq(CellSet) /\ Len(cells) = n /\ \A i \in 1 .. n : cells[i] = stream[l + i]
  <2>1. cells = SubSeq(stream, l + 1, m)
    OBVIOUS
  <2>2. /\ stream \in Seq(CellSet) /\ l \in Nat /\ l <= Len(stream) /\ l <= m
        /\ m \in Nat /\ m <= Len(stream)
    BY <1>1, <1>2, <1>3
  <2> HIDE DEF l
  <2>3. /\ SubSeq(stream, l + 1, m) \in Seq(CellSet) /\ Len(SubSeq(stream, l + 1, m)) = m - l
        /\ \A i \in 1 .. m - l : SubSeq(stream, l + 1, m)[i] = stream[l + i]
    BY <2>2, PieceIs
  <2> QED
    BY <2>1, <2>3
<1>5. DOMAIN cells = 1 .. n
  BY <1>4
<1> HIDE DEF l, n
<1>6. \A i \in 1 .. n : l + i \in 1 .. Len(stream)
  BY <1>1, <1>2, <1>3
<1>7. /\ payload \in Seq(CellSet) /\ Len(payload) = n
      /\ \A i \in 1 .. n :
           payload[i].of = stream[l + i].of /\ payload[i].at = stream[l + i].at
           /\ payload[i].gap = (i \in which)
  <2>1. payload = [i \in 1 .. n |-> [cells[i] EXCEPT !.gap = i \in which]]
    BY <1>5 DEF Marked
  <2> DEFINE As(c, mark, d) == d \in CellSet /\ d.of = c.of /\ d.at = c.at /\ d.gap = mark
  <2>2. ASSUME NEW c \in CellSet, NEW mark \in BOOLEAN
        PROVE  As(c, mark, [c EXCEPT !.gap = mark])
    BY DEF CellSet
  <2>3. ASSUME NEW i \in 1 .. n
        PROVE  /\ payload[i] \in CellSet /\ payload[i].of = stream[l + i].of
               /\ payload[i].at = stream[l + i].at /\ payload[i].gap = (i \in which)
    <3> DEFINE mark == i \in which
    <3>1. cells[i] \in CellSet /\ cells[i] = stream[l + i] /\ mark \in BOOLEAN
      BY <1>4
    <3>2. payload[i] = [cells[i] EXCEPT !.gap = mark]
      BY <2>1
    <3> HIDE DEF mark, payload, As
    <3>3. As(cells[i], mark, payload[i])
      BY <2>2, <3>1, <3>2
    <3> QED
      BY <3>1, <3>3 DEF mark, As
  <2> HIDE DEF payload
  <2>4. payload \in Seq(CellSet) /\ Len(payload) = n
    <3>1. payload \in [1 .. n -> CellSet]
      <4>1. payload = [i \in 1 .. n |-> payload[i]]
        BY <2>1
      <4> QED
        BY <2>3, <4>1
    <3> QED
      BY <1>3, <3>1
  <2> QED
    BY <2>3, <2>4
<1> HIDE DEF payload
<1>8. /\ all \in Seq(CellSet) /\ Len(all) = l + n /\ \A i \in 1 .. l : all[i] = b[i]
      /\ \A i \in 1 .. n : all[l + i] = payload[i]
  <2>1. /\ b \o payload \in Seq(CellSet) /\ Len(b \o payload) = Len(b) + Len(payload)
        /\ \A i \in 1 .. Len(b) : (b \o payload)[i] = b[i]
        /\ \A i \in 1 .. Len(payload) : (b \o payload)[Len(b) + i] = payload[i]
    <3>1. Joined(CellSet, b, payload)
      BY <1>1, <1>7, JoinedIs
    <3> QED
      BY <3>1 DEF Joined
  <2> QED
    BY <1>7, <2>1 DEF l
<1> HIDE DEF all
<1>9. ASSUME NEW i \in 1 .. m
      PROVE  all[i].of = stream[i].of /\ all[i].at = stream[i].at
  <2>1. CASE i <= l
    <3>1. i \in 1 .. l /\ l >= 1
      BY <1>1, <2>1
    <3>2. b # << >> /\ b[i].at = i /\ b[i].of = b[1].of /\ l < b[1].of.len
      BY <1>1, <3>1 DEF Opening, l
    <3>3. stream[1].of = b[1].of
      BY <3>2
    <3>4. stream[i].of = stream[1].of /\ stream[i].at = i
      <4>1. 0 \in Starts(stream) /\ 0 < Len(stream) /\ 0 + 1 = 1 /\ 0 + i = i /\ i <= Len(stream)
        BY <1>2, <1>3, <2>1, StartsAre, CellsAre
      <4>2. stream[0 + 1].of.len \in Nat
        BY <1>2, <4>1, CellsAre
      <4>3. i \in 1 .. stream[0 + 1].of.len
        BY <1>1, <3>1, <3>2, <3>3, <4>1, <4>2
      <4>4. stream[0 + i].of = stream[0 + 1].of /\ stream[0 + i].at = i
        BY <1>2, <4>1, <4>3, FrameAt
      <4> QED
        BY <4>1, <4>4
    <3> QED
      BY <1>8, <3>1, <3>2, <3>3, <3>4
  <2>2. CASE ~(i <= l)
    <3> DEFINE k == i - l
    <3>1. k \in 1 .. n /\ l + k = i
      BY <1>1, <1>3, <2>2
    <3> HIDE DEF k
    <3> QED
      BY <1>7, <1>8, <3>1
  <2> QED
    BY <2>1, <2>2
<1>10. StreamOK(all)
  <2>1. Len(all) = m /\ 1 \in 1 .. m /\ all # << >>
    BY <1>1, <1>3, <1>8
  <2>2. all[1].at = 1
    BY <1>2, <1>9, <2>1
  <2>3. ASSUME NEW i \in 1 .. m - 1
        PROVE  Follows(all[i], all[i + 1])
    <3>1. i \in 1 .. m /\ i + 1 \in 1 .. m /\ i \in 1 .. Len(stream) - 1
      BY <1>2
    <3>2. Follows(stream[i], stream[i + 1])
      BY <1>2, <3>1 DEF StreamOK
    <3>3. /\ all[i].of = stream[i].of /\ all[i].at = stream[i].at
          /\ all[i + 1].of = stream[i + 1].of /\ all[i + 1].at = stream[i + 1].at
      BY <1>9, <3>1
    <3> QED
      BY <3>2, <3>3 DEF Follows
  <2> QED
    BY <1>8, <2>1, <2>2, <2>3 DEF StreamOK
<1>11. b = << >> => cells[1].at = 1
  <2>1. 1 \in 1 .. n
    BY <1>3
  <2>2. b = << >> => l + 1 = 1
    BY DEF l
  <2> QED
    BY <1>2, <1>4, <2>1, <2>2
<1>12. GoesOn(b, payload, which)
  BY <1>3, <1>7, <1>8, <1>10 DEF GoesOn, all, l
<1> QED
  BY <1>5, <1>7, <1>11, <1>12 DEF payload, Marks

-----------------------------------------------------------------------------
(* The inductive invariant.                                                *)

\* After the last byte that was lost the cells begun have its mark.
BegunOK == Opening(begun) /\ (gap /\ begun # << >> => begun[Len(begun)].gap)

Typed ==
  /\ workspace \in Seq(CellSet) /\ sent \in Seq(CellSet) /\ dest \in Seq(Seq(CellSet))
  /\ synced \in BOOLEAN /\ gap \in BOOLEAN /\ wasInStep \in BOOLEAN
  /\ phase \in {"idle", "frames"} /\ result \in {"converted", "passed"}
  /\ phase = "idle" => Left(workspace) /\ (workspace # << >> => synced \/ Len(workspace) = 1)

\* In the loop the workspace holds what was sent behind the frames done, which are converted.
Told ==
  phase = "frames" /\ wasInStep =>
    /\ StreamOK(sent) /\ Unbroken(sent) /\ begun = Unfinished(sent)
    /\ \E p \in Starts(sent) : workspace = SubSeq(sent, p + 1, Len(sent)) /\ Done(dest, sent, p)

Inv == Typed /\ BegunOK /\ StaysInStep /\ Told

LEMMA InvTypeOK == Inv => TypeOK
<1> SUFFICES ASSUME Inv
             PROVE  TypeOK
  OBVIOUS
<1>1. \A c \in CellSet : IsCell(c)
  BY CellIs DEF IsCell
<1>2. workspace \in Seq(CellSet) /\ sent \in Seq(CellSet) /\ begun \in Seq(CellSet) /\ dest \in Seq(Seq(CellSet))
  BY DEF Inv, Typed, BegunOK, Opening
<1> HIDE DEF CellSet
<1>3. \A s \in Seq(CellSet) : \A i \in DOMAIN s : IsCell(s[i])
  BY <1>1
<1>4. \A k \in DOMAIN dest : dest[k] \in Seq(CellSet)
  BY <1>2
<1>5. \A k \in DOMAIN dest : \A i \in DOMAIN dest[k] : IsCell(dest[k][i])
  BY <1>3, <1>4
<1>6. \A s \in {workspace, begun, sent} : \A i \in DOMAIN s : IsCell(s[i])
  BY <1>2, <1>3
<1> QED
  BY <1>5, <1>6 DEF Inv, Typed, TypeOK, Left

LEMMA InitInv == Init => Inv
<1> SUFFICES ASSUME Init
             PROVE  Inv
  OBVIOUS
<1> HIDE DEF CellSet
<1>1. << >> \in Seq(CellSet) /\ << >> \in Seq(Seq(CellSet)) /\ Len(<< >>) = 0
      /\ \A i \in 1 .. Len(<< >>) : FALSE
  OBVIOUS
<1>2. Left(<< >>) /\ Opening(<< >>)
  BY <1>1 DEF Left, Opening
<1>3. Typed /\ BegunOK /\ Told
  BY <1>1, <1>2 DEF Init, Typed, BegunOK, Told
<1>4. DOMAIN << >> = {}
  OBVIOUS
<1>5. Genuine(<< >>) /\ Ends(<< >>) = {}
  BY <1>4 DEF Genuine, Ends
<1>6. StaysInStep
  BY <1>5 DEF Init, StaysInStep, InStep
<1> QED
  BY <1>3, <1>6 DEF Inv

-----------------------------------------------------------------------------
(* A PES comes, or is lost.                                                *)

LEMMA GenuineBegun ==
  ASSUME NEW s, StreamOK(s), Unbroken(s)
  PROVE  Genuine(Unfinished(s))
<1> DEFINE u == Unfinished(s)
<1>1. /\ u \in Seq(CellSet) /\ \A i \in 1 .. Len(u) : u[i].at = i /\ u[i].of = u[1].of
      /\ \A i \in 1 .. Len(u) : \E k \in 1 .. Len(s) : u[i] = s[k]
  BY BegunIs
<1> HIDE DEF u, CellSet
<1>2. DOMAIN u = 1 .. Len(u)
  BY <1>1
<1>3. \A i \in 1 .. Len(u) : ~u[i].gap
  BY <1>1 DEF Unbroken
<1>4. Genuine(u)
  BY <1>1, <1>2, <1>3 DEF Genuine
<1> QED
  BY <1>4 DEF u

\* Cells of a source show at once that a frame begins.
LEMMA BeginsThere ==
  ASSUME NEW s, StreamOK(s)
  PROVE  Begins(s, 1)
<1>1. s[1].at = 1 /\ Len(s) \in Nat /\ Len(s) >= 1
  BY CellsAre DEF StreamOK
<1>2. ASSUME Len(s) # 1
      PROVE  s[2].at = 2
  <2>1. HeaderLen \in Nat /\ HeaderLen >= 2
    BY StreamAssumption
  <2>2. 1 \in 1 .. Len(s) /\ 2 <= Len(s) /\ 0 < Len(s) /\ 0 + 1 = 1 /\ 0 + 2 = 2
    <3> DEFINE n == Len(s)
    <3>1. n \in Nat /\ n >= 1 /\ n # 1
      BY <1>1, <1>2
    <3> HIDE DEF n
    <3>2. 1 \in 1 .. n /\ 2 <= n /\ 0 < n /\ 0 + 1 = 1 /\ 0 + 2 = 2
      BY <3>1
    <3> QED
      BY <3>2 DEF n
  <2>3. s[1].of.len \in Nat /\ s[1].of.len >= HeaderLen
    BY <2>2, CellsAre
  <2>4. 2 \in 1 .. s[0 + 1].of.len
    BY <2>1, <2>2, <2>3
  <2>5. 0 \in Starts(s)
    BY StartsAre
  <2>6. s[0 + 2].at = 2
    BY <2>2, <2>4, <2>5, FrameAt
  <2> QED
    BY <2>2, <2>6
<1> QED
  BY <1>1, <1>2 DEF Begins, Sync, Second

\* A stream as long as one byte holds no end.
LEMMA OneByte ==
  ASSUME NEW s, StreamOK(s), Len(s) < 2
  PROVE  Unfinished(s) = s /\ Ends(s) = {}
<1>1. HeaderLen \in Nat /\ HeaderLen >= 2
  BY StreamAssumption
<1>2. Len(s) = 1 /\ 1 \in 1 .. Len(s) /\ s \in Seq(CellSet) /\ s[1].at = 1
  <2> DEFINE n == Len(s)
  <2>1. n \in Nat /\ n >= 1 /\ n < 2
    BY CellsAre
  <2> HIDE DEF n
  <2>2. n = 1 /\ 1 \in 1 .. n
    BY <2>1
  <2> QED
    BY <2>2 DEF n, StreamOK
<1>3. s[1].of.len \in Nat /\ s[1].of.len >= HeaderLen
  BY <1>2, CellsAre
<1> HIDE DEF CellSet
<1>4. Rest(s, 0) /\ 0 \in Starts(s)
  <2>1. 0 + 1 = 1 /\ 0 + s[1].of.len > 1
    BY <1>1, <1>3
  <2> QED
    BY <1>2, <2>1, StartsAre DEF Rest
<1>5. Unfinished(s) = SubSeq(s, 0 + 1, Len(s))
  BY <1>4, UnfinishedIs
<1>6. SubSeq(s, 0 + 1, Len(s)) = s
  BY <1>2
<1>7. s[1].at # s[1].of.len
  BY <1>1, <1>2, <1>3
<1>8. Ends(s) = {}
  <2>1. DOMAIN s = {1}
    BY <1>2
  <2> QED
    BY <1>7, <2>1 DEF Ends
<1> QED
  BY <1>5, <1>6, <1>8

LEMMA NothingDone ==
  ASSUME NEW s, StreamOK(s)
  PROVE  /\ 0 \in Starts(s) /\ s = SubSeq(s, 0 + 1, Len(s))
         /\ Done(<< >>, s, 0)
<1>1. s \in Seq(CellSet)
  BY DEF StreamOK
<1>2. EndsUpTo(s, 0) = {}
  BY StartsAre DEF EndsUpTo
<1>3. Cardinality(EndsUpTo(s, 0)) = 0
  BY <1>2, FS_EmptySet
<1> HIDE DEF CellSet
<1>4. s = SubSeq(s, 0 + 1, Len(s)) /\ << >> \in Seq(Seq(CellSet)) /\ Len(<< >>) = 0
  BY <1>1
<1> QED
  BY <1>2, <1>3, <1>4, StartsAre DEF Done

LEMMA ReceiveStep ==
  ASSUME Inv, NEW stream \in Upcoming, NEW m \in PesEnds(stream), Receive(stream, m)
  PROVE  Inv'
<1> DEFINE cells == SubSeq(stream, Len(begun) + 1, m)
           which == IF gap /\ cells[1].at # 1 THEN {1} ELSE {}
           payload == Marked(cells, which)
           all == begun \o payload
           w == SyncPayload(payload)
<1>1. /\ Opening(begun) /\ begun \in Seq(CellSet) /\ Len(begun) \in Nat
      /\ gap /\ begun # << >> => begun[Len(begun)].gap
  <2>1. Opening(begun) /\ begun \in Seq(CellSet) /\ (gap /\ begun # << >> => begun[Len(begun)].gap)
    BY DEF Inv, BegunOK, Opening
  <2> HIDE DEF CellSet
  <2> QED
    BY <2>1
<1>2. stream \in Streams /\ (begun # << >> => stream[1].of = begun[1].of)
  BY DEF Upcoming
<1>3. m \in Nat /\ Len(begun) < m /\ m <= Len(stream)
  <2>1. MaxPes \in Nat
    BY StreamAssumption
  <2> DEFINE l == Len(begun)
  <2>2. m \in l + 1 .. l + MaxPes /\ m <= Len(stream) /\ l \in Nat
    BY <1>1 DEF PesEnds
  <2> HIDE DEF l
  <2>3. m \in Nat /\ l < m
    BY <2>1, <2>2
  <2> QED
    BY <2>2, <2>3 DEF l
<1>4. GoesOn(begun, payload, which) /\ (begun = << >> => cells[1].at = 1)
  <2> HIDE DEF which
  <2> QED
    BY <1>1, <1>2, <1>3, SourceGoesOn
<1>5. /\ phase = "idle"
      /\ sent' = all /\ begun' = Unfinished(all) /\ workspace' = w
      /\ phase' = (IF ~synced /\ Len(w) < 2 THEN "idle" ELSE "frames")
      /\ result' = "passed" /\ synced' = FALSE /\ dest' = << >> /\ gap' = FALSE
      /\ wasInStep' = InStep
  BY DEF Receive
<1>6. begun # << >> /\ gap => begun[Len(begun)].gap
  BY <1>1
<1>7. which # {} => gap /\ begun # << >>
  BY <1>4
<1> HIDE DEF cells, which, payload
<1>8. /\ StreamOK(all) /\ payload \in Seq(CellSet) /\ Len(payload) \in Nat
      /\ Len(all) = Len(begun) + Len(payload)
      /\ \A i \in 1 .. Len(begun) : all[i] = begun[i]
      /\ \A i \in 1 .. Len(payload) :
           all[Len(begun) + i] = payload[i] /\ payload[i].gap = (i \in which)
  <2>1. payload \in Seq(CellSet)
    BY <1>4 DEF GoesOn
  <2>2. Len(payload) \in Nat
    <3> HIDE DEF CellSet
    <3> QED
      BY <2>1
  <2> QED
    BY <1>4, <2>1, <2>2 DEF GoesOn
<1>9. workspace \in Seq(CellSet)
  BY DEF Inv, Typed
<1> DEFINE joined == workspace \o payload
<1>10. joined \in Seq(CellSet)
  <2> HIDE DEF CellSet
  <2> QED
    BY <1>8, <1>9
<1>11. w = IF synced THEN joined ELSE Resynced(joined)
  BY DEF SyncPayload
<1>12. /\ Resynced(joined) \in Seq(CellSet)
       /\ Resynced(joined) # << >> => Sync(Resynced(joined)[1])
       /\ joined # << >> /\ Begins(joined, 1) => Resynced(joined) = joined
  BY <1>10, ResyncedIs
<1> HIDE DEF all, w, joined, CellSet
<1>13. w \in Seq(CellSet) /\ (~synced /\ w # << >> => Sync(w[1]))
  BY <1>10, <1>11, <1>12
<1>14. ASSUME ~synced, Len(w) < 2
       PROVE  Left(w) /\ (w # << >> => Len(w) = 1)
  <2>1. w # << >> => Len(w) = 1
    <3> DEFINE n == Len(w)
    <3>1. n \in Nat /\ (w # << >> => n # 0) /\ n < 2
      BY <1>13, <1>14
    <3> HIDE DEF n
    <3>2. n # 0 => n = 1
      BY <3>1
    <3> QED
      BY <3>1, <3>2 DEF n
  <2>2. ~Whole(w)
    <3> DEFINE n == Len(w)
    <3>1. HeaderLen \in Nat /\ HeaderLen >= 2 /\ n \in Nat /\ n < 2
      BY <1>13, <1>14, StreamAssumption
    <3> HIDE DEF n
    <3>2. ~(n >= HeaderLen)
      BY <3>1
    <3> QED
      BY <3>2 DEF Whole, n
  <2> QED
    BY <1>13, <1>14, <2>1, <2>2 DEF Left
<1>15. Typed'
  <2>1. sent' \in Seq(CellSet) /\ workspace' \in Seq(CellSet)
    BY <1>5, <1>8, <1>13 DEF StreamOK
  <2>2. dest' \in Seq(Seq(CellSet))
    BY <1>5
  <2>3. synced' \in BOOLEAN /\ gap' \in BOOLEAN /\ wasInStep' \in BOOLEAN
        /\ phase' \in {"idle", "frames"} /\ result' \in {"converted", "passed"}
    BY <1>5 DEF InStep, Genuine
  <2>4. phase' = "idle" => Left(w) /\ (w # << >> => Len(w) = 1)
    BY <1>5, <1>14
  <2>5. (phase = "idle" => Left(workspace) /\ (workspace # << >> => synced \/ Len(workspace) = 1))'
    BY <1>5, <2>4 DEF Left
  <2> QED
    BY <2>1, <2>2, <2>3, <2>5 DEF Typed
<1>16. BegunOK'
  <2>1. Opening(Unfinished(all))
    BY <1>8, BegunIs DEF Opening
  <2> QED
    BY <1>5, <2>1 DEF BegunOK, Opening
<1>17. ASSUME InStep
       PROVE  Unbroken(all) /\ w = all
  <2>1. workspace = begun /\ Genuine(begun)
    BY <1>17 DEF InStep
  <2>2. \A i \in 1 .. Len(begun) : ~begun[i].gap
    <3>1. DOMAIN begun = 1 .. Len(begun)
      BY <1>1
    <3> QED
      BY <2>1, <3>1 DEF Genuine
  <2>3. which = {}
    <3>1. begun # << >> => Len(begun) \in 1 .. Len(begun)
      BY <1>1
    <3> QED
      BY <1>6, <1>7, <2>2, <3>1
  <2>4. \A i \in 1 .. Len(payload) : ~payload[i].gap
    BY <1>8, <2>3
  <2>5. Unbroken(all)
    <3> DEFINE l == Len(begun)
               n == Len(payload)
    <3>1. l \in Nat /\ n \in Nat /\ Len(all) = l + n
      BY <1>1, <1>8
    <3> HIDE DEF l, n
    <3>2. ASSUME NEW i \in 1 .. l + n
          PROVE  ~all[i].gap
      <4>1. CASE i <= l
        <5>1. i \in 1 .. l
          BY <3>1, <4>1
        <5> QED
          BY <1>8, <2>2, <5>1 DEF l
      <4>2. CASE ~(i <= l)
        <5> DEFINE k == i - l
        <5>1. k \in 1 .. n /\ l + k = i
          BY <3>1, <4>2
        <5> HIDE DEF k
        <5>2. all[l + k] = payload[k] /\ ~payload[k].gap
          BY <1>8, <2>4, <5>1 DEF l, n
        <5> QED
          BY <5>1, <5>2
      <4> QED
        BY <4>1, <4>2
    <3> QED
      BY <3>1, <3>2 DEF Unbroken
  <2>6. joined = all
    BY <2>1 DEF joined, all
  <2>7. Begins(all, 1) /\ all # << >>
    BY <1>8, BeginsThere DEF StreamOK
  <2> QED
    BY <1>11, <1>12, <2>5, <2>6, <2>7
<1>18. Told'
  <2>1. ASSUME InStep
        PROVE  (/\ StreamOK(sent) /\ Unbroken(sent) /\ begun = Unfinished(sent)
                /\ \E p \in Starts(sent) :
                     workspace = SubSeq(sent, p + 1, Len(sent)) /\ Done(dest, sent, p))'
    <3>1. StreamOK(all) /\ Unbroken(all) /\ w = all
      BY <1>8, <1>17, <2>1
    <3>2. \E p \in Starts(all) : w = SubSeq(all, p + 1, Len(all)) /\ Done(<< >>, all, p)
      BY <3>1, NothingDone
    <3> QED
      BY <1>5, <3>1, <3>2
  <2> QED
    BY <1>5, <2>1 DEF Told
<1>19. StaysInStep'
  <2> SUFFICES ASSUME phase' = "idle", InStep
               PROVE  StaysInStep'
    BY <1>5 DEF StaysInStep
  <2>1. ~synced /\ Len(w) < 2
    BY <1>5
  <2>2. w = all /\ Unbroken(all)
    BY <1>17
  <2>3. Unfinished(all) = all /\ Ends(all) = {}
    BY <1>8, <2>1, <2>2, OneByte
  <2>4. Genuine(all)
    BY <1>8, <2>2, <2>3, GenuineBegun
  <2>5. workspace' = begun' /\ Genuine(begun') /\ Ends(sent') = {} /\ result' = "passed"
    BY <1>5, <2>2, <2>3, <2>4
  <2> QED
    BY <2>5 DEF StaysInStep, InStep
<1> QED
  BY <1>15, <1>16, <1>18, <1>19 DEF Inv

LEMMA LoseStep ==
  ASSUME Inv, NEW stream \in Upcoming, NEW m \in PesEnds(stream), Lose(stream, m)
  PROVE  Inv'
<1> DEFINE cells == SubSeq(stream, Len(begun) + 1, m)
           which == DOMAIN cells
           payload == Marked(cells, which)
           all == begun \o payload
<1>1. Opening(begun) /\ begun \in Seq(CellSet) /\ Len(begun) \in Nat
  <2>1. Opening(begun) /\ begun \in Seq(CellSet)
    BY DEF Inv, BegunOK, Opening
  <2> HIDE DEF CellSet
  <2> QED
    BY <2>1
<1>2. stream \in Streams /\ (begun # << >> => stream[1].of = begun[1].of)
  BY DEF Upcoming
<1>3. m \in Nat /\ Len(begun) < m /\ m <= Len(stream)
  <2>1. MaxPes \in Nat
    BY StreamAssumption
  <2> DEFINE l == Len(begun)
  <2>2. m \in l + 1 .. l + MaxPes /\ m <= Len(stream) /\ l \in Nat
    BY <1>1 DEF PesEnds
  <2> HIDE DEF l
  <2>3. m \in Nat /\ l < m
    BY <2>1, <2>2
  <2> QED
    BY <2>2, <2>3 DEF l
<1>4. GoesOn(begun, payload, which) /\ which = 1 .. Len(payload)
  <2>1. which = DOMAIN cells
    OBVIOUS
  <2> HIDE DEF which
  <2>2. GoesOn(begun, payload, which) /\ Marks(cells, payload)
    BY <1>1, <1>2, <1>3, SourceGoesOn
  <2> QED
    BY <2>1, <2>2 DEF Marks
<1>5. /\ phase = "idle" /\ phase' = phase
      /\ begun' = Unfinished(all) /\ gap' = TRUE /\ sent' = << >> /\ wasInStep' = FALSE
      /\ workspace' = workspace /\ synced' = synced /\ dest' = dest /\ result' = result
  BY DEF Lose
<1> HIDE DEF cells, which, payload
<1>6. /\ StreamOK(all) /\ Len(all) = Len(begun) + Len(payload) /\ Len(payload) >= 1
      /\ payload \in Seq(CellSet)
      /\ \A i \in 1 .. Len(payload) : all[Len(begun) + i] = payload[i] /\ payload[i].gap
  BY <1>4 DEF GoesOn
<1> HIDE DEF all, CellSet
<1>7. all[Len(all)].gap
  <2> DEFINE n == Len(payload)
  <2>1. n \in 1 .. n
    BY <1>6
  <2> QED
    BY <1>6, <2>1
<1>8. BegunOK'
  <2> DEFINE u == Unfinished(all)
  <2>1. Opening(u) /\ (u # << >> => u[Len(u)] = all[Len(all)])
    BY <1>6, BegunIs DEF Opening
  <2> HIDE DEF u
  <2>2. begun' = u
    BY <1>5 DEF u
  <2> QED
    BY <1>7, <2>1, <2>2 DEF BegunOK, Opening
<1>9. Typed'
  <2>1. sent' \in Seq(CellSet)
    BY <1>5
  <2> QED
    BY <1>5, <2>1 DEF Inv, Typed, Left
<1>10. Told' /\ StaysInStep'
  BY <1>5 DEF Told, StaysInStep
<1> QED
  BY <1>8, <1>9, <1>10 DEF Inv

-----------------------------------------------------------------------------
(* The loop over the frames.                                               *)

\* The PES is to be converted.
ToConvert ==
  Ends(sent) # {} /\ (\A i \in Ends(sent) : sent[i].of.verdict = "converted") /\ ~RefusedAhead

\* The loop returns as it should: with the frame begun carried over, in step.
LEMMA ReturnStep ==
  ASSUME Inv, phase = "frames", NEW c, NEW r \in BOOLEAN, Return(c, r), Left(c),
         wasInStep => c = begun /\ Genuine(begun),
         wasInStep /\ ~r => ~ToConvert,
         wasInStep /\ r /\ dest # << >> => ToConvert /\ FramesOf(dest, sent),
         wasInStep /\ r /\ dest = << >> => ~ToConvert
  PROVE  Inv'
<1>1. /\ phase' = "idle" /\ workspace' = c /\ synced' = (c # << >>)
      /\ result' = (IF r /\ dest # << >> THEN "converted" ELSE "passed")
      /\ dest' = dest /\ begun' = begun /\ gap' = gap /\ sent' = sent /\ wasInStep' = wasInStep
  BY DEF Return
<1>2. Typed'
  <2>1. c \in Seq(CellSet)
    BY DEF Left
  <2> HIDE DEF CellSet
  <2>2. result' \in {"converted", "passed"} /\ synced' \in BOOLEAN /\ phase' \in {"idle", "frames"}
    BY <1>1
  <2>3. (phase = "idle" => Left(workspace) /\ (workspace # << >> => synced \/ Len(workspace) = 1))'
    BY <1>1 DEF Left
  <2> QED
    BY <1>1, <2>1, <2>2, <2>3 DEF Inv, Typed
<1>3. BegunOK'
  BY <1>1 DEF Inv, BegunOK, Opening
<1>4. Told'
  BY <1>1 DEF Told
<1>5. StaysInStep'
  <2> SUFFICES ASSUME wasInStep
               PROVE  StaysInStep'
    BY <1>1 DEF StaysInStep
  <2>1. InStep'
    BY <1>1 DEF InStep, Genuine
  <2>2. ToConvert => result' = "converted" /\ FramesOf(dest, sent)
    BY <1>1
  <2>3. ~ToConvert => result' = "passed"
    BY <1>1
  <2>4. (IF ToConvert THEN result = "converted" /\ FramesOf(dest, sent) ELSE result = "passed")'
    BY <1>1, <2>2, <2>3 DEF ToConvert, FramesOf, Ends, RefusedAhead
  <2> QED
    BY <2>1, <2>4 DEF StaysInStep, ToConvert
<1> QED
  BY <1>2, <1>3, <1>4, <1>5 DEF Inv

\* What is known in the loop, at the frame behind p.
At(p) ==
  /\ StreamOK(sent) /\ Unbroken(sent) /\ begun = Unfinished(sent) /\ Genuine(begun)
  /\ p \in Starts(sent) /\ workspace = SubSeq(sent, p + 1, Len(sent)) /\ Done(dest, sent, p)
  /\ Carried(workspace) = begun

LEMMA AtPlace ==
  ASSUME Inv, phase = "frames", wasInStep
  PROVE  \E p : At(p)
<1>1. PICK p \in Starts(sent) :
        /\ StreamOK(sent) /\ Unbroken(sent) /\ begun = Unfinished(sent)
        /\ workspace = SubSeq(sent, p + 1, Len(sent)) /\ Done(dest, sent, p)
  BY DEF Inv, Told
<1>2. Carried(workspace) = begun
  BY <1>1, CarriedInStep
<1>3. Genuine(begun)
  BY <1>1, GenuineBegun
<1>4. At(p)
  BY <1>1, <1>2, <1>3 DEF At
<1> QED
  BY <1>4

LEMMA WorkspaceTyped == Inv => workspace \in Seq(CellSet) /\ Left(<< >>) /\ Left(Carried(workspace))
<1> SUFFICES ASSUME Inv
             PROVE  workspace \in Seq(CellSet) /\ Left(<< >>) /\ Left(Carried(workspace))
  OBVIOUS
<1>1. workspace \in Seq(CellSet)
  BY DEF Inv, Typed
<1>2. << >> \in Seq(CellSet)
  <2> HIDE DEF CellSet
  <2> QED
    OBVIOUS
<1> QED
  BY <1>1, <1>2, CarriedLeft DEF Left

LEMMA LoseSyncStep ==
  ASSUME Inv, LoseSync
  PROVE  Inv'
<1>1. phase = "frames" /\ NoFrame(workspace) /\ Return(<< >>, FALSE)
  BY DEF LoseSync
<1>2. ~wasInStep
  <2> SUFFICES ASSUME wasInStep
               PROVE  FALSE
    OBVIOUS
  <2>1. PICK p : At(p)
    BY <1>1, AtPlace
  <2> QED
    BY <1>1, <2>1, FrontIs DEF At
<1> QED
  BY <1>1, <1>2, WorkspaceTyped, ReturnStep

LEMMA RefuseHeaderStep ==
  ASSUME Inv, RefuseHeader
  PROVE  Inv'
<1>1. /\ phase = "frames" /\ Len(workspace) >= HeaderLen
      /\ Genuine(SubSeq(workspace, 1, HeaderLen)) => workspace[1].of.verdict = "unsupported"
      /\ Return(Carried(workspace), FALSE)
  BY DEF RefuseHeader
<1>2. ASSUME wasInStep
      PROVE  Carried(workspace) = begun /\ Genuine(begun) /\ ~ToConvert
  <2>1. PICK p : At(p)
    BY <1>1, <1>2, AtPlace
  <2> DEFINE f == sent[p + 1].of
  <2>2. /\ p < Len(sent) /\ workspace[1].of = f /\ Genuine(SubSeq(workspace, 1, HeaderLen))
    BY <1>1, <2>1, FrontIs DEF At
  <2>3. f.verdict = "unsupported"
    BY <1>1, <2>2
  <2>4. CASE Rest(sent, p)
    <3>1. begun = workspace
      BY <2>1, <2>4, UnfinishedIs DEF At
    <3>2. RefusedAhead
      BY <1>1, <2>2, <2>3, <3>1 DEF RefusedAhead
    <3> QED
      BY <2>1, <3>2 DEF At, ToConvert
  <2>5. CASE ~Rest(sent, p)
    <3>1. p + f.len \in Ends(sent) /\ sent[p + f.len].of = f
      BY <2>1, <2>5, WholeEnds DEF At
    <3>2. ~ToConvert
      BY <2>3, <3>1 DEF ToConvert
    <3> QED
      BY <2>1, <3>2 DEF At
  <2> QED
    BY <2>4, <2>5
<1> QED
  BY <1>1, <1>2, WorkspaceTyped, ReturnStep

LEMMA RefuseStep ==
  ASSUME Inv, Refuse
  PROVE  Inv'
<1>1. /\ phase = "frames" /\ Whole(workspace)
      /\ Genuine(FirstFrame(workspace)) => workspace[1].of.verdict = "refused"
      /\ Return(Carried(workspace), FALSE)
  BY DEF Refuse
<1>2. ASSUME wasInStep
      PROVE  Carried(workspace) = begun /\ Genuine(begun) /\ ~ToConvert
  <2>1. PICK p : At(p)
    BY <1>1, <1>2, AtPlace
  <2> DEFINE f == sent[p + 1].of
  <2>2. ~Rest(sent, p)
    BY <1>1, <2>1, FrontIs DEF At
  <2>3. Genuine(FirstFrame(workspace)) /\ workspace[1].of = f
    BY <1>1, <2>1, FrontFrame DEF At
  <2>4. p + f.len \in Ends(sent) /\ sent[p + f.len].of = f
    BY <2>1, <2>2, WholeEnds DEF At
  <2>5. ~ToConvert
    BY <1>1, <2>3, <2>4 DEF ToConvert
  <2> QED
    BY <2>1, <2>5 DEF At
<1> QED
  BY <1>1, <1>2, WorkspaceTyped, ReturnStep

LEMMA FinishStep ==
  ASSUME Inv, Finish
  PROVE  Inv'
<1>1. /\ phase = "frames" /\ ~NoFrame(workspace) /\ ~Whole(workspace)
      /\ (Len(workspace) >= HeaderLen /\ Genuine(SubSeq(workspace, 1, HeaderLen)))
           => workspace[1].of.verdict # "unsupported"
      /\ Return(Carried(workspace), TRUE)
  BY DEF Finish
<1>2. ASSUME wasInStep
      PROVE  /\ Carried(workspace) = begun /\ Genuine(begun)
             /\ dest # << >> => ToConvert /\ FramesOf(dest, sent)
             /\ dest = << >> => ~ToConvert
  <2>1. PICK p : At(p)
    BY <1>1, <1>2, AtPlace
  <2>2. Rest(sent, p)
    BY <1>1, <2>1, FrontIs DEF At
  <2>3. begun = workspace
    BY <2>1, <2>2, UnfinishedIs DEF At
  <2>4. ~RefusedAhead
    <3>1. Len(workspace) >= HeaderLen => Genuine(SubSeq(workspace, 1, HeaderLen))
      BY <2>1, FrontIs DEF At
    <3> QED
      BY <1>1, <2>3, <3>1 DEF RefusedAhead
  <2>5. /\ FramesOf(dest, sent) /\ \A i \in Ends(sent) : sent[i].of.verdict = "converted"
        /\ (dest = << >> => Ends(sent) = {}) /\ (Ends(sent) = {} => dest = << >>)
    BY <2>1, <2>2, DoneAll DEF At
  <2> QED
    BY <2>1, <2>4, <2>5 DEF At, ToConvert
<1> QED
  BY <1>1, <1>2, WorkspaceTyped, ReturnStep

LEMMA ConvertStep ==
  ASSUME Inv, Convert
  PROVE  Inv'
<1>1. /\ phase = "frames" /\ Whole(workspace)
      /\ Genuine(FirstFrame(workspace)) => workspace[1].of.verdict = "converted"
      /\ dest' = Append(dest, FirstFrame(workspace)) /\ workspace' = Behind(workspace)
      /\ synced' = synced /\ phase' = phase /\ result' = result /\ begun' = begun /\ gap' = gap
      /\ sent' = sent /\ wasInStep' = wasInStep
  BY DEF Convert
<1>2. Typed'
  <2>1. FirstFrame(workspace) \in Seq(CellSet) /\ workspace' \in Seq(CellSet)
    BY <1>1, WorkspaceTyped, WholeIs
  <2> HIDE DEF CellSet
  <2>2. dest' \in Seq(Seq(CellSet))
    BY <1>1, <2>1 DEF Inv, Typed
  <2> QED
    BY <1>1, <2>1, <2>2 DEF Inv, Typed
<1>3. BegunOK'
  BY <1>1 DEF Inv, BegunOK, Opening
<1>4. StaysInStep'
  BY <1>1 DEF StaysInStep
<1>5. Told'
  <2> SUFFICES ASSUME wasInStep
               PROVE  Told'
    BY <1>1 DEF Told
  <2>1. PICK p : At(p)
    BY <1>1, AtPlace
  <2> DEFINE f == sent[p + 1].of
             q == p + f.len
  <2>2. ~Rest(sent, p)
    BY <1>1, <2>1, FrontIs DEF At
  <2>3. /\ FirstFrame(workspace) = Cells(f) /\ Cells(f) \in Seq(CellSet)
        /\ Genuine(FirstFrame(workspace)) /\ workspace[1].of = f
        /\ Behind(workspace) = SubSeq(sent, q + 1, Len(sent))
    BY <1>1, <2>1, FrontFrame DEF At
  <2>4. f.verdict = "converted"
    BY <1>1, <2>3
  <2>5. q \in Starts(sent) /\ Done(Append(dest, Cells(f)), sent, q)
    BY <2>1, <2>2, <2>3, <2>4, DoneNext DEF At
  <2> HIDE DEF f, q
  <2>6. \E k \in Starts(sent) :
          workspace' = SubSeq(sent, k + 1, Len(sent)) /\ Done(dest', sent, k)
    BY <1>1, <2>3, <2>5
  <2> QED
    BY <1>1, <2>1, <2>6 DEF At, Told
<1> QED
  BY <1>2, <1>3, <1>4, <1>5 DEF Inv

LEMMA UnchangedStep ==
  ASSUME Inv, UNCHANGED vars
  PROVE  Inv'
<1>1. /\ workspace' = workspace /\ synced' = synced /\ phase' = phase /\ dest' = dest
      /\ result' = result /\ begun' = begun /\ gap' = gap /\ sent' = sent /\ wasInStep' = wasInStep
  BY DEF vars
<1>2. Typed' /\ BegunOK' /\ Told'
  BY <1>1 DEF Inv, Typed, BegunOK, Told, Left, Opening
<1>3. StaysInStep'
  BY <1>1 DEF Inv, StaysInStep, InStep, Genuine, Ends, RefusedAhead, FramesOf
<1> QED
  BY <1>2, <1>3 DEF Inv

-----------------------------------------------------------------------------
LEMMA Invariant == Spec => []Inv
<1>1. Init => Inv
  BY InitInv
<1>2. Inv /\ [Next]_vars => Inv'
  <2> SUFFICES ASSUME Inv, [Next]_vars
               PROVE  Inv'
    OBVIOUS
  <2>1. ASSUME Comes
        PROVE  Inv'
    BY <2>1, ReceiveStep DEF Comes
  <2>2. ASSUME Lost
        PROVE  Inv'
    BY <2>2, LoseStep DEF Lost
  <2>3. ASSUME Parse
        PROVE  Inv'
    BY <2>3, LoseSyncStep, RefuseHeaderStep, FinishStep, RefuseStep, ConvertStep DEF Parse
  <2>4. ASSUME UNCHANGED vars
        PROVE  Inv'
    BY <2>4, UnchangedStep
  <2> QED
    BY <2>1, <2>2, <2>3, <2>4 DEF Next
<1> QED
  BY <1>1, <1>2, PTL DEF Spec

\* Whatever the source sends and loses, between PES the workspace is empty or begins with 0xff and
\* holds no whole frame, and has more than that byte only when it is known to begin a frame
\* (the assertions of SyncPayload and SkipPayload).
THEOREM TypesHold == Spec => []TypeOK
<1>1. Inv => TypeOK
  BY InvTypeOK
<1> QED
  BY <1>1, Invariant, PTL

\* Wherever the frames are cut, no byte is lost or taken twice between the PES, and each PES is
\* converted into just the frames it completes, or passed on when one of them cannot be
\* (TransmuxDualMono, TransmuxMonoToStereo).
THEOREM FramesStayInStep == Spec => []StaysInStep
<1>1. Inv => StaysInStep
  BY DEF Inv
<1> QED
  BY <1>1, Invariant, PTL

\* Another frame is taken from the workspace.
FrameTaken ==
  phase = "frames" /\ phase' = "frames" => Len(workspace') + HeaderLen <= Len(workspace)

\* The loop over the frames ends: as long as it goes on, each step takes a header's length at
\* least from the workspace, also where bytes are taken for a frame that are none.
THEOREM FramesAreUsedUp == Spec => [][FrameTaken]_vars
<1>1. Inv /\ [Next]_vars => FrameTaken \/ UNCHANGED vars
  <2> SUFFICES ASSUME Inv, Next, phase = "frames", phase' = "frames"
               PROVE  Len(workspace') + HeaderLen <= Len(workspace)
    BY DEF FrameTaken
  <2>1. ~(Comes \/ Lost)
    BY DEF Comes, Lost, Receive, Lose
  <2>2. ~(LoseSync \/ RefuseHeader \/ Finish \/ Refuse)
    BY DEF LoseSync, RefuseHeader, Finish, Refuse, Return
  <2>3. Whole(workspace) /\ workspace' = Behind(workspace)
    BY <2>1, <2>2 DEF Next, Parse, Convert
  <2>4. workspace \in Seq(CellSet)
    BY WorkspaceTyped
  <2>5. /\ FrameLen(workspace[2]) \in Nat /\ HeaderLen <= FrameLen(workspace[2])
        /\ Len(Behind(workspace)) = Len(workspace) - FrameLen(workspace[2])
    BY <2>3, <2>4, WholeIs
  <2>6. Len(workspace) \in Nat /\ HeaderLen \in Nat
    BY <2>4, LenProperties, StreamAssumption DEF StreamAssumption
  <2> QED
    BY <2>3, <2>5, <2>6
<1> QED
  BY <1>1, Invariant, PTL DEF Spec

-----------------------------------------------------------------------------
(* Stretches of bits.                                                      *)

\* A bit is 0, 1 or one of the frame.
BitSet == Int
Bytes == [1 .. 8 -> BitSet]

\* Sequences of bits, by their length and what they have at each place
IsBits(s, n) == s \in Seq(BitSet) /\ Len(s) = n

LEMMA SameBits ==
  ASSUME NEW n \in Nat, NEW s, IsBits(s, n), NEW t, IsBits(t, n), \A i \in 1 .. n : s[i] = t[i]
  PROVE  s = t
BY SeqEqual DEF IsBits

LEMMA FunctionBits ==
  ASSUME NEW n \in Nat, NEW s \in [1 .. n -> BitSet]
  PROVE  IsBits(s, n)
BY DEF IsBits

LEMMA ConstantBits ==
  ASSUME NEW n \in Nat
  PROVE  /\ IsBits(Zeros(n), n) /\ \A i \in 1 .. n : Zeros(n)[i] = 0
         /\ IsBits(Ones(n), n) /\ \A i \in 1 .. n : Ones(n)[i] = 1
BY DEF Zeros, Ones, IsBits, BitSet

LEMMA BitsAre ==
  ASSUME NEW from \in Nat, NEW n \in Nat
  PROVE  /\ IsBits(Bits(from, n), n)
         /\ \A i \in 1 .. n : Bits(from, n)[i] = from + i + 1 /\ Bits(from, n)[i] # 0
BY DEF Bits, IsBits, BitSet

IsJoin(u, m, s, n, t) ==
  /\ IsBits(u, m + n)
  /\ \A i \in 1 .. m : u[i] = s[i]
  /\ \A i \in 1 .. n : u[m + i] = t[i]

LEMMA JoinedBits ==
  ASSUME NEW m \in Nat, NEW n \in Nat, NEW s, IsBits(s, m), NEW t, IsBits(t, n)
  PROVE  IsJoin(s \o t, m, s, n, t)
BY DEF IsBits, IsJoin

JoinsOver(r, s, t) == (r \o s) \o t = r \o (s \o t)

LEMMA JoinedThrice ==
  ASSUME NEW r \in Seq(BitSet), NEW s \in Seq(BitSet), NEW t \in Seq(BitSet)
  PROVE  JoinsOver(r, s, t)
BY DEF JoinsOver

LEMMA JoinLength ==
  ASSUME NEW r \in Seq(BitSet), NEW s \in Seq(BitSet)
  PROVE  r \o s \in Seq(BitSet) /\ Len(r \o s) = Len(r) + Len(s)
OBVIOUS

StretchesJoin(from, m, n) == Bits(from, m) \o Bits(from + m, n) = Bits(from, m + n)

\* Two stretches of which one begins where the other ends
LEMMA BitsJoin ==
  ASSUME NEW from \in Nat, NEW m \in Nat, NEW n \in Nat
  PROVE  StretchesJoin(from, m, n)
<1> DEFINE s == Bits(from, m)
           t == Bits(from + m, n)
           u == Bits(from, m + n)
<1>1. /\ IsBits(s, m) /\ IsBits(t, n) /\ IsBits(u, m + n) /\ from + m \in Nat /\ m + n \in Nat
      /\ \A i \in 1 .. m : s[i] = from + i + 1
      /\ \A i \in 1 .. n : t[i] = from + m + i + 1
      /\ \A i \in 1 .. m + n : u[i] = from + i + 1
  BY BitsAre
<1> HIDE DEF s, t, u
<1> DEFINE w == s \o t
<1>2. IsJoin(w, m, s, n, t)
  BY <1>1, JoinedBits
<1> HIDE DEF w
<1>3. ASSUME NEW i \in 1 .. m + n
      PROVE  w[i] = u[i]
  <2>1. CASE i <= m
    <3>1. i \in 1 .. m
      BY <2>1
    <3> QED
      BY <1>1, <1>2, <3>1 DEF IsJoin
  <2>2. CASE ~(i <= m)
    <3> DEFINE k == i - m
    <3>1. k \in 1 .. n /\ m + k = i
      BY <2>2
    <3> HIDE DEF k
    <3>2. w[m + k] = t[k] /\ t[k] = from + m + k + 1
      BY <1>1, <1>2, <3>1 DEF IsJoin
    <3>3. from + m + k + 1 = from + i + 1
      BY <3>1
    <3> QED
      BY <1>1, <3>1, <3>2, <3>3
  <2> QED
    BY <2>1, <2>2
<1>4. w = u
  BY <1>1, <1>2, <1>3, SameBits DEF IsJoin
<1> QED
  BY <1>4 DEF w, s, t, u, StretchesJoin

\* So many ones, or zeros, behind each other
LEMMA ConstantJoin ==
  ASSUME NEW m \in Nat, NEW n \in Nat
  PROVE  Zeros(m) \o Zeros(n) = Zeros(m + n) /\ Ones(m) \o Ones(n) = Ones(m + n)
<1>1. m + n \in Nat
  OBVIOUS
<1> DEFINE a == Zeros(m) \o Zeros(n)
           b == Ones(m) \o Ones(n)
<1>2. /\ IsBits(a, m + n) /\ IsBits(b, m + n)
      /\ \A i \in 1 .. m : a[i] = 0 /\ b[i] = 1
      /\ \A i \in 1 .. n : a[m + i] = 0 /\ b[m + i] = 1
  <2>1. /\ IsBits(Zeros(m), m) /\ IsBits(Zeros(n), n) /\ IsBits(Ones(m), m) /\ IsBits(Ones(n), n)
        /\ \A i \in 1 .. m : Zeros(m)[i] = 0 /\ Ones(m)[i] = 1
        /\ \A i \in 1 .. n : Zeros(n)[i] = 0 /\ Ones(n)[i] = 1
    BY ConstantBits
  <2>2. IsJoin(a, m, Zeros(m), n, Zeros(n)) /\ IsJoin(b, m, Ones(m), n, Ones(n))
    BY <2>1, JoinedBits
  <2> QED
    BY <2>1, <2>2 DEF IsJoin
<1> HIDE DEF a, b
<1>3. ASSUME NEW i \in 1 .. m + n
      PROVE  a[i] = 0 /\ b[i] = 1
  <2>1. i \in 1 .. m \/ (i - m \in 1 .. n /\ m + (i - m) = i)
    OBVIOUS
  <2> QED
    BY <1>2, <2>1
<1>4. a = Zeros(m + n) /\ b = Ones(m + n)
  BY <1>1, <1>2, <1>3, ConstantBits, SameBits
<1> QED
  BY <1>4 DEF a, b

-----------------------------------------------------------------------------
(* Bytes.                                                                  *)

LEMMA ByteIs ==
  ASSUME NEW b, IsBits(b, 8)
  PROVE  b \in Bytes /\ BitsOf(<<b>>) = b
<1>1. b \in Seq(BitSet) /\ Len(b) = 8 /\ DOMAIN b = 1 .. 8
  BY DEF IsBits
<1>2. b \in Bytes
  <2>1. b \in [1 .. Len(b) -> BitSet]
    BY <1>1, LenProperties
  <2> QED
    BY <1>1, <2>1 DEF Bytes
<1> DEFINE t == BitsOf(<<b>>)
<1>3. t = [i \in 1 .. 8 |-> b[((i - 1) % 8) + 1]]
  <2>1. Len(<<b>>) = 1 /\ <<b>>[1] = b /\ 8 * 1 = 8
    OBVIOUS
  <2>2. \A i \in 1 .. 8 : (i + 7) \div 8 = 1
    OBVIOUS
  <2>3. t = [i \in 1 .. 8 |-> <<b>>[(i + 7) \div 8][((i - 1) % 8) + 1]]
    BY <2>1 DEF BitsOf
  <2> HIDE DEF t
  <2>4. \A i \in 1 .. 8 : <<b>>[(i + 7) \div 8] = b
    BY <2>1, <2>2
  <2> QED
    BY <2>3, <2>4
<1> HIDE DEF t
<1>4. \A i \in 1 .. 8 : ((i - 1) % 8) + 1 = i
  OBVIOUS
<1>5. t = [i \in 1 .. 8 |-> b[i]]
  BY <1>3, <1>4
<1>6. b = [i \in 1 .. 8 |-> b[i]]
  BY <1>2 DEF Bytes
<1> QED
  BY <1>2, <1>5, <1>6 DEF t

LEMMA BitsOfAre ==
  ASSUME NEW s \in Seq(Bytes)
  PROVE  /\ IsBits(BitsOf(s), 8 * Len(s))
         /\ \A i \in 1 .. 8 * Len(s) : BitsOf(s)[i] = s[(i + 7) \div 8][((i - 1) % 8) + 1]
<1> DEFINE n == Len(s)
<1>1. n \in Nat /\ 8 * n \in Nat /\ \A k \in 1 .. n : s[k] \in Bytes
  OBVIOUS
<1> HIDE DEF n
<1>2. \A i \in 1 .. 8 * n : (i + 7) \div 8 \in 1 .. n /\ ((i - 1) % 8) + 1 \in 1 .. 8
  BY <1>1
<1>3. \A i \in 1 .. 8 * n : s[(i + 7) \div 8][((i - 1) % 8) + 1] \in BitSet
  BY <1>1, <1>2 DEF Bytes
<1>4. BitsOf(s) = [i \in 1 .. 8 * n |-> s[(i + 7) \div 8][((i - 1) % 8) + 1]]
  BY DEF BitsOf, n
<1>5. BitsOf(s) \in [1 .. 8 * n -> BitSet]
  BY <1>3, <1>4
<1>6. IsBits(BitsOf(s), 8 * n)
  BY <1>1, <1>5 DEF IsBits
<1> QED
  BY <1>4, <1>6 DEF n

LEMMA BitsOfJoined ==
  ASSUME NEW s \in Seq(Bytes), NEW t \in Seq(Bytes)
  PROVE  BitsOf(s \o t) = BitsOf(s) \o BitsOf(t)
<1> DEFINE m == Len(s)
           n == Len(t)
           u == s \o t
           a == BitsOf(s)
           b == BitsOf(t)
           c == BitsOf(u)
           d == a \o b
<1>1. /\ m \in Nat /\ n \in Nat /\ u \in Seq(Bytes) /\ Len(u) = m + n
      /\ \A k \in 1 .. m : u[k] = s[k]
      /\ \A k \in 1 .. n : u[m + k] = t[k]
  OBVIOUS
<1>2. IsBits(a, 8 * m) /\ \A i \in 1 .. 8 * m : a[i] = s[(i + 7) \div 8][((i - 1) % 8) + 1]
  BY BitsOfAre
<1>3. IsBits(b, 8 * n) /\ \A i \in 1 .. 8 * n : b[i] = t[(i + 7) \div 8][((i - 1) % 8) + 1]
  BY BitsOfAre
<1> HIDE DEF u
<1>4. IsBits(c, 8 * (m + n)) /\ \A i \in 1 .. 8 * (m + n) : c[i] = u[(i + 7) \div 8][((i - 1) % 8) + 1]
  BY <1>1, BitsOfAre
<1> HIDE DEF m, n, a, b, c
<1>5. 8 * m \in Nat /\ 8 * n \in Nat /\ 8 * (m + n) = 8 * m + 8 * n
  BY <1>1
<1>6. IsJoin(d, 8 * m, a, 8 * n, b)
  BY <1>2, <1>3, <1>5, JoinedBits
<1> HIDE DEF d
<1>7. ASSUME NEW i \in 1 .. 8 * m + 8 * n
      PROVE  c[i] = d[i]
  <2>1. CASE i <= 8 * m
    <3>1. i \in 1 .. 8 * m /\ (i + 7) \div 8 \in 1 .. m /\ i \in 1 .. 8 * (m + n)
      BY <1>1, <2>1
    <3>2. d[i] = a[i]
      BY <1>6, <3>1 DEF IsJoin
    <3>3. a[i] = s[(i + 7) \div 8][((i - 1) % 8) + 1]
      BY <1>2, <3>1
    <3>4. c[i] = u[(i + 7) \div 8][((i - 1) % 8) + 1]
      BY <1>4, <3>1
    <3>5. u[(i + 7) \div 8] = s[(i + 7) \div 8]
      BY <1>1, <3>1
    <3> QED
      BY <3>2, <3>3, <3>4, <3>5
  <2>2. CASE ~(i <= 8 * m)
    <3> DEFINE k == i - 8 * m
    <3>1. /\ k \in 1 .. 8 * n /\ 8 * m + k = i /\ (k + 7) \div 8 \in 1 .. n /\ i \in 1 .. 8 * (m + n)
          /\ (i + 7) \div 8 = m + ((k + 7) \div 8) /\ (i - 1) % 8 = (k - 1) % 8
      BY <1>1, <2>2
    <3> HIDE DEF k
    <3>2. u[(i + 7) \div 8] = t[(k + 7) \div 8]
      BY <1>1, <3>1
    <3>3. c[i] = t[(k + 7) \div 8][((k - 1) % 8) + 1]
      BY <1>4, <3>1, <3>2
    <3>4. d[i] = b[k] /\ b[k] = t[(k + 7) \div 8][((k - 1) % 8) + 1]
      BY <1>3, <1>6, <3>1 DEF IsJoin
    <3> QED
      BY <3>3, <3>4
  <2> QED
    BY <2>1, <2>2
<1>8. c = d
  <2>1. IsBits(c, 8 * m + 8 * n) /\ IsBits(d, 8 * m + 8 * n) /\ 8 * m + 8 * n \in Nat
    BY <1>4, <1>5, <1>6 DEF IsJoin
  <2> QED
    BY <1>7, <2>1, SameBits
<1> QED
  BY <1>8 DEF a, b, c, d, u

\* What two bytes have at their ends is put together.
LEMMA SharedByte ==
  ASSUME NEW n \in 0 .. 8, NEW a, IsBits(a, n), NEW b, IsBits(b, 8 - n)
  PROVE  Or(a \o Zeros(8 - n), Zeros(n) \o b) = a \o b
<1> DEFINE x == a \o Zeros(8 - n)
           y == Zeros(n) \o b
           z == a \o b
           o == Or(x, y)
           l == 8 - n
<1>1. n \in Nat /\ l \in Nat /\ n + l = 8 /\ \A i \in 1 .. 8 : i \in 1 .. n \/ (i - n \in 1 .. l /\ n + (i - n) = i)
  OBVIOUS
<1>2. /\ IsBits(Zeros(l), l) /\ \A i \in 1 .. l : Zeros(l)[i] = 0
      /\ IsBits(Zeros(n), n) /\ \A i \in 1 .. n : Zeros(n)[i] = 0
  BY <1>1, ConstantBits
<1> HIDE DEF l
<1>3. IsBits(b, l)
  BY DEF l
<1>4. x = a \o Zeros(l)
  BY DEF l
<1>5. /\ IsBits(x, n + l)
      /\ \A i \in 1 .. n : x[i] = a[i]
      /\ \A i \in 1 .. l : x[n + i] = 0
  <2>1. IsJoin(a \o Zeros(l), n, a, l, Zeros(l))
    BY <1>1, <1>2, JoinedBits
  <2> QED
    BY <1>2, <1>4, <2>1 DEF IsJoin
<1>6. /\ IsBits(y, n + l)
      /\ \A i \in 1 .. n : y[i] = 0
      /\ \A i \in 1 .. l : y[n + i] = b[i]
  <2>1. IsJoin(y, n, Zeros(n), l, b)
    BY <1>1, <1>2, <1>3, JoinedBits
  <2> QED
    BY <1>2, <2>1 DEF IsJoin
<1>7. /\ IsBits(z, n + l)
      /\ \A i \in 1 .. n : z[i] = a[i]
      /\ \A i \in 1 .. l : z[n + i] = b[i]
  <2>1. IsJoin(z, n, a, l, b)
    BY <1>1, <1>3, JoinedBits
  <2> QED
    BY <2>1 DEF IsJoin
<1>8. o = [i \in 1 .. 8 |-> IF x[i] = 0 THEN y[i] ELSE IF y[i] = 0 THEN x[i] ELSE -1]
  BY DEF Or
<1> HIDE DEF x, y, z, o
<1>9. ASSUME NEW i \in 1 .. 8
      PROVE  o[i] = z[i]
  <2>1. CASE i \in 1 .. n
    BY <1>5, <1>6, <1>7, <1>8, <2>1
  <2>2. CASE i - n \in 1 .. l /\ n + (i - n) = i
    BY <1>5, <1>6, <1>7, <1>8, <2>2
  <2> QED
    BY <1>1, <2>1, <2>2
<1>10. IsBits(o, 8)
  <2>1. z \in Seq(BitSet) /\ Len(z) = 8
    BY <1>1, <1>7 DEF IsBits
  <2>2. \A i \in 1 .. 8 : z[i] \in BitSet
    <3>1. \A i \in 1 .. Len(z) : z[i] \in BitSet
      BY <2>1, ElementOfSeq
    <3> QED
      BY <2>1, <3>1
  <2>3. o \in [1 .. 8 -> BitSet]
    BY <1>8, <1>9, <2>2
  <2> QED
    <3>1. 8 \in Nat
      OBVIOUS
    <3> QED
      BY <2>3, <3>1, FunctionBits
<1>11. o = z
  BY <1>1, <1>7, <1>9, <1>10, SameBits
<1> QED
  BY <1>11 DEF o, x, y, z

\* The whole bytes of a stretch of bits
LEMMA WholeBytesAre ==
  ASSUME NEW from \in Nat, NEW to \in Nat, from <= to, NEW q, q = (to - from) \div 8
  PROVE  /\ q \in Nat /\ WholeBytes(from, to) \in Seq(Bytes) /\ Len(WholeBytes(from, to)) = q
         /\ BitsOf(WholeBytes(from, to)) = Bits(from, 8 * q)
<1> DEFINE w == WholeBytes(from, to)
           t == Bits(from, 8 * q)
<1>1. q \in Nat /\ 8 * q \in Nat
  OBVIOUS
<1>2. w = [k \in 1 .. q |-> Bits(from + 8 * (k - 1), 8)]
  BY DEF WholeBytes
<1>3. ASSUME NEW k \in 1 .. q
      PROVE  /\ Bits(from + 8 * (k - 1), 8) \in Bytes
             /\ \A j \in 1 .. 8 : Bits(from + 8 * (k - 1), 8)[j] = from + 8 * (k - 1) + j + 1
  <2>1. from + 8 * (k - 1) \in Nat /\ 8 \in Nat
    BY <1>1
  <2>2. /\ IsBits(Bits(from + 8 * (k - 1), 8), 8)
        /\ \A j \in 1 .. 8 : Bits(from + 8 * (k - 1), 8)[j] = from + 8 * (k - 1) + j + 1
    BY <2>1, BitsAre
  <2> QED
    BY <2>2, ByteIs
<1>4. w \in [1 .. q -> Bytes]
  BY <1>2, <1>3
<1>5. w \in Seq(Bytes) /\ Len(w) = q
  BY <1>1, <1>4
<1>6. IsBits(t, 8 * q) /\ \A i \in 1 .. 8 * q : t[i] = from + i + 1
  BY <1>1, BitsAre
<1> DEFINE u == BitsOf(w)
<1> HIDE DEF w, t
<1>7. IsBits(u, 8 * q) /\ \A i \in 1 .. 8 * q : u[i] = w[(i + 7) \div 8][((i - 1) % 8) + 1]
  BY <1>5, BitsOfAre
<1> HIDE DEF u
<1>8. ASSUME NEW i \in 1 .. 8 * q
      PROVE  u[i] = t[i]
  <2> DEFINE k == (i + 7) \div 8
             j == ((i - 1) % 8) + 1
  <2>1. k \in 1 .. q /\ j \in 1 .. 8 /\ 8 * (k - 1) + j = i /\ i \in Int
    BY <1>1
  <2>2. u[i] = w[k][j] /\ t[i] = from + i + 1
    BY <1>6, <1>7
  <2> HIDE DEF k, j
  <2>3. w[k][j] = from + 8 * (k - 1) + j + 1
    BY <1>2, <1>3, <2>1
  <2>4. from + 8 * (k - 1) + j + 1 = from + i + 1
    BY <1>1, <2>1
  <2> QED
    BY <2>2, <2>3, <2>4
<1>9. u = t
  BY <1>1, <1>6, <1>7, <1>8, SameBits
<1> QED
  BY <1>1, <1>5, <1>9 DEF u, t, w
LEMMA JoinIs ==
  ASSUME NEW m \in Nat, NEW n \in Nat, NEW s, IsBits(s, m), NEW t, IsBits(t, n)
  PROVE  IsBits(s \o t, m + n)
BY JoinedBits DEF IsJoin

-----------------------------------------------------------------------------
(* The rest of a channel and the end element.                              *)

LEMMA HighIs ==
  ASSUME NEW n \in Nat, NEW s, IsBits(s, n)
  PROVE  High(s) = s \o Zeros(8 - n)
BY DEF High, IsBits

Fill(n) == (8 - (n % 8)) % 8

Ending(from, to) == Bits(from, to - from) \o (Ones(3) \o Zeros(Fill(to - from + 3)))

LEMMA EndingBits ==
  ASSUME NEW from \in Nat, NEW to \in Nat, from <= to
  PROVE  /\ Fill(to - from + 3) \in Nat /\ to - from \in Nat
         /\ IsBits(Bits(from, to - from), to - from)
         /\ IsBits(Ones(3) \o Zeros(Fill(to - from + 3)), 3 + Fill(to - from + 3))
         /\ IsBits(Ending(from, to), to - from + (3 + Fill(to - from + 3)))
<1> DEFINE f == Fill(to - from + 3)
           m == to - from
<1>1. f \in Nat /\ m \in Nat /\ 3 \in Nat /\ 3 + f \in Nat
  BY DEF Fill
<1> DEFINE t == Ones(3) \o Zeros(f)
           b == Bits(from, m)
<1> HIDE DEF f, m
<1>2. IsBits(Ones(3), 3) /\ IsBits(Zeros(f), f) /\ IsBits(b, m)
  BY <1>1, ConstantBits, BitsAre
<1>3. IsBits(t, 3 + f)
  BY <1>1, <1>2, JoinIs
<1> HIDE DEF t, b
<1>4. IsBits(b \o t, m + (3 + f))
  BY <1>1, <1>2, <1>3, JoinIs
<1> QED
  BY <1>1, <1>2, <1>3, <1>4 DEF Ending, t, b, f, m

\* The end element begins in the byte of the bits that remain, and ends in it or in the next.
LEMMA RestIs ==
  ASSUME NEW from \in Nat, NEW to \in Nat, from <= to
  PROVE  RestAndEnd(from, to) \in Seq(Bytes) /\ BitsOf(RestAndEnd(from, to)) = Ending(from, to)
<1> DEFINE q == (to - from) \div 8
           n == (to - from) % 8
           fit == IF n < 6 THEN 3 ELSE 8 - n
           W == WholeBytes(from, to)
           A == Bits(from, 8 * q)
           B == Bits(to - n, n)
           m == to - from
           f == Fill(m + 3)
           all == Bits(from, m)
           rest == RestAndEnd(from, to)
<1>1. q \in Nat /\ W \in Seq(Bytes) /\ BitsOf(W) = A
  BY WholeBytesAre
<1>2. /\ n \in 0 .. 7 /\ m = 8 * q + n /\ to - n = from + 8 * q /\ to - n \in Nat /\ n \in Nat /\ m \in Nat
      /\ 8 * q \in Nat
  OBVIOUS
<1>3. f = IF n < 6 THEN 5 - n ELSE 13 - n
  <2>1. (m + 3) % 8 = IF n < 5 THEN n + 3 ELSE n - 5
    <3> HIDE DEF n, q, m
    <3> QED
      BY <1>1, <1>2
  <2> QED
    BY <1>2, <2>1 DEF Fill
<1>4. /\ fit \in 1 .. 3 /\ fit \in Nat /\ 8 - n - fit \in Nat
      /\ n < 6 => fit = 3 /\ 8 - n - fit = f
      /\ n >= 6 => fit < 3 /\ 8 - n - fit = 0 /\ 3 - fit \in Nat /\ fit + (3 - fit) = 3
                   /\ 8 - (3 - fit) = f /\ f \in Nat
  BY <1>2, <1>3
<1>5. rest = (W \o (IF n = 0 THEN << >>
                    ELSE <<Or(High(B), (Zeros(n) \o Ones(fit)) \o Zeros(8 - n - fit))>>))
               \o (IF n = 0 THEN <<High(Ones(3))>> ELSE IF fit < 3 THEN <<High(Ones(3 - fit))>> ELSE << >>)
  BY DEF RestAndEnd, Remain
<1>6. Ending(from, to) = all \o (Ones(3) \o Zeros(f))
  BY DEF Ending
<1> HIDE DEF fit, f, rest, W
<1>7. IsBits(A, 8 * q) /\ IsBits(B, n) /\ (\A i \in 1 .. n : B[i] # 0) /\ A \o B = all
  <2>1. IsBits(A, 8 * q) /\ IsBits(B, n) /\ \A i \in 1 .. n : B[i] # 0
    <3> HIDE DEF n, q
    <3> QED
      BY <1>2, BitsAre
  <2>2. Bits(from, 8 * q) \o Bits(from + 8 * q, n) = Bits(from, 8 * q + n)
    <3> HIDE DEF n, q
    <3>1. StretchesJoin(from, 8 * q, n)
      BY <1>2, BitsJoin
    <3> QED
      BY <3>1 DEF StretchesJoin
  <2> QED
    BY <1>2, <2>1, <2>2
<1> HIDE DEF q, A, B, all, m
<1>8. CASE n = 0
  <2> DEFINE e == High(Ones(3))
             z == Ones(3) \o Zeros(5)
  <2>1. IsBits(Ones(3), 3) /\ IsBits(Zeros(5), 5) /\ 3 \in Nat /\ 5 \in Nat /\ 3 + 5 = 8
    BY ConstantBits
  <2>2. e = z /\ f = 5
    <3>1. e = Ones(3) \o Zeros(8 - 3) /\ 8 - 3 = 5
      BY <2>1, HighIs
    <3>2. f = 5
      BY <1>3, <1>8
    <3> QED
      BY <3>1, <3>2
  <2>3. IsBits(z, 8)
    BY <2>1, JoinIs
  <2> HIDE DEF e, z
  <2>4. z \in Bytes /\ BitsOf(<<z>>) = z
    BY <2>3, ByteIs
  <2>5. rest = W \o <<z>> /\ <<z>> \in Seq(Bytes) /\ rest \in Seq(Bytes)
    <3>1. rest = (W \o << >>) \o <<e>>
      BY <1>5, <1>8 DEF e
    <3>2. W \o << >> = W
      BY <1>1
    <3> QED
      BY <1>1, <2>2, <2>4, <3>1, <3>2
  <2>6. BitsOf(rest) = A \o z
    BY <1>1, <2>4, <2>5, BitsOfJoined
  <2>7. all = A
    <3>1. 8 * q = m
      BY <1>2, <1>8 DEF q, m
    <3> QED
      BY <3>1 DEF all, A
  <2> QED
    BY <1>6, <2>2, <2>5, <2>6, <2>7 DEF z, rest
<1>9. ASSUME n # 0
      PROVE  LET x == B \o (Ones(fit) \o Zeros(8 - n - fit))
             IN  /\ IsBits(x, 8) /\ IsBits(Ones(fit), fit) /\ IsBits(Zeros(8 - n - fit), 8 - n - fit)
                 /\ IsBits(Ones(fit) \o Zeros(8 - n - fit), 8 - n)
                 /\ Or(High(B), (Zeros(n) \o Ones(fit)) \o Zeros(8 - n - fit)) = x
  <2> DEFINE o == Ones(fit)
             z == Zeros(8 - n - fit)
             y == o \o z
             k == 8 - n - fit
  <2>1. /\ IsBits(o, fit) /\ IsBits(Zeros(k), k) /\ IsBits(Zeros(n), n) /\ k \in Nat
        /\ fit + k = 8 - n /\ n + (8 - n) = 8 /\ 8 - n \in Nat /\ n \in 0 .. 8
    BY <1>2, <1>4, ConstantBits
  <2>2. z = Zeros(k)
    OBVIOUS
  <2> HIDE DEF o, z, k
  <2>3. IsBits(y, 8 - n)
    BY <1>4, <2>1, <2>2, JoinIs
  <2>4. (Zeros(n) \o o) \o z = Zeros(n) \o (o \o z)
    <3>1. Zeros(n) \in Seq(BitSet) /\ o \in Seq(BitSet) /\ z \in Seq(BitSet)
      BY <2>1, <2>2 DEF IsBits
    <3> HIDE DEF n
    <3> QED
      <4>1. JoinsOver(Zeros(n), o, z)
        BY <3>1, JoinedThrice
      <4> QED
        BY <4>1 DEF JoinsOver
  <2>5. High(B) = B \o Zeros(8 - n)
    BY <1>7 DEF High, IsBits
  <2> HIDE DEF y
  <2>6. Or(B \o Zeros(8 - n), Zeros(n) \o y) = B \o y
    BY <1>7, <2>1, <2>3, SharedByte
  <2>7. IsBits(B \o y, 8)
    BY <1>2, <1>7, <2>1, <2>3, JoinIs
  <2> QED
    BY <2>1, <2>2, <2>3, <2>4, <2>5, <2>6, <2>7 DEF o, z, y, k
<1>10. CASE n # 0
  <2> DEFINE y == Ones(fit) \o Zeros(8 - n - fit)
             x == B \o y
             b == Or(High(B), (Zeros(n) \o Ones(fit)) \o Zeros(8 - n - fit))
  <2>1. /\ IsBits(x, 8) /\ b = x /\ IsBits(Ones(fit), fit) /\ IsBits(y, 8 - n)
        /\ IsBits(Zeros(8 - n - fit), 8 - n - fit) /\ 8 - n \in Nat
    <3>1. 8 - n \in Nat
      BY <1>2
    <3> QED
      BY <1>9, <1>10, <3>1
  <2>2. rest = (W \o <<b>>) \o (IF fit < 3 THEN <<High(Ones(3 - fit))>> ELSE << >>)
    BY <1>5, <1>10
  <2> HIDE DEF b, x, y
  <2>3. A \o (B \o y) = all \o y
    <3>1. A \in Seq(BitSet) /\ B \in Seq(BitSet) /\ y \in Seq(BitSet)
      BY <1>7, <2>1 DEF IsBits
    <3>2. (A \o B) \o y = A \o (B \o y)
      <4>1. JoinsOver(A, B, y)
        BY <3>1, JoinedThrice
      <4> QED
        BY <4>1 DEF JoinsOver
    <3> QED
      BY <1>7, <3>2
  <2>4. x \in Bytes /\ BitsOf(<<x>>) = x
    BY <2>1, ByteIs
  <2> DEFINE V == W \o <<x>>
  <2>5. V \in Seq(Bytes) /\ <<x>> \in Seq(Bytes)
    BY <1>1, <2>4
  <2>6. BitsOf(V) = all \o y
    <3>1. BitsOf(V) = A \o x
      BY <1>1, <2>4, <2>5, BitsOfJoined
    <3> QED
      BY <2>3, <3>1 DEF x
  <2> HIDE DEF V
  <2>7. CASE n < 6
    <3>1. rest = V \o << >>
      BY <1>4, <2>1, <2>2, <2>7 DEF V
    <3>2. V \o << >> = V
      BY <2>5
    <3>3. y = Ones(3) \o Zeros(f)
      BY <1>4, <2>7 DEF y
    <3> QED
      BY <1>6, <2>5, <2>6, <3>1, <3>2, <3>3 DEF rest
  <2>8. CASE n >= 6
    <3> DEFINE e == High(Ones(3 - fit))
               g == 3 - fit
               z == Ones(g) \o Zeros(f)
    <3>1. /\ g \in Nat /\ f \in Nat /\ fit + g = 3 /\ g + f = 8 /\ 8 - g = f /\ 8 - n = fit /\ 8 - n - fit = 0
          /\ IsBits(Ones(g), g) /\ IsBits(Zeros(f), f)
      <4>1. /\ g \in Nat /\ f \in Nat /\ fit + g = 3 /\ g + f = 8 /\ 8 - g = f /\ 8 - n = fit
            /\ 8 - n - fit = 0
        BY <1>2, <1>4, <2>8
      <4> HIDE DEF g
      <4> QED
        BY <4>1, ConstantBits
    <3>2. e = z
      <4>1. e = Ones(g) \o Zeros(8 - Len(Ones(g)))
        BY DEF High
      <4>2. Len(Ones(g)) = g
        BY <3>1 DEF IsBits
      <4> HIDE DEF e, g
      <4> QED
        BY <3>1, <4>1, <4>2
    <3> HIDE DEF g
    <3>3. IsBits(z, 8)
      BY <3>1, JoinIs
    <3>4. Ones(fit) \o z = Ones(3) \o Zeros(f)
      <4>0. Ones(fit) \in Seq(BitSet) /\ Ones(g) \in Seq(BitSet) /\ Zeros(f) \in Seq(BitSet)
        BY <2>1, <3>1 DEF IsBits
      <4>1. (Ones(fit) \o Ones(g)) \o Zeros(f) = Ones(fit) \o (Ones(g) \o Zeros(f))
        <5>1. JoinsOver(Ones(fit), Ones(g), Zeros(f))
          BY <4>0, JoinedThrice
        <5> QED
          BY <5>1 DEF JoinsOver
      <4>2. Ones(fit) \o Ones(g) = Ones(fit + g)
        BY <1>4, <3>1, ConstantJoin
      <4> QED
        BY <3>1, <4>1, <4>2
    <3> HIDE DEF e, z
    <3>5. z \in Bytes /\ BitsOf(<<z>>) = z
      BY <3>3, ByteIs
    <3>6. rest = V \o <<z>> /\ <<z>> \in Seq(Bytes) /\ rest \in Seq(Bytes)
      <4>1. rest = V \o <<e>>
        BY <1>4, <2>1, <2>2, <2>8 DEF V, e
      <4> QED
        BY <2>5, <3>2, <3>5, <4>1
    <3>7. BitsOf(rest) = (all \o y) \o z
      BY <2>5, <2>6, <3>5, <3>6, BitsOfJoined
    <3>8. y = Ones(fit)
      <4>1. Zeros(0) = << >>
        BY DEF Zeros
      <4>2. Ones(fit) \in Seq(BitSet)
        BY <2>1 DEF IsBits
      <4>3. y = Ones(fit) \o << >>
        BY <3>1, <4>1 DEF y
      <4> HIDE DEF fit
      <4> QED
        BY <4>2, <4>3, ConcatEmptySeq
    <3>9. (all \o y) \o z = all \o (y \o z)
      <4>1. all \in Seq(BitSet)
        BY <1>2, BitsAre DEF all, m, IsBits
      <4>2. y \in Seq(BitSet) /\ z \in Seq(BitSet)
        BY <2>1, <3>3 DEF IsBits
      <4> QED
        <5>1. JoinsOver(all, y, z)
          BY <4>1, <4>2, JoinedThrice
        <5> QED
          BY <5>1 DEF JoinsOver
    <3> QED
      BY <1>6, <3>4, <3>6, <3>7, <3>8, <3>9 DEF rest
  <2> QED
    BY <1>2, <2>7, <2>8
<1> QED
  BY <1>8, <1>10

-----------------------------------------------------------------------------
(* A block.                                                                *)

LEMMA PairHeader ==
  ASSUME NEW tag \in Nat
  PROVE  LET h == <<0, 0, 1>> \o (Bits(tag, 4) \o <<0>>)
         IN  /\ Or(High(<<0, 0, 1>>), Low(Bits(tag, 4) \o <<0>>)) = h
             /\ IsBits(h, 8) /\ h \in Bytes /\ BitsOf(<<h>>) = h
<1> DEFINE a == <<0, 0, 1>>
           b == Bits(tag, 4)
           c == <<0>>
           d == b \o c
           h == a \o d
<1>1. IsBits(a, 3) /\ IsBits(c, 1) /\ 3 \in Nat /\ 1 \in Nat /\ 4 \in Nat /\ 5 \in Nat
  BY DEF IsBits, BitSet
<1>2. IsBits(b, 4)
  BY <1>1, BitsAre
<1> HIDE DEF a, b, c
<1>3. IsBits(d, 5)
  BY <1>1, <1>2, JoinIs
<1> HIDE DEF d
<1>4. IsBits(h, 8)
  BY <1>1, <1>3, JoinIs
<1>5. High(a) = a \o Zeros(8 - 3)
  BY <1>1, HighIs
<1>6. Low(d) = Zeros(8 - 5) \o d
  BY <1>3 DEF Low, IsBits
<1>7. Or(High(a), Low(d)) = h
  <2>1. 8 - 5 = 3 /\ 8 - 3 = 5 /\ 3 \in 0 .. 8
    OBVIOUS
  <2>2. Or(a \o Zeros(8 - 3), Zeros(3) \o d) = a \o d
    BY <1>1, <1>3, <2>1, SharedByte
  <2> QED
    BY <1>5, <1>6, <2>1, <2>2
<1> HIDE DEF h
<1>8. h \in Bytes /\ BitsOf(<<h>>) = h
  BY <1>4, ByteIs
<1> QED
  BY <1>4, <1>7, <1>8 DEF a, b, c, d, h

\* A channel twice and the end element
Twice(from, to) ==
  Bits(from, to - from)
    \o (Bits(from, to - from) \o (Ones(3) \o Zeros(Fill(2 * (to - from) + 11))))

\* The two channels share a byte or not.
LEMMA TwiceIs ==
  ASSUME NEW pos \in Nat, NEW end \in Nat, end >= pos + 8
  PROVE  BothChannels(pos, end) \in Seq(Bytes) /\ BitsOf(BothChannels(pos, end)) = Twice(pos, end)
<1> DEFINE m == end - pos
           n == m % 8
           q == m \div 8
           W == WholeBytes(pos, end)
           A == Bits(pos, 8 * q)
           B == Bits(end - n, n)
           C == Bits(pos, m)
           f == Fill(2 * m + 11)
           E == Ones(3) \o Zeros(f)
           o == BothChannels(pos, end)
<1>1. q \in Nat /\ W \in Seq(Bytes) /\ BitsOf(W) = A
  BY WholeBytesAre
<1>2. /\ n \in 0 .. 7 /\ m = 8 * q + n /\ end - n = pos + 8 * q /\ end - n \in Nat /\ n \in Nat /\ m \in Nat
      /\ 8 * q \in Nat /\ 8 - n \in 1 .. 8 /\ pos + 8 - n \in Nat /\ pos + 8 - n <= end
      /\ end - (pos + 8 - n) = m - (8 - n) /\ m - (8 - n) \in Nat /\ 8 - n \in Nat
  OBVIOUS
<1>3. o = W \o IF n = 0 THEN RestAndEnd(pos, end)
               ELSE <<Or(High(B), Low(Bits(pos, 8 - n)))>> \o RestAndEnd(pos + 8 - n, end)
  BY DEF BothChannels, Remain
<1>4. Twice(pos, end) = C \o (C \o E)
  BY DEF Twice
<1>5. f \in Nat /\ f = Fill(m - (8 - n) + 3) /\ (n = 0 => f = Fill(m + 3))
  <2>1. (2 * m + 11) % 8 = (m - (8 - n) + 3) % 8 /\ (n = 0 => (2 * m + 11) % 8 = (m + 3) % 8)
    <3>1. 2 * m + 11 = 8 * (2 * q + 1) + (2 * n + 3)
      BY <1>1, <1>2
    <3>2. m - (8 - n) + 3 = 8 * (q - 1) + (2 * n + 3)
      BY <1>1, <1>2
    <3>3. m + 3 = 8 * q + (n + 3)
      BY <1>1, <1>2
    <3> HIDE DEF m, n, q
    <3> QED
      BY <1>1, <1>2, <3>1, <3>2, <3>3
  <2>2. (2 * m + 11) % 8 \in 0 .. 7
    <3> HIDE DEF m
    <3> QED
      BY <1>2
  <2> QED
    BY <2>1, <2>2 DEF Fill
<1> HIDE DEF o, W
<1>6. IsBits(A, 8 * q) /\ IsBits(B, n) /\ IsBits(C, m) /\ A \o B = C
  <2>1. IsBits(A, 8 * q) /\ IsBits(B, n) /\ IsBits(C, m)
    <3> HIDE DEF n, q, m
    <3> QED
      BY <1>2, BitsAre
  <2>2. Bits(pos, 8 * q) \o Bits(pos + 8 * q, n) = Bits(pos, 8 * q + n)
    <3> HIDE DEF n, q
    <3>1. StretchesJoin(pos, 8 * q, n)
      BY <1>2, BitsJoin
    <3> QED
      BY <3>1 DEF StretchesJoin
  <2> QED
    BY <1>2, <2>1, <2>2
<1>7. IsBits(Ones(3), 3) /\ IsBits(Zeros(f), f) /\ E \in Seq(BitSet)
  <2>1. 3 \in Nat
    OBVIOUS
  <2> HIDE DEF f
  <2>2. IsBits(Ones(3), 3) /\ IsBits(Zeros(f), f)
    BY <1>5, <2>1, ConstantBits
  <2> QED
    BY <2>2 DEF IsBits
<1>8. CASE n = 0
  <2> DEFINE R == RestAndEnd(pos, end)
  <2>1. R \in Seq(Bytes) /\ BitsOf(R) = Ending(pos, end)
    BY RestIs
  <2>2. Ending(pos, end) = C \o E
    BY <1>5, <1>8 DEF Ending
  <2> HIDE DEF R
  <2>3. o = W \o R /\ o \in Seq(Bytes)
    BY <1>1, <1>3, <1>8, <2>1 DEF R
  <2>4. BitsOf(o) = A \o (C \o E)
    BY <1>1, <2>1, <2>2, <2>3, BitsOfJoined
  <2>5. A = C
    BY <1>2, <1>8
  <2> QED
    BY <1>4, <2>3, <2>4, <2>5 DEF o
<1>9. CASE n # 0
  <2> DEFINE P == Bits(pos, 8 - n)
             Q == Bits(pos + 8 - n, m - (8 - n))
             x == B \o P
             y == Or(High(B), Low(P))
             R == RestAndEnd(pos + 8 - n, end)
  <2>1. R \in Seq(Bytes) /\ BitsOf(R) = Ending(pos + 8 - n, end)
    <3> DEFINE from == pos + 8 - n
    <3>1. from \in Nat /\ from <= end
      BY <1>2
    <3> HIDE DEF from
    <3>2. RestAndEnd(from, end) \in Seq(Bytes) /\ BitsOf(RestAndEnd(from, end)) = Ending(from, end)
      BY <3>1, RestIs
    <3> QED
      BY <3>2 DEF from
  <2>2. Ending(pos + 8 - n, end) = Q \o E
    BY <1>2, <1>5 DEF Ending
  <2>3. IsBits(P, 8 - n) /\ IsBits(Q, m - (8 - n)) /\ P \o Q = C
    <3> DEFINE k == 8 - n
               l == m - (8 - n)
    <3>1. k \in Nat /\ l \in Nat /\ k + l = m /\ pos + 8 - n = pos + k /\ pos + k \in Nat
      BY <1>2
    <3> HIDE DEF k, l
    <3>2. IsBits(Bits(pos, k), k) /\ IsBits(Bits(pos + k, l), l)
      BY <3>1, BitsAre
    <3>3. StretchesJoin(pos, k, l)
      BY <3>1, BitsJoin
    <3> QED
      BY <3>1, <3>2, <3>3 DEF k, l, StretchesJoin
  <2>4. y = x /\ IsBits(x, 8)
    <3> HIDE DEF B, P, n
    <3>1. High(B) = B \o Zeros(8 - n)
      BY <1>2, <1>6, HighIs
    <3>2. Low(P) = Zeros(n) \o P
      <4>1. Len(P) = 8 - n
        BY <2>3 DEF IsBits
      <4>2. 8 - (8 - n) = n
        BY <1>2
      <4> QED
        BY <4>1, <4>2 DEF Low
    <3>3. n \in 0 .. 8 /\ n + (8 - n) = 8
      BY <1>2
    <3>4. Or(B \o Zeros(8 - n), Zeros(n) \o P) = B \o P
      BY <1>6, <2>3, <3>3, SharedByte
    <3>5. IsBits(B \o P, n + (8 - n))
      BY <1>2, <1>6, <2>3, JoinIs
    <3> QED
      BY <3>1, <3>2, <3>3, <3>4, <3>5
  <2>5. o = W \o (<<y>> \o R)
    BY <1>3, <1>9
  <2> HIDE DEF x, y, R
  <2>6. x \in Bytes /\ BitsOf(<<x>>) = x
    BY <2>4, ByteIs
  <2> DEFINE V == <<x>> \o R
  <2>7. <<x>> \in Seq(Bytes) /\ V \in Seq(Bytes) /\ o = W \o V /\ o \in Seq(Bytes)
    BY <1>1, <2>1, <2>4, <2>5, <2>6
  <2>8. BitsOf(V) = x \o (Q \o E)
    BY <2>1, <2>2, <2>6, <2>7, BitsOfJoined
  <2> HIDE DEF V
  <2>9. BitsOf(o) = A \o (x \o (Q \o E))
    BY <1>1, <2>7, <2>8, BitsOfJoined
  <2>10. /\ A \in Seq(BitSet) /\ B \in Seq(BitSet) /\ P \in Seq(BitSet) /\ Q \in Seq(BitSet)
         /\ C \in Seq(BitSet)
    BY <1>6, <2>3 DEF IsBits
  <2> HIDE DEF A, B, C, E, P, Q
  <2>11. x \o (Q \o E) = B \o (C \o E)
    <3>0. Q \o E \in Seq(BitSet)
      BY <1>7, <2>10
    <3>1. (B \o P) \o (Q \o E) = B \o (P \o (Q \o E))
      <4>1. JoinsOver(B, P, Q \o E)
        BY <2>10, <3>0, JoinedThrice
      <4> QED
        BY <4>1 DEF JoinsOver
    <3>2. (P \o Q) \o E = P \o (Q \o E)
      <4>1. JoinsOver(P, Q, E)
        BY <1>7, <2>10, JoinedThrice
      <4> QED
        BY <4>1 DEF JoinsOver
    <3> QED
      BY <2>3, <3>1, <3>2 DEF x
  <2>12. A \o (B \o (C \o E)) = C \o (C \o E)
    <3>1. C \o E \in Seq(BitSet)
      BY <1>7, <2>10
    <3>2. (A \o B) \o (C \o E) = A \o (B \o (C \o E))
      <4>1. JoinsOver(A, B, C \o E)
        BY <2>10, <3>1, JoinedThrice
      <4> QED
        BY <4>1 DEF JoinsOver
    <3> QED
      BY <1>6, <3>2
  <2> QED
    BY <1>4, <2>7, <2>9, <2>11, <2>12 DEF o
<1> QED
  BY <1>8, <1>9

ElementSet == {e \in [begin : Nat, end : Nat] : e.end >= e.begin + 15}

LEMMA WantedIs ==
  ASSUME NEW e \in ElementSet
  PROVE  /\ Wanted(e, FALSE) = Ending(e.begin, e.end)
         /\ Wanted(e, TRUE) = (<<0, 0, 1>> \o (Bits(e.begin + 3, 4) \o <<0>>)) \o Twice(e.begin + 7, e.end)
<1> DEFINE a == <<0, 0, 1>>
           t == Bits(e.begin + 3, 4)
           z == <<0>>
           m == e.end - e.begin - 7
           C == Bits(e.begin + 7, m)
           l == e.end - e.begin
           L == Bits(e.begin, l)
           o == <<1, 1, 1>>
           x == L \o o
           y == (((a \o t) \o z) \o C) \o C
           w == y \o o
<1>1. /\ e.begin \in Nat /\ e.end \in Nat /\ m \in Nat /\ e.begin + 3 \in Nat /\ e.begin + 7 \in Nat
      /\ l \in Nat /\ 4 \in Nat /\ e.end - (e.begin + 7) = m
  BY DEF ElementSet
<1>2. Wanted(e, FALSE) = x \o Zeros(Fill(Len(x))) /\ Wanted(e, TRUE) = w \o Zeros(Fill(Len(w)))
  BY DEF Wanted, Fill
<1>3. o = Ones(3)
  BY DEF Ones
<1> HIDE DEF m, l
<1>4. /\ IsBits(a, 3) /\ IsBits(z, 1) /\ IsBits(o, 3)
      /\ IsBits(t, 4) /\ IsBits(C, m) /\ IsBits(L, l)
  <2>1. IsBits(a, 3) /\ IsBits(z, 1) /\ IsBits(o, 3)
    BY DEF IsBits, BitSet
  <2> QED
    BY <1>1, <2>1, BitsAre
<1>5. Ending(e.begin, e.end) = L \o (o \o Zeros(Fill(l + 3)))
  BY <1>3 DEF Ending, l
<1>6. Twice(e.begin + 7, e.end) = C \o (C \o (o \o Zeros(Fill(2 * m + 11))))
  BY <1>1, <1>3 DEF Twice
<1> HIDE DEF a, t, z, C, L, o
<1>7. /\ a \in Seq(BitSet) /\ t \in Seq(BitSet) /\ z \in Seq(BitSet) /\ C \in Seq(BitSet) /\ o \in Seq(BitSet)
      /\ L \in Seq(BitSet)
      /\ Len(a) = 3 /\ Len(t) = 4 /\ Len(z) = 1 /\ Len(C) = m /\ Len(o) = 3 /\ Len(L) = l
  BY <1>4 DEF IsBits
<1>8. Wanted(e, FALSE) = Ending(e.begin, e.end)
  <2>1. Len(x) = l + 3
    <3>1. Len(L \o o) = Len(L) + Len(o)
      BY <1>7, JoinLength
    <3> QED
      BY <1>7, <3>1
  <2> DEFINE f == Fill(l + 3)
  <2>2. f \in Nat
    BY <1>1 DEF Fill
  <2> HIDE DEF f
  <2>3. Zeros(f) \in Seq(BitSet)
    BY <2>2, ConstantBits DEF IsBits
  <2>4. (L \o o) \o Zeros(f) = L \o (o \o Zeros(f))
    <3>1. JoinsOver(L, o, Zeros(f))
      BY <1>7, <2>3, JoinedThrice
    <3> QED
      BY <3>1 DEF JoinsOver
  <2> QED
    BY <1>2, <1>5, <2>1, <2>4 DEF f
<1>9. Wanted(e, TRUE) = (a \o (t \o z)) \o Twice(e.begin + 7, e.end)
  <2> DEFINE h == (a \o t) \o z
             f == Fill(2 * m + 11)
             Z == Zeros(f)
  <2>1. h = a \o (t \o z)
    <3>1. JoinsOver(a, t, z)
      BY <1>7, JoinedThrice
    <3> QED
      BY <3>1 DEF JoinsOver
  <2>2. h \in Seq(BitSet) /\ Len(h) = 8
    <3> DEFINE u == a \o t
    <3>1. u \in Seq(BitSet) /\ Len(u) = Len(a) + Len(t)
      BY <1>7, JoinLength
    <3> HIDE DEF u
    <3>2. u \o z \in Seq(BitSet) /\ Len(u \o z) = Len(u) + Len(z)
      BY <1>7, <3>1, JoinLength
    <3> QED
      BY <1>7, <3>1, <3>2 DEF u
  <2>3. f \in Nat
    BY <1>1 DEF Fill
  <2> HIDE DEF h, f
  <2>4. Z \in Seq(BitSet)
    BY <2>3, ConstantBits DEF IsBits
  <2> HIDE DEF Z
  <2> DEFINE b == h \o C
             c == b \o C
             v == c \o o
             r == o \o Z
             k == C \o r
  <2>5. w = v
    BY DEF h
  <2>6. b \in Seq(BitSet) /\ Len(b) = 8 + m
    BY <1>7, <2>2, JoinLength
  <2>7. r \in Seq(BitSet)
    BY <1>7, <2>4, JoinLength
  <2> HIDE DEF b, r
  <2>8. c \in Seq(BitSet) /\ Len(c) = 8 + m + m
    <3>1. b \o C \in Seq(BitSet) /\ Len(b \o C) = Len(b) + Len(C)
      BY <1>7, <2>6, JoinLength
    <3> QED
      BY <1>7, <2>6, <3>1
  <2>9. k \in Seq(BitSet)
    BY <1>7, <2>7, JoinLength
  <2> HIDE DEF c, k
  <2>10. Len(v) = 2 * m + 11
    <3>1. Len(c \o o) = Len(c) + Len(o)
      BY <1>7, <2>8, JoinLength
    <3> QED
      BY <1>1, <1>7, <2>8, <3>1
  <2>11. Wanted(e, TRUE) = v \o Z
    BY <1>2, <2>5, <2>10 DEF f, Z
  <2>12. v \o Z = c \o r
    <3>1. JoinsOver(c, o, Z)
      BY <1>7, <2>4, <2>8, JoinedThrice
    <3> QED
      BY <3>1 DEF JoinsOver, r
  <2>13. c \o r = b \o k
    <3>1. JoinsOver(b, C, r)
      BY <1>7, <2>6, <2>7, JoinedThrice
    <3> QED
      BY <3>1 DEF JoinsOver, c, k
  <2>14. b \o k = h \o (C \o k)
    <3>1. (h \o C) \o k = h \o (C \o k)
      <4>1. JoinsOver(h, C, k)
        BY <1>7, <2>2, <2>9, JoinedThrice
      <4> QED
        BY <4>1 DEF JoinsOver
    <3> QED
      BY <3>1 DEF b
  <2> QED
    BY <1>6, <2>1, <2>11, <2>12, <2>13, <2>14 DEF Z, f, k, r
<1> QED
  BY <1>8, <1>9 DEF a, t, z

LEMMA BlockIs ==
  ASSUME NEW e \in ElementSet, NEW mux \in BOOLEAN
  PROVE  /\ Block(e.begin, e.end, mux) \in Seq(Bytes)
         /\ BitsOf(Block(e.begin, e.end, mux)) = Wanted(e, mux)
<1>1. e.begin \in Nat /\ e.end \in Nat /\ e.begin <= e.end /\ e.begin + 3 \in Nat /\ e.begin + 7 \in Nat
      /\ e.end >= e.begin + 7 + 8
  BY DEF ElementSet
<1>2. CASE mux = FALSE
  <2>1. Block(e.begin, e.end, mux) = RestAndEnd(e.begin, e.end)
    BY <1>2 DEF Block
  <2> QED
    BY <1>1, <1>2, <2>1, RestIs, WantedIs
<1>3. CASE mux = TRUE
  <2> DEFINE d == Bits(e.begin + 3, 4) \o <<0>>
             g == Or(High(<<0, 0, 1>>), Low(d))
             h == <<0, 0, 1>> \o d
             pos == e.begin + 7
             R == BothChannels(pos, e.end)
             b == Block(e.begin, e.end, mux)
  <2>1. b = <<g>> \o R
    BY <1>3 DEF Block
  <2>2. g = h /\ h \in Bytes /\ BitsOf(<<h>>) = h
    BY <1>1, PairHeader
  <2> HIDE DEF g, b, pos
  <2>3. R \in Seq(Bytes) /\ BitsOf(R) = Twice(pos, e.end)
    BY <1>1, TwiceIs DEF pos
  <2>4. Wanted(e, TRUE) = h \o Twice(pos, e.end)
    BY WantedIs DEF pos
  <2> HIDE DEF R, h
  <2>5. <<h>> \in Seq(Bytes) /\ b = <<h>> \o R /\ b \in Seq(Bytes)
    BY <2>1, <2>2, <2>3
  <2>6. BitsOf(b) = h \o Twice(pos, e.end)
    BY <2>2, <2>3, <2>5, BitsOfJoined
  <2> QED
    BY <1>3, <2>4, <2>5, <2>6 DEF b
<1> QED
  BY <1>2, <1>3

-----------------------------------------------------------------------------
(* The header.                                                             *)

LEMMA FieldIs ==
  ASSUME NEW x \in Nat
  PROVE  Field(x) \in [1 .. 13 -> 0 .. 1] /\ IsBits(Field(x), 13)
<1>1. \A i \in 1 .. 13 : Weights[i] \in Nat \ {0}
  BY DEF Weights
<1>2. ASSUME NEW i \in 1 .. 13
      PROVE  (x \div Weights[i]) % 2 \in 0 .. 1
  <2> DEFINE w == Weights[i]
             y == x \div w
  <2>1. w \in Nat /\ w > 0
    BY <1>1
  <2> HIDE DEF w
  <2>2. y \in Int
    BY <2>1
  <2> HIDE DEF y
  <2>3. y % 2 \in 0 .. 1
    BY <2>2
  <2> QED
    BY <2>3 DEF y, w
<1>3. Field(x) \in [1 .. 13 -> 0 .. 1]
  BY <1>2 DEF Field
<1>4. Field(x) \in [1 .. 13 -> BitSet] /\ 13 \in Nat
  BY <1>3 DEF BitSet
<1> QED
  BY <1>3, <1>4, FunctionBits

\* What the bits up to each one stand for
Counts(n, bits, at) ==
  /\ n \in Nat /\ bits \in [1 .. n -> 0 .. 1] /\ at[0] = 0
  /\ \A k \in 1 .. n : at[k] = Shifted(at[k - 1], bits[k])

LEMMA NumberGoes ==
  ASSUME NEW n, NEW bits, NEW at, Counts(n, bits, at)
  PROVE  Number(bits) = at[n]
<1> DEFINE act == [i \in 1 .. n |-> [t \in Int |-> Shifted(t, bits[i])]]
           Eq(g) == g = [s \in SUBSET DOMAIN bits |->
                           IF s = {} THEN 0 ELSE Shifted(g[s \ {Max(s)}], bits[Max(s)])]
           f == CHOOSE g : Eq(g)
<1>1. Number(bits) = f[DOMAIN bits]
  BY DEF Number, FoldLeft, MapThenFoldSet
<1> n \in Nat
  BY DEF Counts
<1>2. /\ DOMAIN bits = 1 .. n /\ \A i \in 1 .. n : bits[i] \in 0 .. 1
      /\ at[0] = 0 /\ \A k \in 1 .. n : at[k] = Shifted(at[k - 1], bits[k])
  BY DEF Counts
<1>3. ASSUME NEW t \in Int, NEW i \in 1 .. n
      PROVE  Shifted(t, bits[i]) \in Int
  BY <1>2 DEF Shifted
<1>4. act \in [1 .. n -> [Int -> Int]]
  BY <1>3
<1>5. \A i \in 1 .. n : \A t \in Int : act[i][t] = Shifted(t, bits[i])
  OBVIOUS
<1> HIDE DEF act
<1>6. PICK g : Folds(n, Int, 0, act, g)
  <2>1. 0 \in Int
    OBVIOUS
  <2> QED
    BY <1>4, <2>1, FoldThere
<1>7. g = [s \in SUBSET (1 .. n) |-> IF s = {} THEN 0 ELSE Shifted(g[s \ {Max(s)}], bits[Max(s)])]
  <2>1. /\ g \in [SUBSET (1 .. n) -> Int]
        /\ \A s \in SUBSET (1 .. n) : g[s] = IF s = {} THEN 0 ELSE act[Max(s)][g[s \ {Max(s)}]]
    BY <1>6 DEF Folds
  <2>2. ASSUME NEW s \in SUBSET (1 .. n), s # {}
        PROVE  act[Max(s)][g[s \ {Max(s)}]] = Shifted(g[s \ {Max(s)}], bits[Max(s)])
    <3>1. Max(s) \in 1 .. n
      BY <2>2, HighestIndex
    <3>2. g[s \ {Max(s)}] \in Int
      BY <2>1
    <3> QED
      BY <1>5, <3>1, <3>2
  <2> QED
    BY <2>1, <2>2
<1>8. f = [s \in SUBSET (1 .. n) |-> IF s = {} THEN 0 ELSE Shifted(f[s \ {Max(s)}], bits[Max(s)])]
  <2>1. Eq(g)
    BY <1>2, <1>7
  <2>2. Eq(f)
    <3> HIDE DEF Eq
    <3> QED
      BY <2>1
  <2> QED
    BY <1>2, <2>2
<1> HIDE DEF f
<1> DEFINE I == [k \in 0 .. n |-> {at[k]}]
<1>9. f[{}] \in I[0]
  <2>1. {} \in SUBSET (1 .. n) /\ 0 \in 0 .. n
    OBVIOUS
  <2>2. f[{}] = 0
    BY <1>8, <2>1
  <2> QED
    BY <1>2, <2>1, <2>2
<1>10. ASSUME NEW k \in 1 .. n, f[1 .. k - 1] \in I[k - 1]
       PROVE  f[1 .. k] \in I[k]
  <2>1. /\ 1 .. k \in SUBSET (1 .. n) /\ 1 .. k # {} /\ Max(1 .. k) = k
        /\ (1 .. k) \ {k} = 1 .. k - 1
    BY Stretches
  <2>2. f[1 .. k] = Shifted(f[1 .. k - 1], bits[k])
    BY <1>8, <2>1
  <2>3. k - 1 \in 0 .. n /\ k \in 0 .. n
    OBVIOUS
  <2>4. f[1 .. k - 1] = at[k - 1]
    BY <1>10, <2>3
  <2>5. f[1 .. k] = at[k]
    BY <1>2, <2>2, <2>4
  <2> QED
    BY <2>3, <2>5
<1>11. f[1 .. n] \in I[n]
  <2> HIDE DEF I
  <2> QED
    BY <1>9, <1>10, AlongStretches
<1>12. f[1 .. n] = at[n]
  <2>1. n \in 0 .. n
    OBVIOUS
  <2> QED
    BY <1>11, <2>1
<1> QED
  BY <1>1, <1>2, <1>12

LEMMA Halves ==
  ASSUME NEW x \in 0 .. 8191
  PROVE  /\ x \div 4096 = 2 * (x \div 8192) + ((x \div 4096) % 2)
         /\ x \div 2048 = 2 * (x \div 4096) + ((x \div 2048) % 2)
         /\ x \div 1024 = 2 * (x \div 2048) + ((x \div 1024) % 2)
         /\ x \div 512 = 2 * (x \div 1024) + ((x \div 512) % 2)
         /\ x \div 256 = 2 * (x \div 512) + ((x \div 256) % 2)
         /\ x \div 128 = 2 * (x \div 256) + ((x \div 128) % 2)
         /\ x \div 64 = 2 * (x \div 128) + ((x \div 64) % 2)
         /\ x \div 32 = 2 * (x \div 64) + ((x \div 32) % 2)
         /\ x \div 16 = 2 * (x \div 32) + ((x \div 16) % 2)
         /\ x \div 8 = 2 * (x \div 16) + ((x \div 8) % 2)
         /\ x \div 4 = 2 * (x \div 8) + ((x \div 4) % 2)
         /\ x \div 2 = 2 * (x \div 4) + ((x \div 2) % 2)
         /\ x \div 1 = 2 * (x \div 2) + ((x \div 1) % 2)
         /\ x \div 8192 = 0
<1>1. x \div 4096 = 2 * (x \div 8192) + ((x \div 4096) % 2)
  OBVIOUS
<1>2. x \div 2048 = 2 * (x \div 4096) + ((x \div 2048) % 2)
  OBVIOUS
<1>3. x \div 1024 = 2 * (x \div 2048) + ((x \div 1024) % 2)
  OBVIOUS
<1>4. x \div 512 = 2 * (x \div 1024) + ((x \div 512) % 2)
  OBVIOUS
<1>5. x \div 256 = 2 * (x \div 512) + ((x \div 256) % 2)
  OBVIOUS
<1>6. x \div 128 = 2 * (x \div 256) + ((x \div 128) % 2)
  OBVIOUS
<1>7. x \div 64 = 2 * (x \div 128) + ((x \div 64) % 2)
  OBVIOUS
<1>8. x \div 32 = 2 * (x \div 64) + ((x \div 32) % 2)
  OBVIOUS
<1>9. x \div 16 = 2 * (x \div 32) + ((x \div 16) % 2)
  OBVIOUS
<1>10. x \div 8 = 2 * (x \div 16) + ((x \div 8) % 2)
  OBVIOUS
<1>11. x \div 4 = 2 * (x \div 8) + ((x \div 4) % 2)
  OBVIOUS
<1>12. x \div 2 = 2 * (x \div 4) + ((x \div 2) % 2)
  OBVIOUS
<1>13. x \div 1 = 2 * (x \div 2) + ((x \div 1) % 2)
  OBVIOUS
<1>14. x \div 8192 = 0
  OBVIOUS
<1> QED
  BY <1>1, <1>2, <1>3, <1>4, <1>5, <1>6, <1>7, <1>8, <1>9, <1>10, <1>11, <1>12, <1>13, <1>14

FieldSays(x) == Number(Field(x)) = x

\* The field has as many bits as the number needs.
LEMMA FieldsNumber ==
  ASSUME NEW x \in Nat, x < 8192
  PROVE  FieldSays(x)
<1> DEFINE bits == Field(x)
           at == [k \in 0 .. 13 |-> x \div (IF k = 0 THEN 8192 ELSE Weights[k])]
           n == 13
<1>1. bits \in [1 .. 13 -> 0 .. 1]
  <2>1. x \in Nat
    OBVIOUS
  <2> QED
    BY <2>1, FieldIs
<1>2. /\ bits[1] = (x \div 4096) % 2
      /\ bits[2] = (x \div 2048) % 2
      /\ bits[3] = (x \div 1024) % 2
      /\ bits[4] = (x \div 512) % 2
      /\ bits[5] = (x \div 256) % 2
      /\ bits[6] = (x \div 128) % 2
      /\ bits[7] = (x \div 64) % 2
      /\ bits[8] = (x \div 32) % 2
      /\ bits[9] = (x \div 16) % 2
      /\ bits[10] = (x \div 8) % 2
      /\ bits[11] = (x \div 4) % 2
      /\ bits[12] = (x \div 2) % 2
      /\ bits[13] = (x \div 1) % 2
  BY DEF Field, Weights
<1>3. at[0] = x \div 8192
      /\ at[1] = x \div 4096
      /\ at[2] = x \div 2048
      /\ at[3] = x \div 1024
      /\ at[4] = x \div 512
      /\ at[5] = x \div 256
      /\ at[6] = x \div 128
      /\ at[7] = x \div 64
      /\ at[8] = x \div 32
      /\ at[9] = x \div 16
      /\ at[10] = x \div 8
      /\ at[11] = x \div 4
      /\ at[12] = x \div 2
      /\ at[13] = x \div 1
  BY DEF Weights
<1> HIDE DEF bits, at
<1>4. \A k \in 1 .. 13 : k \in {1, 2, 3, 4, 5, 6, 7, 8, 9, 10, 11, 12, 13}
  OBVIOUS
<1>5. at[0] = 0 /\ at[13] = x
  BY <1>3
<1>6. ASSUME NEW k \in 1 .. 13
      PROVE  at[k] = 2 * at[k - 1] + bits[k] /\ at[k] \in Int
  <2>1. at[1] = 2 * at[0] + bits[1] /\ at[1] \in Int
    <3>1. x \div 4096 = 2 * (x \div 8192) + ((x \div 4096) % 2) /\ x \div 4096 \in Int
      BY Halves
    <3> QED
      BY <1>2, <1>3, <3>1
  <2>2. at[2] = 2 * at[1] + bits[2] /\ at[2] \in Int
    <3>1. x \div 2048 = 2 * (x \div 4096) + ((x \div 2048) % 2) /\ x \div 2048 \in Int
      BY Halves
    <3> QED
      BY <1>2, <1>3, <3>1
  <2>3. at[3] = 2 * at[2] + bits[3] /\ at[3] \in Int
    <3>1. x \div 1024 = 2 * (x \div 2048) + ((x \div 1024) % 2) /\ x \div 1024 \in Int
      BY Halves
    <3> QED
      BY <1>2, <1>3, <3>1
  <2>4. at[4] = 2 * at[3] + bits[4] /\ at[4] \in Int
    <3>1. x \div 512 = 2 * (x \div 1024) + ((x \div 512) % 2) /\ x \div 512 \in Int
      BY Halves
    <3> QED
      BY <1>2, <1>3, <3>1
  <2>5. at[5] = 2 * at[4] + bits[5] /\ at[5] \in Int
    <3>1. x \div 256 = 2 * (x \div 512) + ((x \div 256) % 2) /\ x \div 256 \in Int
      BY Halves
    <3> QED
      BY <1>2, <1>3, <3>1
  <2>6. at[6] = 2 * at[5] + bits[6] /\ at[6] \in Int
    <3>1. x \div 128 = 2 * (x \div 256) + ((x \div 128) % 2) /\ x \div 128 \in Int
      BY Halves
    <3> QED
      BY <1>2, <1>3, <3>1
  <2>7. at[7] = 2 * at[6] + bits[7] /\ at[7] \in Int
    <3>1. x \div 64 = 2 * (x \div 128) + ((x \div 64) % 2) /\ x \div 64 \in Int
      BY Halves
    <3> QED
      BY <1>2, <1>3, <3>1
  <2>8. at[8] = 2 * at[7] + bits[8] /\ at[8] \in Int
    <3>1. x \div 32 = 2 * (x \div 64) + ((x \div 32) % 2) /\ x \div 32 \in Int
      BY Halves
    <3> QED
      BY <1>2, <1>3, <3>1
  <2>9. at[9] = 2 * at[8] + bits[9] /\ at[9] \in Int
    <3>1. x \div 16 = 2 * (x \div 32) + ((x \div 16) % 2) /\ x \div 16 \in Int
      BY Halves
    <3> QED
      BY <1>2, <1>3, <3>1
  <2>10. at[10] = 2 * at[9] + bits[10] /\ at[10] \in Int
    <3>1. x \div 8 = 2 * (x \div 16) + ((x \div 8) % 2) /\ x \div 8 \in Int
      BY Halves
    <3> QED
      BY <1>2, <1>3, <3>1
  <2>11. at[11] = 2 * at[10] + bits[11] /\ at[11] \in Int
    <3>1. x \div 4 = 2 * (x \div 8) + ((x \div 4) % 2) /\ x \div 4 \in Int
      BY Halves
    <3> QED
      BY <1>2, <1>3, <3>1
  <2>12. at[12] = 2 * at[11] + bits[12] /\ at[12] \in Int
    <3>1. x \div 2 = 2 * (x \div 4) + ((x \div 2) % 2) /\ x \div 2 \in Int
      BY Halves
    <3> QED
      BY <1>2, <1>3, <3>1
  <2>13. at[13] = 2 * at[12] + bits[13] /\ at[13] \in Int
    <3>1. x \div 1 = 2 * (x \div 2) + ((x \div 1) % 2) /\ x \div 1 \in Int
      BY Halves
    <3> QED
      BY <1>2, <1>3, <3>1
  <2> QED
    BY <1>4, <2>1, <2>2, <2>3, <2>4, <2>5, <2>6, <2>7, <2>8, <2>9, <2>10, <2>11, <2>12, <2>13
<1>7. n \in Nat /\ n = 13
  OBVIOUS
<1> HIDE DEF n
<1>8. Counts(n, bits, at)
  BY <1>1, <1>5, <1>6, <1>7 DEF Counts, Shifted
<1>9. Number(bits) = at[n]
  BY <1>8, NumberGoes
<1> QED
  BY <1>5, <1>7, <1>9 DEF bits, FieldSays

LEMMA HeaderIs ==
  ASSUME NEW config \in Int, NEW mux \in BOOLEAN, NEW l \in Nat
  PROVE  /\ IsBits(Header(config, mux, l), 56)
         /\ \A i \in 1 .. 13 : Header(config, mux, l)[30 + i] = Field(l)[i]
<1> DEFINE h == Header(config, mux, l)
           c == IF config = 1 \/ mux THEN <<0, 1, 0>> ELSE <<0, 0, 1>>
           b == Bits(0, 56)
           d == Field(l)
<1>1. h = [i \in 1 .. 56 |-> IF i = 16 \/ (i = 30 /\ l >= 8192) THEN 1 ELSE IF i \in 24 .. 26 THEN c[i - 23]
                             ELSE IF i \in 31 .. 43 THEN d[i - 30] ELSE b[i]]
  BY DEF Header
<1>2. \A i \in 24 .. 26 : c[i - 23] \in BitSet
  <2>1. c = <<0, 1, 0>> \/ c = <<0, 0, 1>>
    OBVIOUS
  <2>2. \A i \in 24 .. 26 : i - 23 \in {1, 2, 3}
    OBVIOUS
  <2> HIDE DEF c
  <2> QED
    BY <2>1, <2>2 DEF BitSet
<1>3. \A i \in 1 .. 56 : b[i] \in BitSet
  BY DEF Bits, BitSet
<1>4. \A i \in 1 .. 13 : d[i] \in BitSet
  BY FieldIs DEF BitSet
<1> HIDE DEF h, c, b, d
<1>5. h \in [1 .. 56 -> BitSet]
  <2>1. \A i \in 31 .. 43 : i - 30 \in 1 .. 13
    OBVIOUS
  <2>2. \A i \in 31 .. 43 : d[i - 30] \in BitSet
    BY <1>4, <2>1
  <2>3. 1 \in BitSet
    BY DEF BitSet
  <2> QED
    BY <1>1, <1>2, <1>3, <2>2, <2>3
<1>6. IsBits(h, 56)
  <2>1. 56 \in Nat
    OBVIOUS
  <2> QED
    BY <1>5, <2>1, FunctionBits
<1>7. ASSUME NEW i \in 1 .. 13
      PROVE  h[30 + i] = d[i]
  <2>1. 30 + i \in 1 .. 56 /\ 30 + i # 16 /\ 30 + i # 30 /\ 30 + i \notin 24 .. 26 /\ 30 + i \in 31 .. 43 /\ 30 + i - 30 = i
    OBVIOUS
  <2> QED
    BY <1>1, <2>1
<1> QED
  BY <1>6, <1>7 DEF h, d

-----------------------------------------------------------------------------
(* The blocks one behind the other.                                        *)

\* The bytes of the blocks have the bits wanted.
LEMMA BlocksAre ==
  ASSUME NEW n \in Nat \ {0}, NEW elements \in [1 .. n -> ElementSet],
         NEW mux \in BOOLEAN
  PROVE  LET bytes == FlattenSeq([k \in 1 .. n |-> Block(elements[k].begin, elements[k].end, mux)])
         IN  /\ bytes \in Seq(Bytes)
             /\ BitsOf(bytes) = FlattenSeq([k \in 1 .. n |-> Wanted(elements[k], mux)])
<1> DEFINE blocks == [k \in 1 .. n |-> Block(elements[k].begin, elements[k].end, mux)]
           bits == [k \in 1 .. n |-> Wanted(elements[k], mux)]
<1>1. ASSUME NEW k \in 1 .. n
      PROVE  blocks[k] \in Seq(Bytes) /\ bits[k] \in Seq(BitSet) /\ BitsOf(blocks[k]) = bits[k]
  <2> DEFINE e == elements[k]
  <2>1. e \in ElementSet
    OBVIOUS
  <2> HIDE DEF e
  <2>2. /\ Block(e.begin, e.end, mux) \in Seq(Bytes)
        /\ BitsOf(Block(e.begin, e.end, mux)) = Wanted(e, mux)
    BY <2>1, BlockIs
  <2>3. BitsOf(Block(e.begin, e.end, mux)) \in Seq(BitSet)
    BY <2>2, BitsOfAre DEF IsBits
  <2>4. blocks[k] = Block(e.begin, e.end, mux) /\ bits[k] = Wanted(e, mux)
    BY DEF e
  <2> QED
    BY <2>2, <2>3, <2>4
<1>2. blocks \in [1 .. n -> Seq(Bytes)] /\ bits \in [1 .. n -> Seq(BitSet)]
  BY <1>1
<1> HIDE DEF blocks, bits
<1>3. PICK f : Joins(n, Bytes, blocks, f) /\ f[n] = FlattenSeq(blocks)
  BY <1>2, FlattenJoins
<1>4. PICK g : Joins(n, BitSet, bits, g) /\ g[n] = FlattenSeq(bits)
  BY <1>2, FlattenJoins
<1> DEFINE R == {m \in 0 .. n : m = 0 \/ BitsOf(f[m]) = g[m]}
<1>5. 0 \in R
  OBVIOUS
<1>6. ASSUME NEW m \in R, m \in 0 .. n /\ m < n
      PROVE  m + 1 \in R
  <2>1. m + 1 \in 0 .. n /\ 1 \in 1 .. n
    BY <1>6
  <2>2. CASE m = 0
    <3>1. f[1] = blocks[1] /\ g[1] = bits[1]
      BY <1>3, <1>4 DEF Joins
    <3>2. BitsOf(f[1]) = g[1]
      BY <1>1, <2>1, <3>1
    <3> QED
      BY <2>1, <2>2, <3>2
  <2>3. CASE m # 0
    <3> DEFINE k == m + 1
    <3>1. k \in 2 .. n /\ k - 1 = m /\ k \in 1 .. n /\ m \in 1 .. n
      BY <1>6, <2>3
    <3>2. BitsOf(f[m]) = g[m]
      BY <2>3
    <3> HIDE DEF k
    <3>3. f[k] = f[m] \o blocks[k] /\ g[k] = g[m] \o bits[k] /\ f[m] \in Seq(Bytes)
      BY <1>3, <1>4, <3>1 DEF Joins
    <3>4. BitsOf(f[m] \o blocks[k]) = BitsOf(f[m]) \o BitsOf(blocks[k])
      BY <1>1, <3>1, <3>3, BitsOfJoined
    <3>5. BitsOf(f[k]) = g[k]
      BY <1>1, <3>1, <3>2, <3>3, <3>4
    <3> QED
      BY <2>1, <3>5 DEF k
  <2> QED
    BY <2>2, <2>3
<1> HIDE DEF R
<1>7. 0 .. n \subseteq R
  BY <1>5, <1>6, UpTo
<1>8. BitsOf(f[n]) = g[n]
  <2>1. n \in 0 .. n /\ n # 0
    OBVIOUS
  <2> QED
    BY <1>7, <2>1 DEF R
<1>9. f[n] \in Seq(Bytes)
  BY <1>3 DEF Joins
<1> QED
  BY <1>3, <1>4, <1>8, <1>9 DEF blocks, bits

LEMMA PartIs ==
  ASSUME NEW m \in Nat, NEW k \in Nat, NEW n \in Nat, k + n <= m, NEW u, IsBits(u, m)
  PROVE  LET s == SubSeq(u, k + 1, k + n)
         IN  IsBits(s, n) /\ \A i \in 1 .. n : s[i] = u[k + i]
BY DEF IsBits

LEMMA LastPart ==
  ASSUME NEW m \in Nat, NEW n \in Nat, NEW s, IsBits(s, m), NEW t, IsBits(t, n)
  PROVE  SubSeq(s \o t, m + 1, m + n) = t
<1> DEFINE u == s \o t
           w == SubSeq(u, m + 1, m + n)
<1>1. IsJoin(u, m, s, n, t)
  BY JoinedBits
<1> HIDE DEF u
<1>2. m + n \in Nat /\ m + n <= m + n /\ IsBits(u, m + n) /\ \A i \in 1 .. n : u[m + i] = t[i]
  BY <1>1 DEF IsJoin
<1>3. IsBits(w, n) /\ \A i \in 1 .. n : w[i] = u[m + i]
  BY <1>2, PartIs
<1> HIDE DEF w
<1>4. w = t
  BY <1>2, <1>3, SameBits
<1> QED
  BY <1>4 DEF w, u

Pieces(frame, d, b, l) ==
  SubSeq(frame, 57, Len(frame)) = b /\ SubSeq(frame, 31, 43) = d /\ Len(frame) = 8 * l

\* A header of 56 bits with the length in its field, and so many bits behind it
LEMMA PiecesAre ==
  ASSUME NEW c \in Nat, NEW l \in Nat, l = 7 + c, NEW b, IsBits(b, 8 * c), NEW h, IsBits(h, 56),
         NEW d, IsBits(d, 13), \A i \in 1 .. 13 : h[30 + i] = d[i]
  PROVE  Pieces(h \o b, d, b, l)
<1> DEFINE u == h \o b
           k == 8 * c
           m == 56
           n == 13
           p == 30
<1>1. k \in Nat /\ m \in Nat /\ n \in Nat /\ p \in Nat /\ p + n <= m + k /\ m + k \in Nat /\ m + k = 8 * l
  OBVIOUS
<1>2. m = 56 /\ p = 30 /\ n = 13
  OBVIOUS
<1>3. IsBits(b, k) /\ IsBits(h, m) /\ IsBits(d, n) /\ \A i \in 1 .. n : h[p + i] = d[i]
  OBVIOUS
<1>4. \A i \in 1 .. n : p + i \in 1 .. m
  OBVIOUS
<1> HIDE DEF k, m, n, p
<1>5. IsJoin(u, m, h, k, b)
  BY <1>1, <1>3, JoinedBits
<1>6. SubSeq(u, m + 1, m + k) = b
  BY <1>1, <1>3, LastPart
<1> HIDE DEF u
<1>7. IsBits(u, m + k) /\ \A i \in 1 .. m : u[i] = h[i]
  BY <1>5 DEF IsJoin
<1> DEFINE s == SubSeq(u, p + 1, p + n)
<1>8. IsBits(s, n) /\ \A i \in 1 .. n : s[i] = u[p + i]
  BY <1>1, <1>7, PartIs
<1> HIDE DEF s
<1>9. \A i \in 1 .. n : s[i] = d[i]
  BY <1>3, <1>4, <1>7, <1>8
<1>10. s = d
  BY <1>1, <1>3, <1>8, <1>9, SameBits
<1>11. Len(u) = m + k
  BY <1>7 DEF IsBits
<1>12. m + 1 = 57 /\ p + 1 = 31 /\ p + n = 43
  BY <1>2
<1> QED
  BY <1>1, <1>6, <1>10, <1>11, <1>12 DEF s, u, Pieces

LEMMA FrameIs ==
  ASSUME NEW n \in Nat \ {0}, NEW elements \in [1 .. n -> ElementSet],
         NEW mux \in BOOLEAN
  PROVE  AsWanted(elements, mux)
<1> DEFINE bytes == FlattenSeq([k \in 1 .. n |-> Block(elements[k].begin, elements[k].end, mux)])
           bits == FlattenSeq([k \in 1 .. n |-> Wanted(elements[k], mux)])
           b == BitsOf(bytes)
           l == 7 + Len(bytes)
           h == Header(0, mux, l)
           frame == Frame(0, elements, mux)
<1>1. bytes \in Seq(Bytes) /\ b = bits
  BY BlocksAre
<1>2. DOMAIN elements = 1 .. n
  OBVIOUS
<1>3. frame = h \o b
  BY <1>2 DEF Frame
<1>4. AsWanted(elements, mux) <=>
        /\ SubSeq(frame, 57, Len(frame)) = bits
        /\ Len(frame) < 8 * 8192 => 8 * Number(SubSeq(frame, 31, 43)) = Len(frame)
  BY <1>2 DEF AsWanted
<1> DEFINE c == Len(bytes)
           d == Field(l)
<1> HIDE DEF bytes, bits, frame
<1>5. l \in Nat /\ c \in Nat /\ l = 7 + c
  BY <1>1
<1>6. IsBits(b, 8 * c)
  BY <1>1, BitsOfAre
<1> HIDE DEF c, l
<1>7. IsBits(h, 56) /\ \A i \in 1 .. 13 : h[30 + i] = d[i]
  <2>1. 0 \in Int
    OBVIOUS
  <2> QED
    BY <1>5, <2>1, HeaderIs
<1>8. IsBits(d, 13)
  BY <1>5, FieldIs
<1> HIDE DEF b, h, d
<1>9. SubSeq(frame, 57, Len(frame)) = b /\ SubSeq(frame, 31, 43) = d /\ Len(frame) = 8 * l
  <2>1. Pieces(h \o b, d, b, l)
    BY <1>5, <1>6, <1>7, <1>8, PiecesAre
  <2> QED
    BY <1>3, <2>1 DEF Pieces
<1>10. ASSUME Len(frame) < 8 * 8192
       PROVE  8 * Number(SubSeq(frame, 31, 43)) = Len(frame)
  <2>1. l < 8192
    BY <1>5, <1>9, <1>10
  <2>2. FieldSays(l)
    BY <1>5, <2>1, FieldsNumber
  <2>3. Number(d) = l
    BY <2>2 DEF FieldSays, d
  <2> QED
    BY <1>9, <2>3
<1> QED
  BY <1>1, <1>4, <1>9, <1>10

-----------------------------------------------------------------------------
(* What a codeword begins with.                                            *)

Bit == {0, 1}
Cut(w, k) == SubSeq(w, 1, k)

IsCut(c, w, k) == c \in Seq(Bit) /\ Len(c) = k /\ \A i \in 1 .. k : c[i] = w[i]

LEMMA CutIs ==
  ASSUME NEW w \in Seq(Bit), NEW k \in 0 .. Len(w)
  PROVE  IsCut(Cut(w, k), w, k)
BY DEF IsCut, Cut

LEMMA SameWords ==
  ASSUME NEW v \in Seq(Bit), NEW w \in Seq(Bit), Len(v) = Len(w), \A i \in 1 .. Len(v) : v[i] = w[i]
  PROVE  v = w
BY SeqEqual

LEMMA AppendIs ==
  ASSUME NEW v \in Seq(Bit), NEW b \in Bit
  PROVE  /\ Append(v, b) \in Seq(Bit) /\ Len(Append(v, b)) = Len(v) + 1
         /\ Append(v, b)[Len(v) + 1] = b /\ \A i \in 1 .. Len(v) : Append(v, b)[i] = v[i]
OBVIOUS

\* One bit more
LEMMA CutNext ==
  ASSUME NEW w \in Seq(Bit), NEW k \in 1 .. Len(w)
  PROVE  Cut(w, k) = Append(Cut(w, k - 1), w[k]) /\ w[k] \in Bit /\ Cut(w, k - 1) \in Seq(Bit)
<1> DEFINE c == Cut(w, k)
           d == Cut(w, k - 1)
           e == Append(d, w[k])
<1>1. k \in 0 .. Len(w) /\ k - 1 \in 0 .. Len(w) /\ w[k] \in Bit /\ k \in Nat
  OBVIOUS
<1>2. IsCut(c, w, k) /\ IsCut(d, w, k - 1)
  BY <1>1, CutIs
<1> HIDE DEF c, d
<1>3. d \in Seq(Bit) /\ Len(d) = k - 1
  BY <1>2 DEF IsCut
<1>4. /\ e \in Seq(Bit) /\ Len(e) = Len(d) + 1
      /\ e[Len(d) + 1] = w[k] /\ \A i \in 1 .. Len(d) : e[i] = d[i]
  BY <1>1, <1>3, AppendIs
<1> HIDE DEF e
<1>5. /\ Len(e) = k /\ e[k] = w[k] /\ \A i \in 1 .. k - 1 : e[i] = d[i]
  BY <1>1, <1>3, <1>4
<1>6. c \in Seq(Bit) /\ Len(c) = k /\ \A i \in 1 .. k : c[i] = w[i]
  BY <1>2 DEF IsCut
<1>7. \A i \in 1 .. k - 1 : d[i] = w[i]
  BY <1>2 DEF IsCut
<1>8. \A i \in 1 .. k : c[i] = e[i]
  BY <1>1, <1>5, <1>6, <1>7
<1>9. c = e
  BY <1>4, <1>5, <1>6, <1>8, SameWords
<1> QED
  BY <1>1, <1>3, <1>9 DEF c, d, e

LEMMA CutOfCut ==
  ASSUME NEW w \in Seq(Bit), NEW k \in 0 .. Len(w), NEW l \in 0 .. k
  PROVE  Cut(Cut(w, k), l) = Cut(w, l)
<1> DEFINE c == Cut(w, k)
           d == Cut(c, l)
           e == Cut(w, l)
<1>1. IsCut(c, w, k)
  BY CutIs
<1>2. l \in 0 .. Len(w) /\ k \in Nat /\ \A i \in 1 .. l : i \in 1 .. k
  OBVIOUS
<1> HIDE DEF c
<1>3. c \in Seq(Bit) /\ Len(c) = k /\ \A i \in 1 .. k : c[i] = w[i]
  BY <1>1 DEF IsCut
<1>4. IsCut(d, c, l) /\ IsCut(e, w, l)
  BY <1>2, <1>3, CutIs
<1> HIDE DEF d, e
<1>5. d \in Seq(Bit) /\ e \in Seq(Bit) /\ Len(d) = l /\ Len(e) = l /\ \A i \in 1 .. l : d[i] = e[i]
  BY <1>2, <1>3, <1>4 DEF IsCut
<1>6. d = e
  BY <1>5, SameWords
<1> QED
  BY <1>6 DEF c, d, e

LEMMA CutAll ==
  ASSUME NEW w \in Seq(Bit)
  PROVE  Cut(w, Len(w)) = w /\ Cut(w, 0) = << >>
<1> DEFINE c == Cut(w, Len(w))
<1>1. IsCut(c, w, Len(w))
  BY CutIs
<1>2. Cut(w, 0) = << >>
  BY DEF Cut
<1> HIDE DEF c
<1>3. c = w
  BY <1>1, SameWords DEF IsCut
<1> QED
  BY <1>2, <1>3 DEF c

LEMMA AppendSame ==
  ASSUME NEW v \in Seq(Bit), NEW w \in Seq(Bit), NEW a \in Bit, NEW b \in Bit, Append(v, a) = Append(w, b)
  PROVE  v = w /\ a = b
<1> DEFINE s == Append(v, a)
           t == Append(w, b)
<1>1. /\ Len(s) = Len(v) + 1 /\ s[Len(v) + 1] = a /\ \A i \in 1 .. Len(v) : s[i] = v[i]
      /\ Len(t) = Len(w) + 1 /\ t[Len(w) + 1] = b /\ \A i \in 1 .. Len(w) : t[i] = w[i]
  BY AppendIs
<1>2. s = t
  OBVIOUS
<1> HIDE DEF s, t
<1>3. Len(v) = Len(w)
  BY <1>1, <1>2
<1>4. \A i \in 1 .. Len(v) : v[i] = w[i]
  BY <1>1, <1>2, <1>3
<1> QED
  BY <1>1, <1>2, <1>3, <1>4, SameWords

LEMMA EndSame == \A v, w \in Seq(Bit), a, b \in Bit : Append(v, a) = Append(w, b) => v = w /\ a = b
BY AppendSame

-----------------------------------------------------------------------------
(* Codebooks.                                                              *)

\* None begins another.
Apart(book) ==
  \A i, j \in 1 .. Len(book) : \A k \in 0 .. Len(book[j]) :
    book[i] = Cut(book[j], k) => i = j /\ k = Len(book[j])

\* What is asked of a codebook
Fine(book) ==
  /\ Len(book) \in Nat \ {0} /\ \A j \in 1 .. Len(book) : book[j] \in Seq(Bit) /\ Len(book[j]) \in Nat \ {0}
  /\ Apart(book)
  /\ IsFiniteSet(Begun(book)) /\ Cardinality(Begun(book)) <= Leaf

LEMMA BegunHas ==
  ASSUME NEW book, Fine(book), NEW w
  PROVE  w \in Begun(book) <=> \E j \in 1 .. Len(book) : \E k \in 0 .. Len(book[j]) - 1 : w = Cut(book[j], k)
<1>1. DOMAIN book = 1 .. Len(book)
  BY DEF Fine
<1> QED
  BY <1>1 DEF Begun, Cut

\* A codeword is not what another one has only begun.
LEMMA NotBegun ==
  ASSUME NEW book, Fine(book), NEW j \in 1 .. Len(book)
  PROVE  book[j] \notin Begun(book)
<1> SUFFICES ASSUME book[j] \in Begun(book)
             PROVE  FALSE
  OBVIOUS
<1>1. PICK e \in 1 .. Len(book) : \E k \in 0 .. Len(book[e]) - 1 : book[j] = Cut(book[e], k)
  BY BegunHas
<1>2. PICK k \in 0 .. Len(book[e]) - 1 : book[j] = Cut(book[e], k)
  BY <1>1
<1>3. Len(book[e]) \in Nat
  BY DEF Fine
<1>4. k \in 0 .. Len(book[e]) /\ k # Len(book[e])
  BY <1>3
<1> QED
  BY <1>2, <1>4 DEF Apart, Fine

LEMMA BookIs ==
  ASSUME NEW book \in PrefixFree
  PROVE  Fine(book) /\ \A j \in 1 .. Len(book) : book[j] \in Words
<1> DEFINE n == Len(book)
<1>1. /\ book \in BoundedSeq(Words, BookWords) /\ book # << >>
      /\ \A i, j \in DOMAIN book : i # j => ~IsPrefix(book[i], book[j])
      /\ Cardinality(Begun(book)) <= Leaf
  BY DEF PrefixFree
<1>2. PICK l \in 0 .. BookWords : book \in [1 .. l -> Words]
  BY <1>1 DEF BoundedSeq, SeqOf
<1>3. n \in Nat \ {0} /\ DOMAIN book = 1 .. n /\ \A j \in 1 .. n : book[j] \in Words
  <2>1. l \in Nat
    BY BookAssumption
  <2> QED
    BY <1>1, <1>2, <2>1
<1>4. ASSUME NEW w \in Words
      PROVE  w \in Seq(Bit) /\ Len(w) \in Nat \ {0}
  <2>1. PICK m \in 0 .. WordBits : w \in [1 .. m -> Bit]
    BY DEF Words, BoundedSeq, SeqOf, Bit
  <2>2. w # << >> /\ m \in Nat
    BY BookAssumption DEF Words
  <2> QED
    BY <2>1, <2>2
<1>5. \A j \in 1 .. n : book[j] \in Seq(Bit) /\ Len(book[j]) \in Nat \ {0}
  BY <1>3, <1>4
<1> HIDE DEF n
<1>6. Apart(book)
  <2> SUFFICES ASSUME NEW i \in 1 .. n, NEW j \in 1 .. n, NEW k \in 0 .. Len(book[j]), book[i] = Cut(book[j], k)
               PROVE  i = j /\ k = Len(book[j])
    BY DEF Apart, n
  <2>1. book[i] \in Seq(Bit) /\ book[j] \in Seq(Bit)
    BY <1>5
  <2>2. Len(book[i]) = k
    BY <2>1, CutIs DEF IsCut
  <2>3. IsPrefix(book[i], book[j])
    <3>1. Cut(book[i], k) = book[i]
      BY <2>1, <2>2, CutAll
    <3>2. SubSeq(book[i], 1, k) = SubSeq(book[j], 1, k)
      BY <3>1 DEF Cut
    <3>3. k <= Len(book[j])
      BY <1>5
    <3> QED
      BY <2>2, <3>2, <3>3 DEF IsPrefix
  <2> QED
    BY <1>1, <1>3, <2>2, <2>3
<1>7. IsFiniteSet(Begun(book))
  <2> DEFINE P(j) == {SubSeq(book[j], 1, k) : k \in 0 .. Len(book[j]) - 1}
             S == {P(j) : j \in 1 .. n}
             f == [j \in 1 .. n |-> P(j)]
  <2>1. \A j \in 1 .. n : IsFiniteSet(P(j))
    <3> SUFFICES ASSUME NEW j \in 1 .. n
                 PROVE  IsFiniteSet(P(j))
      OBVIOUS
    <3> DEFINE I == 0 .. Len(book[j]) - 1
               g == [k \in I |-> SubSeq(book[j], 1, k)]
    <3>1. IsFiniteSet(I)
      <4>1. Len(book[j]) - 1 \in Int /\ 0 \in Int
        BY <1>5
      <4> QED
        BY <4>1, FS_Interval
    <3>2. g \in Surjection(I, P(j))
      BY DEF Surjection
    <3> QED
      BY <3>1, <3>2, FS_Surjection
  <2>2. IsFiniteSet(1 .. n)
    BY <1>3, FS_Interval
  <2>3. f \in Surjection(1 .. n, S)
    BY DEF Surjection
  <2>4. IsFiniteSet(S)
    BY <2>2, <2>3, FS_Surjection
  <2>5. \A T \in S : IsFiniteSet(T)
    BY <2>1
  <2>6. Begun(book) = UNION S
    BY <1>3 DEF Begun
  <2> QED
    BY <2>4, <2>5, <2>6, FS_UNION
<1> QED
  BY <1>1, <1>3, <1>5, <1>6, <1>7 DEF Fine, n

-----------------------------------------------------------------------------
(* Trees, and one bit of a codeword.                                       *)

Forks == [1 .. 2 -> Nat]

Slot(tree, m, b) == tree[m + 1][b + 1]

\* What is in a slot below Leaf is a node.
Trees == {tree \in Seq(Forks) : \A m \in 0 .. Len(tree) - 1, b \in Bit :
            Slot(tree, m, b) < Leaf => Slot(tree, m, b) < Len(tree)}

Walks == {t \in [tree : Trees, current : Nat] : t.tree # Thrown => t.current < Len(t.tree)}

\* One slot is set, and nodes that are not set come behind the others.
Grows(tree, m, b, v, n, T) ==
  /\ T \in Seq(Forks) /\ Len(T) = n
  /\ \A l \in 0 .. Len(tree) - 1, a \in Bit : Slot(T, l, a) = IF l = m /\ a = b THEN v ELSE Slot(tree, l, a)
  /\ \A l \in Len(tree) .. n - 1, a \in Bit : Slot(T, l, a) = 0

LEMMA SlotIs ==
  ASSUME NEW tree \in Seq(Forks), NEW m \in 0 .. Len(tree) - 1, NEW b \in Bit
  PROVE  Slot(tree, m, b) \in Nat
<1>1. m + 1 \in 1 .. Len(tree) /\ b + 1 \in 1 .. 2
  BY DEF Bit
<1>2. tree[m + 1] \in Forks
  BY <1>1
<1> QED
  BY <1>1, <1>2 DEF Forks, Slot

\* A slot that is set
LEMMA SetIs ==
  ASSUME NEW tree \in Seq(Forks), NEW m \in 0 .. Len(tree) - 1, NEW b \in Bit, NEW v \in Nat
  PROVE  Grows(tree, m, b, v, Len(tree), [tree EXCEPT ![m + 1][b + 1] = v])
<1> DEFINE T == [tree EXCEPT ![m + 1][b + 1] = v]
           n == Len(tree)
<1>1. n \in Nat /\ m + 1 \in 1 .. n /\ b + 1 \in 1 .. 2 /\ tree \in [1 .. n -> Forks]
  BY DEF Bit
<1>2. tree[m + 1] \in [1 .. 2 -> Nat]
  BY <1>1 DEF Forks
<1>3. T = [i \in 1 .. n |-> IF i = m + 1 THEN [tree[m + 1] EXCEPT ![b + 1] = v] ELSE tree[i]]
  BY <1>1
<1>4. [tree[m + 1] EXCEPT ![b + 1] = v] = [a \in 1 .. 2 |-> IF a = b + 1 THEN v ELSE tree[m + 1][a]]
  BY <1>2
<1> HIDE DEF T
<1>5. [tree[m + 1] EXCEPT ![b + 1] = v] \in Forks
  BY <1>2, <1>4 DEF Forks
<1>6. T \in [1 .. n -> Forks]
  BY <1>1, <1>3, <1>5
<1>7. T \in Seq(Forks) /\ Len(T) = n
  BY <1>1, <1>6
<1>8. ASSUME NEW l \in 0 .. n - 1, NEW a \in Bit
      PROVE  Slot(T, l, a) = IF l = m /\ a = b THEN v ELSE Slot(tree, l, a)
  <2>1. l + 1 \in 1 .. n /\ a + 1 \in 1 .. 2 /\ (l + 1 = m + 1 <=> l = m) /\ (a + 1 = b + 1 <=> a = b)
    BY <1>1 DEF Bit
  <2>2. CASE l = m
    <3>1. T[l + 1] = [c \in 1 .. 2 |-> IF c = b + 1 THEN v ELSE tree[m + 1][c]]
      BY <1>3, <1>4, <2>1, <2>2
    <3> QED
      BY <2>1, <2>2, <3>1 DEF Slot
  <2>3. CASE l # m
    BY <1>3, <2>1, <2>3 DEF Slot
  <2> QED
    BY <2>2, <2>3
<1>9. \A l \in n .. n - 1 : FALSE
  BY <1>1
<1> QED
  BY <1>7, <1>8, <1>9 DEF Grows, T

\* A node behind the others
LEMMA NodeBehind ==
  ASSUME NEW tree \in Seq(Forks), NEW m \in 0 .. Len(tree) - 1, NEW b \in Bit, NEW v \in Nat
  PROVE  Grows(tree, m, b, v, Len(tree) + 1, [tree EXCEPT ![m + 1][b + 1] = v] \o <<(<<0, 0>>)>>)
<1> DEFINE S == [tree EXCEPT ![m + 1][b + 1] = v]
           n == Len(tree)
           r == <<0, 0>>
           T == S \o <<r>>
<1>1. Grows(tree, m, b, v, n, S)
  BY SetIs
<1>2. r \in Forks /\ r[1] = 0 /\ r[2] = 0
  BY DEF Forks
<1> HIDE DEF S, r
<1>3. S \in Seq(Forks) /\ Len(S) = n /\ n \in Nat
  BY <1>1 DEF Grows
<1>4. <<r>> \in Seq(Forks) /\ Len(<<r>>) = 1 /\ <<r>>[1] = r
  BY <1>2
<1>5. /\ T \in Seq(Forks) /\ Len(T) = n + 1 /\ T[n + 1] = r
      /\ \A i \in 1 .. n : T[i] = S[i]
  BY <1>3, <1>4
<1> HIDE DEF T
<1>6. \A l \in 0 .. n - 1, a \in Bit : Slot(T, l, a) = Slot(S, l, a)
  <2>1. \A l \in 0 .. n - 1 : l + 1 \in 1 .. n
    BY <1>3
  <2> QED
    BY <1>5, <2>1 DEF Slot
<1>7. \A l \in 0 .. n - 1, a \in Bit : Slot(T, l, a) = IF l = m /\ a = b THEN v ELSE Slot(tree, l, a)
  BY <1>1, <1>6 DEF Grows
<1>8. \A l \in n .. (n + 1) - 1, a \in Bit : Slot(T, l, a) = 0
  <2>1. \A l \in n .. (n + 1) - 1 : l = n
    BY <1>3
  <2>2. \A a \in Bit : a + 1 = 1 \/ a + 1 = 2
    BY DEF Bit
  <2> QED
    BY <1>2, <1>5, <2>1, <2>2 DEF Slot
<1> QED
  BY <1>5, <1>7, <1>8 DEF Grows, T, S, r

\* What a step does where the tree is not thrown
StepSays(t, bit, last, codeIndex, u) ==
  LET next == Slot(t.tree, t.current, bit)
      n    == Len(t.tree)
  IN  /\ next >= Leaf => u.tree = Thrown
      /\ next # 0 /\ next < Leaf => u.tree = t.tree /\ u.current = next
      /\ next = 0 /\ last => Grows(t.tree, t.current, bit, Leaf + codeIndex, n, u.tree)
      /\ next = 0 /\ ~last => Grows(t.tree, t.current, bit, n, n + 1, u.tree) /\ u.current = n

LEMMA StepIs ==
  ASSUME NEW t \in Walks, NEW bit \in Bit, NEW last \in BOOLEAN, NEW codeIndex \in Nat
  PROVE  /\ t.tree = Thrown => Step(t, bit, last, codeIndex).tree = Thrown
         /\ t.tree # Thrown => StepSays(t, bit, last, codeIndex, Step(t, bit, last, codeIndex))
         /\ Step(t, bit, last, codeIndex) \in Walks
<1> DEFINE u == Step(t, bit, last, codeIndex)
           T == t.tree
           m == t.current
           n == Len(T)
           next == Slot(T, m, bit)
           S(v) == [T EXCEPT ![m + 1][bit + 1] = v]
<1>1. /\ t \in [tree : Trees, current : Nat] /\ T \in Trees /\ m \in Nat
      /\ T # Thrown => m < n
      /\ T \in Seq(Forks) /\ n \in Nat
  BY DEF Walks, Trees
<1>2. Thrown \in Trees
  <2>1. << >> \in Seq(Forks) /\ 0 .. Len(<< >>) - 1 = {}
    OBVIOUS
  <2> QED
    BY <2>1 DEF Trees, Thrown
<1>3. CASE T = Thrown \/ next >= Leaf
  <2>1. u = [t EXCEPT !.tree = Thrown]
    BY <1>3 DEF Step, Slot
  <2>2. u \in [tree : Trees, current : Nat] /\ u.tree = Thrown
    BY <1>1, <1>2, <2>1
  <2>3. u \in Walks
    BY <2>2 DEF Walks
  <2>4. T # Thrown => next \in Nat
    BY <1>1, SlotIs
  <2>5. T # Thrown => next # 0 /\ ~(next < Leaf)
    BY <1>3, <2>4 DEF Leaf
  <2> HIDE DEF u, next
  <2> QED
    BY <1>3, <2>2, <2>3, <2>5 DEF StepSays, u, next
<1>4. CASE T # Thrown /\ ~(next >= Leaf)
  <2>1. m \in 0 .. n - 1 /\ m < n
    BY <1>1, <1>4
  <2>2. next \in Nat /\ next < Leaf /\ next < n
    <3>1. next \in Nat
      BY <1>1, <2>1, SlotIs
    <3>2. next < Leaf
      BY <1>4, <3>1 DEF Leaf
    <3> QED
      BY <1>1, <2>1, <3>1, <3>2 DEF Trees
  <2>3. CASE next # 0
    <3>1. u = [t EXCEPT !.current = next]
      BY <1>4, <2>3 DEF Step, Slot
    <3> HIDE DEF next
    <3>2. u \in [tree : Trees, current : Nat] /\ u.tree = T /\ u.current = next
      BY <1>1, <2>2, <3>1
    <3>3. u \in Walks
      BY <2>2, <3>2 DEF Walks
    <3>4. ~(next >= Leaf)
      BY <1>4
    <3> HIDE DEF u
    <3> QED
      BY <1>4, <2>3, <3>2, <3>3, <3>4 DEF StepSays, next, u
  <2>4. ASSUME next = 0, NEW v \in Nat, NEW k \in {n, n + 1}, NEW U, Grows(T, m, bit, v, k, U), v < Leaf => v < k
        PROVE  U \in Trees /\ U # Thrown
    <3>1. U \in Seq(Forks) /\ Len(U) = k /\ k >= n /\ k \in Nat /\ k > 0
      BY <1>1, <2>1, <2>4 DEF Grows
    <3>2. ASSUME NEW l \in 0 .. Len(U) - 1, NEW a \in Bit, Slot(U, l, a) < Leaf
          PROVE  Slot(U, l, a) < Len(U)
      <4>1. CASE l \in 0 .. n - 1
        <5>1. Slot(U, l, a) = IF l = m /\ a = bit THEN v ELSE Slot(T, l, a)
          BY <2>4, <4>1 DEF Grows
        <5>2. Slot(T, l, a) \in Nat /\ (Slot(T, l, a) < Leaf => Slot(T, l, a) < n)
          BY <1>1, <4>1, SlotIs DEF Trees
        <5> QED
          BY <1>1, <2>4, <3>1, <3>2, <5>1, <5>2
      <4>2. CASE l \notin 0 .. n - 1
        <5>1. l \in n .. k - 1
          BY <1>1, <3>1, <4>2
        <5>2. Slot(U, l, a) = 0
          BY <2>4, <5>1 DEF Grows
        <5> QED
          BY <3>1, <5>2
      <4> QED
        BY <4>1, <4>2
    <3>3. U # Thrown
      BY <3>1 DEF Thrown
    <3> QED
      BY <3>1, <3>2, <3>3 DEF Trees
  <2>5. CASE next = 0 /\ last
    <3> DEFINE v == Leaf + codeIndex
               U == S(v)
    <3>1. u = [tree |-> U \o << >>, current |-> m]
      <4>1. u = [tree |-> [T EXCEPT ![m + 1][bit + 1] = Leaf + codeIndex] \o << >>, current |-> m]
        BY <1>4, <2>5 DEF Step, Slot
      <4> QED
        BY <4>1
    <3>2. v \in Nat /\ ~(v < Leaf)
      BY DEF Leaf
    <3> HIDE DEF v
    <3>3. Grows(T, m, bit, v, n, U)
      BY <1>1, <2>1, <3>2, SetIs
    <3> HIDE DEF U
    <3>4. U \in Trees /\ U \in Seq(Forks) /\ Len(U) = n
      <4>1. n \in {n, n + 1}
        OBVIOUS
      <4>2. U \in Trees
        BY <2>4, <2>5, <3>2, <3>3, <4>1
      <4> QED
        BY <3>3, <4>2 DEF Grows
    <3>5. U \o << >> = U
      BY <3>4
    <3>6. u \in [tree : Trees, current : Nat] /\ u.tree = U /\ u.current = m
      BY <1>1, <3>1, <3>4, <3>5
    <3>7. u \in Walks
      BY <2>1, <3>4, <3>6 DEF Walks
    <3> HIDE DEF u, next
    <3> QED
      BY <1>4, <2>5, <3>3, <3>6, <3>7 DEF StepSays, next, u, v
  <2>6. CASE next = 0 /\ ~last
    <3> DEFINE U == S(n) \o <<(<<0, 0>>)>>
    <3>1. u = [tree |-> U, current |-> n]
      BY <1>4, <2>6 DEF Step, Slot
    <3>2. Grows(T, m, bit, n, n + 1, U)
      BY <1>1, <2>1, NodeBehind
    <3> HIDE DEF U
    <3>3. U \in Trees /\ Len(U) = n + 1
      <4>1. n + 1 \in {n, n + 1} /\ n < n + 1
        BY <1>1
      <4>2. U \in Trees
        BY <1>1, <2>4, <2>6, <3>2, <4>1
      <4> QED
        BY <3>2, <4>2 DEF Grows
    <3>4. u \in [tree : Trees, current : Nat] /\ u.tree = U /\ u.current = n
      BY <1>1, <3>1, <3>3
    <3>5. u \in Walks
      BY <1>1, <3>3, <3>4 DEF Walks
    <3> HIDE DEF u, next
    <3> QED
      BY <1>4, <2>6, <3>2, <3>4, <3>5 DEF StepSays, next, u
  <2> QED
    BY <2>3, <2>5, <2>6
<1> QED
  BY <1>3, <1>4

-----------------------------------------------------------------------------
(* What a tree stands for: a node for what begins a codeword, a leaf for   *)
(* one of the first d codewords.                                           *)

SlotFine(book, tree, path, d, m, b) ==
  \/ Slot(tree, m, b) = 0
  \/ Slot(tree, m, b) \in 1 .. Len(tree) - 1 /\ path[Slot(tree, m, b)] = Append(path[m], b)
  \/ \E e \in 1 .. d : Slot(tree, m, b) = Leaf + e - 1 /\ book[e] = Append(path[m], b)

Shape(book, tree, path, d) ==
  /\ tree \in Seq(Forks) /\ Len(tree) \in 1 .. Leaf
  /\ path \in [0 .. Len(tree) - 1 -> Begun(book)] /\ path[0] = << >>
  /\ \A l, m \in 0 .. Len(tree) - 1 : path[l] = path[m] => l = m
  /\ \A m \in 0 .. Len(tree) - 1, b \in Bit : SlotFine(book, tree, path, d, m, b)
  /\ \A c \in 1 .. Len(tree) - 1 : \E m \in 0 .. Len(tree) - 1, b \in Bit : Slot(tree, m, b) = c

\* The walk along w finds each slot set.
There(tree, path, w) ==
  \E m \in 0 .. Len(tree) - 1, b \in Bit : w = Append(path[m], b) /\ Slot(tree, m, b) # 0

LEMMA BegunWords ==
  ASSUME NEW book, Fine(book), NEW w \in Begun(book)
  PROVE  w \in Seq(Bit)
<1>0. PICK j \in 1 .. Len(book) : \E k \in 0 .. Len(book[j]) - 1 : w = Cut(book[j], k)
  BY BegunHas
<1>1. PICK k \in 0 .. Len(book[j]) - 1 : w = Cut(book[j], k)
  BY <1>0
<1>2. book[j] \in Seq(Bit)
  BY DEF Fine
<1>3. k \in 0 .. Len(book[j])
  BY <1>2
<1> QED
  BY <1>1, <1>2, <1>3, CutIs DEF IsCut

LEMMA LeafIs == Leaf \in Nat
BY DEF Leaf

\* No node stands for what is behind a slot that is not set.
LEMMA NoNodeThere ==
  ASSUME NEW book, Fine(book), NEW tree, NEW path, NEW d \in Nat, Shape(book, tree, path, d),
         NEW m \in 0 .. Len(tree) - 1, NEW b \in Bit, Slot(tree, m, b) = 0,
         NEW l \in 0 .. Len(tree) - 1
  PROVE  path[l] # Append(path[m], b)
<1> SUFFICES ASSUME path[l] = Append(path[m], b)
             PROVE  FALSE
  OBVIOUS
<1>1. \A c \in 0 .. Len(tree) - 1 : path[c] \in Seq(Bit)
  BY BegunWords DEF Shape
<1>2. l # 0
  <2>1. Len(Append(path[m], b)) = Len(path[m]) + 1 /\ path[m] \in Seq(Bit)
    BY <1>1, AppendIs
  <2>2. Len(Append(path[m], b)) # 0
    <3> DEFINE k == Len(path[m])
    <3>1. k \in Nat
      BY <2>1
    <3> HIDE DEF k
    <3>2. k + 1 # 0
      BY <3>1
    <3> QED
      BY <2>1, <3>2 DEF k
  <2>3. path[0] = << >> /\ Len(<< >>) = 0
    BY DEF Shape
  <2> QED
    BY <2>2, <2>3
<1>3. l \in 1 .. Len(tree) - 1 /\ l < Leaf /\ l \in Nat
  <2> DEFINE n == Len(tree)
  <2>1. n \in 1 .. Leaf /\ l \in 0 .. n - 1
    BY DEF Shape
  <2> HIDE DEF n
  <2>2. l \in 1 .. n - 1 /\ l < Leaf /\ l \in Nat
    BY <1>2, <2>1, LeafIs
  <2> QED
    BY <2>2 DEF n
<1>4. PICK k \in 0 .. Len(tree) - 1, a \in Bit : Slot(tree, k, a) = l
  BY <1>3 DEF Shape
<1>5. SlotFine(book, tree, path, d, k, a)
  BY DEF Shape
<1>6. \A e \in 1 .. d : l # Leaf + e - 1
  BY <1>3 DEF Leaf
<1>7. path[l] = Append(path[k], a)
  <2>1. \/ l = 0
        \/ path[l] = Append(path[k], a)
        \/ \E e \in 1 .. d : l = Leaf + e - 1
    BY <1>4, <1>5 DEF SlotFine
  <2> QED
    BY <1>2, <1>6, <2>1
<1>8. path[k] = path[m] /\ a = b
  <2>1. path[k] \in Seq(Bit) /\ path[m] \in Seq(Bit) /\ Append(path[k], a) = Append(path[m], b)
    BY <1>1, <1>7
  <2> DEFINE y == path[k]
             z == path[m]
  <2> HIDE DEF y, z
  <2>2. y \in Seq(Bit) /\ z \in Seq(Bit)
    BY <2>1 DEF y, z
  <2>3. Append(y, a) = Append(z, b) => y = z /\ a = b
    BY <2>2, EndSame
  <2> QED
    BY <2>1, <2>3 DEF y, z
<1>9. k = m
  BY <1>8 DEF Shape
<1> QED
  BY <1>3, <1>4, <1>8, <1>9

LEMMA LeafGrows ==
  ASSUME NEW book, NEW tree, NEW path, NEW d \in Nat, Shape(book, tree, path, d),
         NEW m \in 0 .. Len(tree) - 1, NEW b \in Bit, Slot(tree, m, b) = 0,
         book[d + 1] = Append(path[m], b),
         NEW T, Grows(tree, m, b, Leaf + d, Len(tree), T)
  PROVE  /\ Shape(book, T, path, d + 1)
         /\ \A w : There(tree, path, w) => There(T, path, w)
         /\ There(T, path, Append(path[m], b))
<1> DEFINE n == Len(tree)
           v == Leaf + d
<1>1. /\ tree \in Seq(Forks) /\ n \in 1 .. Leaf
      /\ path \in [0 .. n - 1 -> Begun(book)] /\ path[0] = << >>
      /\ \A k, l \in 0 .. n - 1 : path[k] = path[l] => k = l
      /\ \A l \in 0 .. n - 1, a \in Bit : SlotFine(book, tree, path, d, l, a)
      /\ \A c \in 1 .. n - 1 : \E l \in 0 .. n - 1, a \in Bit : Slot(tree, l, a) = c
  BY DEF Shape
<1>2. v \in Nat /\ v # 0 /\ v = Leaf + (d + 1) - 1 /\ d + 1 \in 1 .. d + 1 /\ \A e \in 1 .. d : e \in 1 .. d + 1
  BY DEF Leaf
<1> HIDE DEF v
<1>3. /\ T \in Seq(Forks) /\ Len(T) = n
      /\ \A l \in 0 .. n - 1, a \in Bit : Slot(T, l, a) = IF l = m /\ a = b THEN v ELSE Slot(tree, l, a)
  BY DEF Grows, v
<1> HIDE DEF n
<1>4. m \in 0 .. n - 1
  BY DEF n
<1>5. ASSUME NEW l \in 0 .. n - 1, NEW a \in Bit
      PROVE  SlotFine(book, T, path, d + 1, l, a)
  <2>1. CASE l = m /\ a = b
    BY <1>2, <1>3, <2>1 DEF SlotFine
  <2>2. CASE ~(l = m /\ a = b)
    <3>1. Slot(T, l, a) = Slot(tree, l, a) /\ SlotFine(book, tree, path, d, l, a)
      BY <1>1, <1>3, <2>2
    <3> QED
      BY <1>2, <1>3, <3>1 DEF SlotFine, n
  <2> QED
    BY <2>1, <2>2
<1>6. ASSUME NEW l \in 0 .. n - 1, NEW a \in Bit, Slot(tree, l, a) # 0
      PROVE  Slot(T, l, a) = Slot(tree, l, a)
  <2>1. ~(l = m /\ a = b)
    BY <1>6
  <2> QED
    BY <1>3, <2>1
<1>7. ASSUME NEW c \in 1 .. n - 1
      PROVE  \E l \in 0 .. n - 1, a \in Bit : Slot(T, l, a) = c
  <2>1. PICK l \in 0 .. n - 1, a \in Bit : Slot(tree, l, a) = c
    BY <1>1
  <2>2. c # 0
    BY <1>1
  <2> QED
    BY <1>6, <2>1, <2>2
<1>8. Shape(book, T, path, d + 1)
  BY <1>1, <1>3, <1>5, <1>7 DEF Shape
<1>9. ASSUME NEW w, There(tree, path, w)
      PROVE  There(T, path, w)
  <2>1. PICK l \in 0 .. n - 1, a \in Bit : w = Append(path[l], a) /\ Slot(tree, l, a) # 0
    BY <1>9 DEF There, n
  <2>2. Slot(T, l, a) # 0 /\ l \in 0 .. Len(T) - 1
    BY <1>3, <1>6, <2>1
  <2> QED
    BY <2>1, <2>2 DEF There
<1>10. There(T, path, Append(path[m], b))
  BY <1>2, <1>3, <1>4 DEF There
<1> QED
  BY <1>8, <1>9, <1>10

\* What a node adds
Longer(tree, path, m, b) ==
  [l \in 0 .. Len(tree) |-> IF l = Len(tree) THEN Append(path[m], b) ELSE path[l]]

LEMMA NodeGrows ==
  ASSUME NEW book, Fine(book), NEW tree, NEW path, NEW d \in Nat, Shape(book, tree, path, d),
         NEW m \in 0 .. Len(tree) - 1, NEW b \in Bit, Slot(tree, m, b) = 0,
         Append(path[m], b) \in Begun(book),
         NEW T, Grows(tree, m, b, Len(tree), Len(tree) + 1, T)
  PROVE  /\ Shape(book, T, Longer(tree, path, m, b), d)
         /\ \A w : There(tree, path, w) => There(T, Longer(tree, path, m, b), w)
         /\ There(T, Longer(tree, path, m, b), Append(path[m], b))
<1> DEFINE n == Len(tree)
           x == Append(path[m], b)
           p == Longer(tree, path, m, b)
<1>1. /\ tree \in Seq(Forks) /\ n \in 1 .. Leaf
      /\ path \in [0 .. n - 1 -> Begun(book)] /\ path[0] = << >>
      /\ \A k, l \in 0 .. n - 1 : path[k] = path[l] => k = l
      /\ \A l \in 0 .. n - 1, a \in Bit : SlotFine(book, tree, path, d, l, a)
      /\ \A c \in 1 .. n - 1 : \E l \in 0 .. n - 1, a \in Bit : Slot(tree, l, a) = c
  BY DEF Shape
<1>2. /\ T \in Seq(Forks) /\ Len(T) = n + 1
      /\ \A l \in 0 .. n - 1, a \in Bit : Slot(T, l, a) = IF l = m /\ a = b THEN n ELSE Slot(tree, l, a)
      /\ \A l \in n .. (n + 1) - 1, a \in Bit : Slot(T, l, a) = 0
  BY DEF Grows
<1>3. \A l \in 0 .. n - 1 : path[l] # x
  BY NoNodeThere
<1>4. p = [l \in 0 .. n |-> IF l = n THEN x ELSE path[l]] /\ x \in Begun(book) /\ m \in 0 .. n - 1
  BY DEF Longer
<1> HIDE DEF x, p
<1>5. /\ n \in Nat /\ n > 0 /\ 0 .. (n + 1) - 1 = 0 .. n /\ n \in 0 .. n /\ n # m
      /\ \A l \in 0 .. n : l = n \/ l \in 0 .. n - 1
      /\ \A l \in 0 .. n - 1 : l \in 0 .. n /\ l # n
      /\ n .. (n + 1) - 1 = {n} /\ 0 \in 0 .. n - 1
      /\ 1 .. (n + 1) - 1 = 1 .. n /\ n \in 1 .. n
      /\ \A l \in 1 .. n - 1 : l \in 1 .. n /\ l \in 0 .. n - 1 /\ l # 0
      /\ \A l \in 1 .. n : l = n \/ l \in 1 .. n - 1
  BY <1>1, <1>4
<1> HIDE DEF n
<1>6. p[n] = x /\ \A l \in 0 .. n - 1 : p[l] = path[l]
  BY <1>4, <1>5
<1>7. p \in [0 .. n -> Begun(book)]
  BY <1>1, <1>4, <1>5
<1>8. ASSUME NEW k \in 0 .. n, NEW l \in 0 .. n, p[k] = p[l]
      PROVE  k = l
  BY <1>1, <1>3, <1>5, <1>6, <1>8
<1>9. n + 1 \in 1 .. Leaf
  <2>1. p \in Injection(0 .. n, Begun(book))
    BY <1>7, <1>8 DEF Injection, IsInjective
  <2>2. IsFiniteSet(Begun(book)) /\ Cardinality(Begun(book)) <= Leaf /\ Cardinality(Begun(book)) \in Nat
    BY FS_CardinalityType DEF Fine
  <2>3. Cardinality(0 .. n) <= Cardinality(Begun(book))
    BY <2>1, <2>2, FS_Injection
  <2>4. Cardinality(0 .. n) = n + 1
    <3>1. Cardinality(0 .. n) = IF 0 > n THEN 0 ELSE n - 0 + 1
      BY <1>5, FS_Interval
    <3> QED
      BY <1>5, <3>1
  <2> QED
    BY <1>5, <2>2, <2>3, <2>4 DEF Leaf
<1>10. ASSUME NEW l \in 0 .. n - 1, NEW a \in Bit, ~(l = m /\ a = b)
       PROVE  Slot(T, l, a) = Slot(tree, l, a)
  BY <1>2, <1>10
<1>11. Slot(T, m, b) = n /\ \A a \in Bit : Slot(T, n, a) = 0
  BY <1>2, <1>4, <1>5
<1>12. ASSUME NEW l \in 0 .. n, NEW a \in Bit
       PROVE  SlotFine(book, T, p, d, l, a)
  <2>1. CASE l = n
    BY <1>11, <2>1 DEF SlotFine
  <2>2. CASE l = m /\ a = b
    <3>1. Slot(T, l, a) = n /\ p[n] = x /\ p[l] = path[m] /\ n \in 1 .. Len(T) - 1
      BY <1>2, <1>4, <1>5, <1>6, <1>11, <2>2
    <3> QED
      BY <2>2, <3>1 DEF SlotFine, x
  <2>3. CASE l \in 0 .. n - 1 /\ ~(l = m /\ a = b)
    <3>1. Slot(T, l, a) = Slot(tree, l, a) /\ SlotFine(book, tree, path, d, l, a) /\ p[l] = path[l]
      BY <1>1, <1>6, <1>10, <2>3
    <3>2. ASSUME Slot(tree, l, a) \in 1 .. n - 1
          PROVE  p[Slot(tree, l, a)] = path[Slot(tree, l, a)] /\ Slot(tree, l, a) \in 1 .. Len(T) - 1
      BY <1>2, <1>5, <1>6, <3>2
    <3> QED
      BY <3>1, <3>2 DEF SlotFine, n
  <2> QED
    BY <1>5, <2>1, <2>2, <2>3
<1>13. ASSUME NEW c \in 1 .. n
       PROVE  \E l \in 0 .. n, a \in Bit : Slot(T, l, a) = c
  <2>1. CASE c = n
    BY <1>4, <1>5, <1>11, <2>1
  <2>2. CASE c \in 1 .. n - 1
    <3>1. PICK l \in 0 .. n - 1, a \in Bit : Slot(tree, l, a) = c
      BY <1>1, <2>2
    <3>2. ~(l = m /\ a = b)
      BY <1>5, <2>2, <3>1
    <3> QED
      BY <1>5, <1>10, <3>1, <3>2
  <2> QED
    BY <1>5, <2>1, <2>2
<1>14. Shape(book, T, p, d)
  <2>1. Len(T) - 1 = n
    BY <1>2, <1>5
  <2>2. p[0] = << >>
    BY <1>1, <1>5, <1>6
  <2> QED
    BY <1>2, <1>7, <1>8, <1>9, <1>12, <1>13, <2>1, <2>2 DEF Shape
<1>15. Len(T) - 1 = n
  BY <1>2, <1>5
<1>16. ASSUME NEW w, There(tree, path, w)
       PROVE  There(T, p, w)
  <2>1. PICK l \in 0 .. n - 1, a \in Bit : w = Append(path[l], a) /\ Slot(tree, l, a) # 0
    BY <1>16 DEF There, n
  <2>2. Slot(T, l, a) # 0 /\ w = Append(p[l], a)
    BY <1>6, <1>10, <2>1
  <2> QED
    BY <1>5, <1>15, <2>2 DEF There
<1>17. There(T, p, x)
  <2>1. x = Append(p[m], b)
    BY <1>4, <1>6 DEF x
  <2>2. Slot(T, m, b) # 0 /\ m \in 0 .. Len(T) - 1
    BY <1>4, <1>5, <1>11, <1>15
  <2> QED
    BY <2>1, <2>2 DEF There
<1> QED
  BY <1>14, <1>16, <1>17 DEF p, x

-----------------------------------------------------------------------------
(* The codewords one behind the other.                                     *)

\* The first d codewords are in the tree from their first bit to their last.
Spelt(book, tree, path, d) ==
  \A e \in 1 .. d : \A k \in 1 .. Len(book[e]) : There(tree, path, Cut(book[e], k))

\* Codeword j is in the tree up to bit i, and it is there that the walk is.
Going(book, t, path, j, i) ==
  /\ Shape(book, t.tree, path, j - 1) /\ Spelt(book, t.tree, path, j - 1)
  /\ \A k \in 1 .. i : There(t.tree, path, Cut(book[j], k))
  /\ t.current \in 0 .. Len(t.tree) - 1 /\ path[t.current] = Cut(book[j], i)

Built(book, tree, path, d) == Shape(book, tree, path, d) /\ Spelt(book, tree, path, d)

LEMMA GoingOn ==
  ASSUME NEW book, Fine(book), NEW j \in 1 .. Len(book), NEW i \in 1 .. Len(book[j]),
         NEW t \in Walks, NEW path, Going(book, t, path, j, i - 1),
         NEW u, StepSays(t, book[j][i], i = Len(book[j]), j - 1, u)
  PROVE  \E p : /\ i < Len(book[j]) => Going(book, u, p, j, i)
                /\ i = Len(book[j]) => Built(book, u.tree, p, j)
<1> DEFINE w == book[j]
           b == w[i]
           T == t.tree
           U == u.tree
           m == t.current
           n == Len(T)
           d == j - 1
           next == Slot(T, m, b)
           c == Cut(w, i)
<1>1. /\ w \in Seq(Bit) /\ Len(w) \in Nat /\ j \in Nat /\ d \in Nat /\ d + 1 = j /\ i \in Nat /\ i <= Len(w) /\ i > 0
      /\ i \in 0 .. Len(w) /\ (~(i < Len(w)) => i = Len(w))
  BY DEF Fine
<1>2. b \in Bit /\ c = Append(Cut(w, i - 1), b)
  BY <1>1, CutNext
<1>3. /\ Shape(book, T, path, d) /\ Spelt(book, T, path, d)
      /\ \A k \in 1 .. i - 1 : There(T, path, Cut(w, k))
      /\ m \in 0 .. n - 1 /\ path[m] = Cut(w, i - 1)
  BY DEF Going
<1>4. c = Append(path[m], b)
  BY <1>2, <1>3
<1>5. n \in 1 .. Leaf /\ T \in Seq(Forks) /\ SlotFine(book, T, path, d, m, b) /\ next \in Nat
  BY <1>2, <1>3, SlotIs DEF Shape
<1>6. /\ next >= Leaf => U = Thrown
      /\ next # 0 /\ next < Leaf => U = T /\ u.current = next
      /\ next = 0 /\ i = Len(w) => Grows(T, m, b, Leaf + d, n, U)
      /\ next = 0 /\ i # Len(w) => Grows(T, m, b, n, n + 1, U) /\ u.current = n
  BY DEF StepSays
<1>7. Apart(book)
  BY DEF Fine
<1>8. \A k \in 1 .. i : k = i \/ k \in 1 .. i - 1
  BY <1>1
<1>9. \A e \in 1 .. j : e = j \/ e \in 1 .. d
  BY <1>1
<1>13. next = Slot(T, m, b)
  OBVIOUS
<1> HIDE DEF w, b, T, U, m, n, c, d, next
<1>10. CASE next # 0
  <2>1. ASSUME NEW e \in 1 .. d, book[e] = c
        PROVE  FALSE
    <3>1. e \in 1 .. Len(book) /\ e # j
      BY <1>1
    <3>2. book[e] = Cut(book[j], i) /\ i \in 0 .. Len(book[j])
      BY <1>1, <2>1 DEF c, w
    <3> QED
      BY <1>7, <3>1, <3>2 DEF Apart
  <2>2. next \in 1 .. n - 1 /\ path[next] = c
    BY <1>4, <1>5, <1>10, <2>1 DEF SlotFine, n, next
  <2>3. next < Leaf /\ next \in 0 .. n - 1
    BY <1>5, <2>2, LeafIs
  <2>4. U = T /\ u.current = next
    BY <1>6, <1>10, <2>3
  <2>5. i # Len(w)
    <3> SUFFICES ASSUME i = Len(w)
                 PROVE  FALSE
      OBVIOUS
    <3>1. c = w
      BY <1>1, CutAll DEF c
    <3>2. w \in Begun(book)
      <4>1. path \in [0 .. n - 1 -> Begun(book)]
        BY <1>3 DEF Shape, n
      <4> QED
        BY <2>2, <2>3, <3>1, <4>1
    <3> QED
      BY <3>2, NotBegun DEF w
  <2>6. There(T, path, c)
    BY <1>2, <1>3, <1>4, <1>10, <1>13 DEF There, n
  <2>7. \A k \in 1 .. i : There(T, path, Cut(w, k))
    BY <1>3, <1>8, <2>6 DEF c
  <2>8. Going(book, u, path, j, i)
    BY <1>3, <2>2, <2>3, <2>4, <2>7 DEF Going, T, U, n, w, c, d
  <2> QED
    BY <2>5, <2>8 DEF w
<1>11. CASE next = 0 /\ i = Len(w)
  <2>1. book[d + 1] = Append(path[m], b)
    <3>1. c = w
      BY <1>1, <1>11, CutAll DEF c
    <3> QED
      BY <1>1, <1>4, <3>1 DEF w
  <2>2. Grows(T, m, b, Leaf + d, n, U)
    BY <1>6, <1>11
  <2>3. /\ Shape(book, U, path, d + 1)
        /\ \A x : There(T, path, x) => There(U, path, x)
        /\ There(U, path, Append(path[m], b))
    BY <1>1, <1>2, <1>3, <1>11, <1>13, <2>1, <2>2, LeafGrows DEF n
  <2>4. \A k \in 1 .. i : There(U, path, Cut(w, k))
    BY <1>3, <1>4, <1>8, <2>3 DEF c
  <2>5. Spelt(book, U, path, j)
    BY <1>3, <1>9, <1>11, <2>3, <2>4 DEF Spelt, w
  <2>6. Built(book, U, path, j)
    BY <1>1, <2>3, <2>5 DEF Built
  <2> QED
    BY <1>1, <1>11, <2>6 DEF U, w
<1>12. CASE next = 0 /\ i # Len(w)
  <2> DEFINE p == Longer(T, path, m, b)
  <2>1. Append(path[m], b) \in Begun(book)
    <3>1. i \in 0 .. Len(book[j]) - 1 /\ c = Cut(book[j], i)
      BY <1>1, <1>12 DEF w, c
    <3> QED
      BY <1>4, <3>1, BegunHas
  <2>2. Grows(T, m, b, n, n + 1, U) /\ u.current = n
    BY <1>6, <1>12
  <2>3. /\ Shape(book, U, p, d)
        /\ \A x : There(T, path, x) => There(U, p, x)
        /\ There(U, p, Append(path[m], b))
    BY <1>1, <1>2, <1>3, <1>12, <1>13, <2>1, <2>2, NodeGrows DEF n
  <2>4. p[n] = c
    <3>1. n \in 0 .. n
      BY <1>5
    <3> QED
      BY <1>4, <3>1 DEF Longer, n
  <2> HIDE DEF p
  <2>5. \A k \in 1 .. i : There(U, p, Cut(w, k))
    BY <1>3, <1>4, <1>8, <2>3 DEF c
  <2>6. Spelt(book, U, p, d)
    BY <1>3, <2>3 DEF Spelt
  <2>7. u.current \in 0 .. Len(U) - 1
    <3>1. Len(U) = n + 1
      BY <2>2 DEF Grows
    <3> QED
      BY <1>5, <2>2, <3>1
  <2>8. Going(book, u, p, j, i)
    BY <2>2, <2>3, <2>4, <2>5, <2>6, <2>7 DEF Going, U, w, c, d
  <2> QED
    BY <1>12, <2>8 DEF w
<1> QED
  BY <1>10, <1>11, <1>12

-----------------------------------------------------------------------------
(* The folds.                                                              *)

\* The tree of AppendCodeword from bit to bit
Walk(tree, codeIndex, w, f) ==
  /\ f[{}] = [tree |-> tree, current |-> 0]
  /\ \A k \in 1 .. Len(w) : f[1 .. k] = Step(f[1 .. k - 1], w[k], k = Len(w), codeIndex)
  /\ AppendCodeword(tree, codeIndex, w) = f[1 .. Len(w)].tree

LEMMA RootWalks ==
  ASSUME NEW tree \in Trees
  PROVE  [tree |-> tree, current |-> 0] \in Walks
<1> DEFINE t == [tree |-> tree, current |-> 0]
<1>1. t.tree = tree /\ t.current = 0 /\ t \in [tree : Trees, current : Nat]
  OBVIOUS
<1> HIDE DEF t
<1>2. tree # Thrown => 0 < Len(tree)
  BY DEF Trees, Thrown
<1>3. t \in Walks
  BY <1>1, <1>2 DEF Walks
<1> QED
  BY <1>3 DEF t

LEMMA CodewordGoes ==
  ASSUME NEW tree \in Trees, NEW codeIndex \in Nat, NEW w \in Seq(Bit)
  PROVE  \E f : Walk(tree, codeIndex, w, f)
<1> DEFINE n == Len(w)
           base == [tree |-> tree, current |-> 0]
           seq == [i \in DOMAIN w |-> i]
           act == [i \in 1 .. n |-> [t \in Walks |-> Step(t, w[i], i = n, codeIndex)]]
           Eq(g) == g = [s \in SUBSET DOMAIN seq |->
                           IF s = {} THEN base
                           ELSE Step(g[s \ {Max(s)}], w[seq[Max(s)]], seq[Max(s)] = Len(w), codeIndex)]
           f == CHOOSE g : Eq(g)
<1>1. AppendCodeword(tree, codeIndex, w) = f[DOMAIN seq].tree
  BY DEF AppendCodeword, FoldLeft, MapThenFoldSet
<1>2. n \in Nat /\ DOMAIN seq = 1 .. n /\ (\A i \in 1 .. n : seq[i] = i) /\ \A i \in 1 .. n : w[i] \in Bit
  OBVIOUS
<1> HIDE DEF seq
<1>3. base \in Walks
  BY RootWalks
<1>4. ASSUME NEW t \in Walks, NEW i \in 1 .. n
      PROVE  Step(t, w[i], i = n, codeIndex) \in Walks
  <2> DEFINE last == i = n
  <2>1. last \in BOOLEAN
    OBVIOUS
  <2> HIDE DEF last
  <2>2. Step(t, w[i], last, codeIndex) \in Walks
    BY <1>2, <2>1, StepIs
  <2> QED
    BY <2>2 DEF last
<1>5. act \in [1 .. n -> [Walks -> Walks]]
  BY <1>4
<1>6. \A i \in 1 .. n : \A t \in Walks : act[i][t] = Step(t, w[i], i = n, codeIndex)
  OBVIOUS
<1> HIDE DEF act, base
<1>7. PICK g : Folds(n, Walks, base, act, g)
  BY <1>2, <1>3, <1>5, FoldThere
<1>8. g = [s \in SUBSET (1 .. n) |->
             IF s = {} THEN base ELSE Step(g[s \ {Max(s)}], w[seq[Max(s)]], seq[Max(s)] = Len(w), codeIndex)]
  <2>1. /\ g \in [SUBSET (1 .. n) -> Walks]
        /\ \A s \in SUBSET (1 .. n) : g[s] = IF s = {} THEN base ELSE act[Max(s)][g[s \ {Max(s)}]]
    BY <1>7 DEF Folds
  <2>2. ASSUME NEW s \in SUBSET (1 .. n), s # {}
        PROVE  act[Max(s)][g[s \ {Max(s)}]]
                 = Step(g[s \ {Max(s)}], w[seq[Max(s)]], seq[Max(s)] = Len(w), codeIndex)
    <3>1. Max(s) \in 1 .. n
      BY <1>2, <2>2, HighestIndex
    <3>2. g[s \ {Max(s)}] \in Walks
      BY <2>1
    <3>3. seq[Max(s)] = Max(s)
      BY <1>2, <3>1
    <3> QED
      BY <1>6, <3>1, <3>2, <3>3
  <2> QED
    BY <2>1, <2>2
<1>9. f = [s \in SUBSET (1 .. n) |->
             IF s = {} THEN base ELSE Step(f[s \ {Max(s)}], w[seq[Max(s)]], seq[Max(s)] = Len(w), codeIndex)]
  <2>1. Eq(g)
    BY <1>2, <1>8
  <2>2. Eq(f)
    <3> HIDE DEF Eq
    <3> QED
      BY <2>1
  <2> QED
    BY <1>2, <2>2
<1> HIDE DEF f
<1>10. f[{}] = base
  BY <1>9
<1>11. ASSUME NEW k \in 1 .. n
       PROVE  f[1 .. k] = Step(f[1 .. k - 1], w[k], k = Len(w), codeIndex)
  <2> DEFINE s == 1 .. k
  <2>1. s \in SUBSET (1 .. n) /\ s # {} /\ Max(s) = k /\ s \ {k} = 1 .. k - 1
    BY <1>2, Stretches
  <2>2. seq[k] = k
    BY <1>2
  <2> HIDE DEF s
  <2>3. f[s] = Step(f[s \ {Max(s)}], w[seq[Max(s)]], seq[Max(s)] = Len(w), codeIndex)
    BY <1>9, <2>1
  <2>4. f[s] = Step(f[1 .. k - 1], w[k], k = Len(w), codeIndex)
    BY <2>1, <2>2, <2>3
  <2> QED
    BY <2>4 DEF s
<1>12. AppendCodeword(tree, codeIndex, w) = f[1 .. n].tree
  BY <1>1, <1>2
<1> QED
  BY <1>10, <1>11, <1>12 DEF Walk, base

\* A codeword of the codebook comes into the tree.
LEMMA CodewordBuilt ==
  ASSUME NEW book, Fine(book), NEW j \in 1 .. Len(book), NEW tree \in Trees, tree # Thrown,
         NEW path, Built(book, tree, path, j - 1)
  PROVE  \E p : Built(book, AppendCodeword(tree, j - 1, book[j]), p, j)
<1> DEFINE w == book[j]
           n == Len(w)
           I == [k \in 0 .. n |->
                   {t \in Walks : /\ k < n => \E p : Going(book, t, p, j, k)
                                  /\ k = n => \E p : Built(book, t.tree, p, j)}]
<1>1. /\ w \in Seq(Bit) /\ n \in Nat /\ n # 0 /\ j \in Nat /\ j - 1 \in Nat
      /\ \A k \in 1 .. n : w[k] \in Bit
  BY DEF Fine
<1>2. PICK f : Walk(tree, j - 1, w, f)
  BY <1>1, CodewordGoes
<1>3. f[{}] = [tree |-> tree, current |-> 0]
  BY <1>2 DEF Walk
<1>4. f[{}] \in I[0]
  <2> DEFINE t == [tree |-> tree, current |-> 0]
  <2>1. t.tree = tree /\ t.current = 0 /\ t \in [tree : Trees, current : Nat]
    OBVIOUS
  <2> HIDE DEF t
  <2>2. Len(tree) \in Nat /\ Len(tree) > 0
    BY DEF Trees, Thrown
  <2>3. t \in Walks
    BY <2>1, <2>2 DEF Walks
  <2>4. Going(book, t, path, j, 0)
    <3>1. path[0] = Cut(w, 0)
      BY <1>1, CutAll DEF Built, Shape
    <3>2. 0 \in 0 .. Len(tree) - 1
      BY <2>2
    <3> QED
      BY <2>1, <3>1, <3>2 DEF Going, Built
  <2>5. 0 < n /\ 0 # n /\ 0 \in 0 .. n
    BY <1>1
  <2> HIDE DEF n
  <2> QED
    BY <1>3, <2>3, <2>4, <2>5 DEF t
<1>5. ASSUME NEW k \in 1 .. n, f[1 .. k - 1] \in I[k - 1]
      PROVE  f[1 .. k] \in I[k]
  <2> DEFINE t == f[1 .. k - 1]
             u == f[1 .. k]
             last == k = n
  <2>1. k \in 1 .. n /\ k \in 0 .. n /\ k - 1 \in 0 .. n /\ k - 1 < n /\ last \in BOOLEAN
    BY <1>1
  <2>2. u = Step(t, w[k], last, j - 1)
    BY <1>2, <2>1 DEF Walk
  <2> HIDE DEF last, t, u
  <2>3. t \in Walks /\ \E p : Going(book, t, p, j, k - 1)
    BY <1>5, <2>1 DEF t
  <2>4. PICK q : Going(book, t, q, j, k - 1)
    BY <2>3
  <2>5. t.tree # Thrown
    <3>1. Len(t.tree) \in 1 .. Leaf
      BY <2>4 DEF Going, Shape
    <3>2. Len(t.tree) # 0
      BY <3>1
    <3> QED
      BY <3>2 DEF Thrown
  <2>6. StepSays(t, w[k], last, j - 1, u) /\ u \in Walks
    BY <1>1, <2>1, <2>2, <2>3, <2>5, StepIs
  <2>7. \E p : /\ k < n => Going(book, u, p, j, k)
               /\ k = n => Built(book, u.tree, p, j)
    BY <2>3, <2>4, <2>6, GoingOn DEF last
  <2>8. u \in I[k]
    <3> HIDE DEF n
    <3> QED
      BY <2>1, <2>6, <2>7
  <2> QED
    BY <2>8 DEF u
<1> HIDE DEF I
<1>6. f[1 .. n] \in I[n]
  BY <1>1, <1>4, <1>5, AlongStretches
<1>7. \E p : Built(book, f[1 .. n].tree, p, j)
  <2>1. n \in 0 .. n
    BY <1>1
  <2> HIDE DEF n
  <2> QED
    BY <1>6, <2>1 DEF I
<1> QED
  BY <1>2, <1>7 DEF Walk

LEMMA CodewordInTrees ==
  ASSUME NEW tree \in Trees, NEW codeIndex \in Nat, NEW w \in Seq(Bit)
  PROVE  AppendCodeword(tree, codeIndex, w) \in Trees
<1> DEFINE n == Len(w)
           base == [tree |-> tree, current |-> 0]
<1>1. PICK f : Walk(tree, codeIndex, w, f)
  BY CodewordGoes
<1>2. f[{}] = base
  BY <1>1 DEF Walk
<1>3. base \in Walks
  BY RootWalks
<1>4. ASSUME NEW k \in 1 .. n, f[1 .. k - 1] \in Walks
      PROVE  f[1 .. k] \in Walks
  <2> DEFINE last == k = n
  <2>1. f[1 .. k] = Step(f[1 .. k - 1], w[k], last, codeIndex)
    BY <1>1 DEF Walk
  <2>2. last \in BOOLEAN /\ w[k] \in Bit
    OBVIOUS
  <2> HIDE DEF last
  <2> QED
    BY <1>4, <2>1, <2>2, StepIs
<1>5. n \in Nat
  OBVIOUS
<1> HIDE DEF base
<1>6. f[1 .. n] \in Walks
  BY <1>2, <1>3, <1>4, <1>5, KeptAlong
<1>7. f[1 .. n].tree \in Trees
  BY <1>6 DEF Walks
<1> QED
  BY <1>1, <1>7 DEF Walk

Root == <<(<<0, 0>>)>>

\* The tree of a codebook before it is looked whether each node is set
Grown(book) ==
  FoldLeft(LAMBDA t, j : AppendCodeword(t, j - 1, book[j]), Root, [j \in DOMAIN book |-> j])

LEMMA RootBuilt ==
  ASSUME NEW book, Fine(book)
  PROVE  Root \in Trees /\ \E p : Built(book, Root, p, 0)
<1> DEFINE p == [l \in 0 .. 0 |-> << >>]
           r == <<0, 0>>
<1>1. r \in Forks /\ r[1] = 0 /\ r[2] = 0
  BY DEF Forks
<1>2. Root = <<r>>
  BY DEF Root
<1> HIDE DEF r
<1>3. Root \in Seq(Forks) /\ Len(Root) = 1 /\ Root[1] = r
  BY <1>1, <1>2
<1>4. ASSUME NEW m \in 0 .. 0, NEW b \in Bit
      PROVE  Slot(Root, m, b) = 0
  <2>1. m + 1 = 1 /\ (b + 1 = 1 \/ b + 1 = 2)
    BY DEF Bit
  <2> QED
    BY <1>1, <1>3, <2>1 DEF Slot
<1>5. 0 .. Len(Root) - 1 = 0 .. 0 /\ 1 .. Len(Root) - 1 = {} /\ 0 .. 0 = {0}
  BY <1>3
<1>6. Root \in Trees
  <2>1. \A m \in 0 .. Len(Root) - 1, b \in Bit : Slot(Root, m, b) = 0
    BY <1>4, <1>5
  <2>2. 0 < Len(Root)
    BY <1>3
  <2> QED
    BY <1>3, <2>1, <2>2 DEF Trees
<1>7. << >> \in Begun(book)
  <2>1. 1 \in 1 .. Len(book)
    BY DEF Fine
  <2>2. book[1] \in Seq(Bit) /\ 0 \in 0 .. Len(book[1]) - 1
    BY <2>1 DEF Fine
  <2>3. Cut(book[1], 0) = << >>
    BY <2>2, CutAll
  <2> QED
    BY <2>1, <2>2, <2>3, BegunHas
<1>8. p \in [0 .. 0 -> Begun(book)] /\ p[0] = << >>
  BY <1>7
<1> HIDE DEF p
<1>9. \A m \in 0 .. 0, b \in Bit : SlotFine(book, Root, p, 0, m, b)
  BY <1>4 DEF SlotFine
<1>10. Len(Root) \in 1 .. Leaf
  BY <1>3 DEF Leaf
<1>11. \A l, m \in 0 .. 0 : l = m
  BY <1>5
<1>12. Shape(book, Root, p, 0)
  BY <1>3, <1>5, <1>8, <1>9, <1>10, <1>11 DEF Shape
<1>13. Spelt(book, Root, p, 0)
  BY DEF Spelt
<1> QED
  BY <1>6, <1>12, <1>13 DEF Built

LEMMA BookBuilt ==
  ASSUME NEW book, Fine(book)
  PROVE  Grown(book) \in Trees /\ \E p : Built(book, Grown(book), p, Len(book))
<1> DEFINE n == Len(book)
           seq == [j \in DOMAIN book |-> j]
           act == [j \in 1 .. n |-> [t \in Trees |-> AppendCodeword(t, j - 1, book[j])]]
           Eq(g) == g = [s \in SUBSET DOMAIN seq |->
                           IF s = {} THEN Root
                           ELSE AppendCodeword(g[s \ {Max(s)}], seq[Max(s)] - 1, book[seq[Max(s)]])]
           f == CHOOSE g : Eq(g)
<1>1. Grown(book) = f[DOMAIN seq]
  BY DEF Grown, FoldLeft, MapThenFoldSet
<1>2. /\ n \in Nat /\ DOMAIN book = 1 .. n
      /\ \A j \in 1 .. n : j \in Nat /\ j - 1 \in Nat /\ book[j] \in Seq(Bit)
  BY DEF Fine
<1>3. DOMAIN seq = 1 .. n /\ \A j \in 1 .. n : seq[j] = j
  BY <1>2
<1> HIDE DEF seq
<1>4. act \in [1 .. n -> [Trees -> Trees]]
  <2>1. ASSUME NEW j \in 1 .. n, NEW t \in Trees
        PROVE  AppendCodeword(t, j - 1, book[j]) \in Trees
    BY <1>2, CodewordInTrees
  <2> QED
    BY <2>1
<1>5. \A j \in 1 .. n : \A t \in Trees : act[j][t] = AppendCodeword(t, j - 1, book[j])
  OBVIOUS
<1> HIDE DEF act
<1>6. Root \in Trees
  BY RootBuilt
<1>7. PICK g : Folds(n, Trees, Root, act, g)
  BY <1>2, <1>4, <1>6, FoldThere
<1>8. g = [s \in SUBSET (1 .. n) |->
             IF s = {} THEN Root ELSE AppendCodeword(g[s \ {Max(s)}], seq[Max(s)] - 1, book[seq[Max(s)]])]
  <2>1. /\ g \in [SUBSET (1 .. n) -> Trees]
        /\ \A s \in SUBSET (1 .. n) : g[s] = IF s = {} THEN Root ELSE act[Max(s)][g[s \ {Max(s)}]]
    BY <1>7 DEF Folds
  <2>2. ASSUME NEW s \in SUBSET (1 .. n), s # {}
        PROVE  act[Max(s)][g[s \ {Max(s)}]]
                 = AppendCodeword(g[s \ {Max(s)}], seq[Max(s)] - 1, book[seq[Max(s)]])
    <3>1. Max(s) \in 1 .. n
      BY <1>2, <2>2, HighestIndex
    <3>2. g[s \ {Max(s)}] \in Trees
      BY <2>1
    <3>3. seq[Max(s)] = Max(s)
      BY <1>3, <3>1
    <3> QED
      BY <1>5, <3>1, <3>2, <3>3
  <2> QED
    BY <2>1, <2>2
<1>9. f = [s \in SUBSET (1 .. n) |->
             IF s = {} THEN Root ELSE AppendCodeword(f[s \ {Max(s)}], seq[Max(s)] - 1, book[seq[Max(s)]])]
  <2>1. Eq(g)
    BY <1>3, <1>8
  <2>2. Eq(f)
    <3> HIDE DEF Eq
    <3> QED
      BY <2>1
  <2> QED
    BY <1>3, <2>2
<1> HIDE DEF f
<1> DEFINE I == [k \in 0 .. n |-> {t \in Trees : \E p : Built(book, t, p, k)}]
<1>10. f[{}] \in I[0]
  <2>1. f[{}] = Root
    BY <1>9
  <2>2. 0 \in 0 .. n
    BY <1>2
  <2> QED
    BY <2>1, <2>2, RootBuilt
<1>11. ASSUME NEW k \in 1 .. n, f[1 .. k - 1] \in I[k - 1]
       PROVE  f[1 .. k] \in I[k]
  <2> DEFINE s == 1 .. k
             t == f[1 .. k - 1]
             u == f[s]
  <2>1. /\ s \in SUBSET (1 .. n) /\ s # {} /\ Max(s) = k /\ s \ {k} = 1 .. k - 1
    BY <1>2, Stretches
  <2>2. seq[k] = k /\ k \in 0 .. n /\ k - 1 \in 0 .. n
    BY <1>2, <1>3
  <2>3. t \in Trees /\ \E p : Built(book, t, p, k - 1)
    BY <1>11, <2>2
  <2> HIDE DEF s
  <2>4. u = AppendCodeword(f[s \ {Max(s)}], seq[Max(s)] - 1, book[seq[Max(s)]])
    BY <1>9, <2>1
  <2>5. u = AppendCodeword(t, k - 1, book[k])
    BY <2>1, <2>2, <2>4
  <2> HIDE DEF t, u
  <2>6. PICK p : Built(book, t, p, k - 1)
    BY <2>3
  <2>7. t # Thrown
    <3>1. Len(t) \in 1 .. Leaf
      BY <2>6 DEF Built, Shape
    <3>2. Len(t) # 0
      BY <3>1
    <3> QED
      BY <3>2 DEF Thrown
  <2>8. \E q : Built(book, u, q, k)
    BY <2>3, <2>5, <2>6, <2>7, CodewordBuilt
  <2>9. u \in Trees
    BY <1>2, <2>3, <2>5, CodewordInTrees
  <2>10. u \in I[k]
    BY <2>2, <2>8, <2>9
  <2> QED
    BY <2>10 DEF u, s
<1>12. f[1 .. n] \in I[n]
  <2> HIDE DEF I
  <2> QED
    BY <1>2, <1>10, <1>11, AlongStretches
<1>13. n \in 0 .. n
  BY <1>2
<1> HIDE DEF n
<1> QED
  BY <1>1, <1>3, <1>12, <1>13 DEF n

-----------------------------------------------------------------------------
(* Codewords are found.                                                    *)

Complete(tree) == \A m \in 0 .. Len(tree) - 1, b \in Bit : Slot(tree, m, b) # 0

LEMMA TreeIs ==
  ASSUME NEW book, Grown(book) \in Trees
  PROVE  /\ Complete(Grown(book)) => Tree(book) = Grown(book)
         /\ ~Complete(Grown(book)) => Tree(book) = Thrown
<1> DEFINE T == Grown(book)
           n == Len(T)
           Unset == \E k \in DOMAIN T : 0 \in {T[k][1], T[k][2]}
<1>1. Tree(book) = IF Unset THEN Thrown ELSE T
  BY DEF Tree, Grown, Root
<1>2. DOMAIN T = 1 .. n /\ n \in Nat
  BY DEF Trees
<1> HIDE DEF T, n
<1>3. ASSUME Unset
      PROVE  ~Complete(T)
  <2>1. PICK k \in 1 .. n : T[k][1] = 0 \/ T[k][2] = 0
    BY <1>2, <1>3
  <2>2. k - 1 \in 0 .. n - 1 /\ (k - 1) + 1 = k
    BY <1>2
  <2>3. 0 \in Bit /\ 1 \in Bit /\ 0 + 1 = 1 /\ 1 + 1 = 2
    BY DEF Bit
  <2>4. Slot(T, k - 1, 0) = 0 \/ Slot(T, k - 1, 1) = 0
    BY <2>1, <2>2, <2>3 DEF Slot
  <2> QED
    BY <2>2, <2>3, <2>4 DEF Complete, n
<1>4. ASSUME ~Complete(T)
      PROVE  Unset
  <2>1. PICK m \in 0 .. n - 1, b \in Bit : Slot(T, m, b) = 0
    BY <1>4 DEF Complete, n
  <2>2. m + 1 \in 1 .. n /\ (b + 1 = 1 \/ b + 1 = 2)
    BY <1>2 DEF Bit
  <2> QED
    BY <1>2, <2>1, <2>2 DEF Slot
<1> HIDE DEF Unset
<1> QED
  BY <1>1, <1>3, <1>4 DEF T

\* What DecodeBits has found from bit to bit
Search(tree, data, f) ==
  /\ f[{}] = [index |-> 0, pos |-> 0]
  /\ \A k \in 1 .. Len(data) : f[1 .. k] = Taking(tree, f[1 .. k - 1], data[k])
  /\ DecodeBits(tree, data) = [f[1 .. Len(data)] EXCEPT !.index = @ - Leaf]

LEMMA SearchGoes ==
  ASSUME NEW tree \in Trees, tree # Thrown, NEW data \in Seq(Bit)
  PROVE  \E f : Search(tree, data, f)
<1> DEFINE n == Len(data)
           base == [index |-> 0, pos |-> 0]
           Spots == {s \in [index : Nat, pos : Nat] : s.index < Leaf => s.index < Len(tree)}
           act == [i \in 1 .. n |-> [s \in Spots |-> Taking(tree, s, data[i])]]
           Eq(g) == g = [s \in SUBSET DOMAIN data |->
                           IF s = {} THEN base ELSE Taking(tree, g[s \ {Max(s)}], data[Max(s)])]
           f == CHOOSE g : Eq(g)
<1>1. DecodeBits(tree, data) = [f[DOMAIN data] EXCEPT !.index = @ - Leaf]
  BY DEF DecodeBits, FoldLeft, MapThenFoldSet
<1>2. n \in Nat /\ DOMAIN data = 1 .. n /\ \A i \in 1 .. n : data[i] \in Bit
  OBVIOUS
<1>3. tree \in Seq(Forks) /\ Len(tree) > 0 /\ Len(tree) \in Nat
  BY DEF Trees, Thrown
<1>4. base \in Spots
  BY <1>3
<1>5. ASSUME NEW s \in Spots, NEW i \in 1 .. n
      PROVE  Taking(tree, s, data[i]) \in Spots
  <2>1. CASE s.index >= Leaf
    BY <2>1 DEF Taking
  <2>2. CASE ~(s.index >= Leaf)
    <3> DEFINE m == s.index
               v == Slot(tree, m, data[i])
               q == s.pos + 1
               u == [index |-> v, pos |-> q]
    <3>1. m \in Nat /\ s.pos \in Nat /\ m < Leaf
      BY <2>2, LeafIs
    <3>2. m \in 0 .. Len(tree) - 1
      BY <1>3, <3>1
    <3>3. v \in Nat /\ (v < Leaf => v < Len(tree))
      BY <1>2, <1>3, <3>2, SlotIs DEF Trees
    <3>4. Taking(tree, s, data[i]) = u
      BY <2>2 DEF Taking, Slot
    <3>5. q \in Nat
      BY <3>1
    <3> HIDE DEF v, q
    <3>6. u \in Spots
      BY <3>3, <3>5
    <3> QED
      BY <3>4, <3>6
  <2> QED
    BY <2>1, <2>2
<1> HIDE DEF Spots, base
<1>6. act \in [1 .. n -> [Spots -> Spots]]
  BY <1>5
<1>7. \A i \in 1 .. n : \A s \in Spots : act[i][s] = Taking(tree, s, data[i])
  OBVIOUS
<1> HIDE DEF act
<1>8. PICK g : Folds(n, Spots, base, act, g)
  BY <1>2, <1>4, <1>6, FoldThere
<1>9. g = [s \in SUBSET (1 .. n) |-> IF s = {} THEN base ELSE Taking(tree, g[s \ {Max(s)}], data[Max(s)])]
  <2>1. /\ g \in [SUBSET (1 .. n) -> Spots]
        /\ \A s \in SUBSET (1 .. n) : g[s] = IF s = {} THEN base ELSE act[Max(s)][g[s \ {Max(s)}]]
    BY <1>8 DEF Folds
  <2>2. ASSUME NEW s \in SUBSET (1 .. n), s # {}
        PROVE  act[Max(s)][g[s \ {Max(s)}]] = Taking(tree, g[s \ {Max(s)}], data[Max(s)])
    <3>1. Max(s) \in 1 .. n
      BY <1>2, <2>2, HighestIndex
    <3>2. g[s \ {Max(s)}] \in Spots
      BY <2>1
    <3> QED
      BY <1>7, <3>1, <3>2
  <2> QED
    BY <2>1, <2>2
<1>10. f = [s \in SUBSET (1 .. n) |-> IF s = {} THEN base ELSE Taking(tree, f[s \ {Max(s)}], data[Max(s)])]
  <2>1. Eq(g)
    BY <1>2, <1>9
  <2>2. Eq(f)
    <3> HIDE DEF Eq
    <3> QED
      BY <2>1
  <2> QED
    BY <1>2, <2>2
<1> HIDE DEF f
<1>11. f[{}] = base
  BY <1>10
<1>12. ASSUME NEW k \in 1 .. n
       PROVE  f[1 .. k] = Taking(tree, f[1 .. k - 1], data[k])
  <2> DEFINE s == 1 .. k
  <2>1. s \in SUBSET (1 .. n) /\ s # {} /\ Max(s) = k /\ s \ {k} = 1 .. k - 1
    BY <1>2, Stretches
  <2> HIDE DEF s
  <2>2. f[s] = Taking(tree, f[s \ {Max(s)}], data[Max(s)])
    BY <1>10, <2>1
  <2>3. f[s] = Taking(tree, f[1 .. k - 1], data[k])
    BY <2>1, <2>2
  <2> QED
    BY <2>3 DEF s
<1> QED
  BY <1>1, <1>2, <1>11, <1>12 DEF Search, base

LEMMA AppendedIs ==
  ASSUME NEW w \in Seq(Bit), NEW b \in Bit, NEW k \in 1 .. Len(w) + 1
  PROVE  /\ Append(w, b) \in Seq(Bit) /\ Len(Append(w, b)) = Len(w) + 1 /\ Append(w, b)[k] \in Bit
         /\ k <= Len(w) => Append(w, b)[k] = w[k]
<1> DEFINE d == Append(w, b)
           n == Len(w)
<1>1. d \in Seq(Bit) /\ Len(d) = n + 1 /\ n \in Nat /\ \A i \in 1 .. n : d[i] = w[i]
  BY AppendIs
<1> HIDE DEF d, n
<1>2. k \in 1 .. n + 1
  BY DEF n
<1>3. d[k] \in Bit
  BY <1>1, <1>2
<1>4. k <= n => d[k] = w[k]
  BY <1>1, <1>2
<1> QED
  BY <1>1, <1>3, <1>4 DEF d, n

LEMMA WordDecodes ==
  ASSUME NEW book, Fine(book), NEW tree \in Trees, NEW path, Built(book, tree, path, Len(book)),
         NEW j \in 1 .. Len(book), NEW next \in Bit
  PROVE  DecodeBits(tree, Append(book[j], next)) = [index |-> j - 1, pos |-> Len(book[j])]
<1> DEFINE w == book[j]
           n == Len(w)
           data == Append(w, next)
           found == [index |-> Leaf + (j - 1), pos |-> n]
           On(k) == {s \in [index : 0 .. Len(tree) - 1, pos : {k}] : path[s.index] = Cut(w, k)}
           I == [k \in 0 .. n + 1 |-> IF k < n THEN On(k) ELSE {found}]
<1>1. /\ w \in Seq(Bit) /\ n \in Nat /\ n # 0 /\ j \in Nat /\ j - 1 \in Nat
      /\ Apart(book) /\ Len(book) \in Nat
  BY DEF Fine
<1>2. /\ Shape(book, tree, path, Len(book)) /\ Spelt(book, tree, path, Len(book))
      /\ Len(tree) \in 1 .. Leaf /\ tree \in Seq(Forks)
  BY DEF Built, Shape
<1>3. tree # Thrown
  <2>1. Len(tree) # 0
    BY <1>2
  <2> QED
    BY <2>1 DEF Thrown
<1>4. /\ data \in Seq(Bit) /\ Len(data) = n + 1
      /\ \A k \in 1 .. n + 1 : data[k] \in Bit /\ (k <= n => data[k] = w[k])
  <2>1. 1 \in 1 .. n + 1
    BY <1>1
  <2> QED
    BY <1>1, <2>1, AppendedIs
<1>5. PICK f : Search(tree, data, f)
  BY <1>3, <1>4, SearchGoes
<1>6. f[{}] \in I[0]
  <2> DEFINE s == [index |-> 0, pos |-> 0]
  <2>1. f[{}] = s
    BY <1>5 DEF Search
  <2>2. path[0] = Cut(w, 0)
    BY <1>1, <1>2, CutAll DEF Shape
  <2>3. 0 \in 0 .. Len(tree) - 1
    BY <1>2
  <2>4. s \in On(0)
    BY <2>2, <2>3
  <2>5. 0 < n /\ 0 \in 0 .. n + 1
    BY <1>1
  <2> HIDE DEF s, n, On
  <2> QED
    BY <2>1, <2>4, <2>5
<1>7. ASSUME NEW k \in 1 .. n + 1, f[1 .. k - 1] \in I[k - 1]
      PROVE  f[1 .. k] \in I[k]
  <2> DEFINE s == f[1 .. k - 1]
             u == f[1 .. k]
  <2>1. u = Taking(tree, s, data[k])
    BY <1>4, <1>5 DEF Search
  <2>2. /\ k \in 0 .. n + 1 /\ k - 1 \in 0 .. n + 1 /\ k \in Nat /\ (k <= n => k - 1 < n)
        /\ (k <= n => k \in 1 .. n /\ k \in 0 .. n) /\ (~(k <= n) => ~(k < n) /\ ~(k - 1 < n))
        /\ (k <= n /\ ~(k < n) => k = n) /\ (k - 1) + 1 = k
    BY <1>1
  <2>3. CASE ~(k <= n)
    <3>1. s = found
      <4> HIDE DEF n, found, s
      <4> QED
        BY <1>7, <2>2, <2>3 DEF s
    <3>2. found.index >= Leaf
      BY <1>1, LeafIs
    <3> HIDE DEF found, s, u
    <3>3. u = found
      BY <2>1, <3>1, <3>2 DEF Taking
    <3> HIDE DEF n
    <3> QED
      BY <2>2, <2>3, <3>3 DEF u
  <2>4. CASE k <= n
    <3> DEFINE c == Cut(w, k)
               m == s.index
               b == w[k]
               v == Slot(tree, m, b)
    <3>1. s \in On(k - 1)
      <4> HIDE DEF n, On, s
      <4> QED
        BY <1>7, <2>2, <2>4 DEF s
    <3>2. m \in 0 .. Len(tree) - 1 /\ path[m] = Cut(w, k - 1) /\ s.pos = k - 1
      BY <3>1
    <3>3. data[k] = b /\ b \in Bit /\ c = Append(Cut(w, k - 1), b)
      BY <1>1, <1>4, <2>2, <2>4, CutNext
    <3>4. c = Append(path[m], b)
      BY <3>2, <3>3
    <3>5. m < Leaf /\ ~(m >= Leaf)
      BY <1>2, <3>2, LeafIs
    <3>6. u = [index |-> v, pos |-> k]
      <4> HIDE DEF s, u
      <4>1. u = [index |-> tree[m + 1][b + 1], pos |-> s.pos + 1]
        BY <2>1, <3>3, <3>5 DEF Taking
      <4> QED
        BY <2>2, <3>2, <4>1 DEF Slot
    <3>7. v # 0
      <4>1. There(tree, path, c)
        BY <1>2, <2>2, <2>4 DEF Spelt
      <4>2. PICK l \in 0 .. Len(tree) - 1, a \in Bit : c = Append(path[l], a) /\ Slot(tree, l, a) # 0
        BY <4>1 DEF There
      <4>3. path[l] \in Seq(Bit) /\ path[m] \in Seq(Bit)
        <5> HIDE DEF m
        <5> QED
          BY <1>2, <3>2, BegunWords DEF Shape
      <4>4. path[l] = path[m] /\ a = b
        <5>1. Append(path[l], a) = Append(path[m], b) /\ b \in Bit
          BY <3>3, <3>4, <4>2
        <5> DEFINE y == path[l]
                   z == path[m]
        <5> HIDE DEF m, b, y, z
        <5>2. y \in Seq(Bit) /\ z \in Seq(Bit) /\ Append(y, a) = Append(z, b)
          BY <4>3, <5>1 DEF y, z
        <5>3. y = z /\ a = b
          <6>1. a \in Bit /\ b \in Bit
            BY <5>1
          <6>2. Append(y, a) = Append(z, b) => y = z /\ a = b
            BY <5>2, <6>1, EndSame
          <6> QED
            BY <5>2, <6>2
        <5> QED
          BY <5>3 DEF y, z
      <4>5. l = m
        <5> HIDE DEF m
        <5> QED
          BY <1>2, <3>2, <4>4 DEF Shape
      <4> QED
        BY <4>2, <4>4, <4>5
    <3> HIDE DEF c, m, b, s, u
    <3>8. SlotFine(book, tree, path, Len(book), m, b)
      BY <1>2, <3>2, <3>3 DEF Shape
    <3>9. CASE k < n
      <4>1. ASSUME NEW e \in 1 .. Len(book), book[e] = c
            PROVE  FALSE
        <5>1. book[e] = Cut(book[j], k) /\ k \in 0 .. Len(book[j]) /\ k # Len(book[j])
          BY <1>1, <2>2, <2>4, <3>9, <4>1 DEF c
        <5> QED
          BY <1>1, <5>1 DEF Apart
      <4>2. v \in 1 .. Len(tree) - 1 /\ path[v] = c
        BY <3>4, <3>7, <3>8, <4>1 DEF SlotFine
      <4>3. v \in 0 .. Len(tree) - 1
        BY <1>2, <4>2
      <4> HIDE DEF v
      <4>4. u \in On(k)
        BY <3>6, <4>2, <4>3 DEF c
      <4> HIDE DEF n, On
      <4> QED
        BY <2>2, <3>9, <4>4 DEF u
    <3>10. CASE ~(k < n)
      <4>1. k = n
        BY <2>2, <2>4, <3>10
      <4>2. c = w
        <5> HIDE DEF w
        <5> QED
          BY <1>1, <4>1, CutAll DEF c
      <4>3. ASSUME v \in 1 .. Len(tree) - 1, path[v] = c
            PROVE  FALSE
        <5>1. v \in 0 .. Len(tree) - 1
          BY <1>2, <4>3
        <5>2. c \in Begun(book)
          <6> HIDE DEF v
          <6> QED
            BY <1>2, <4>3, <5>1 DEF Shape
        <5> QED
          BY <4>2, <5>2, NotBegun
      <4>4. PICK e \in 1 .. Len(book) : v = Leaf + e - 1 /\ book[e] = c
        BY <3>4, <3>7, <3>8, <4>3 DEF SlotFine
      <4>5. e = j
        <5>1. book[e] = Cut(book[j], k) /\ k \in 0 .. Len(book[j])
          BY <1>1, <2>2, <2>4, <4>4 DEF c
        <5> QED
          BY <1>1, <5>1 DEF Apart
      <4>6. v = Leaf + (j - 1)
        BY <1>1, <4>4, <4>5, LeafIs
      <4>7. u = found
        BY <3>6, <4>1, <4>6
      <4> HIDE DEF n, found
      <4> QED
        BY <2>2, <3>10, <4>7 DEF u
    <3> QED
      BY <3>9, <3>10
  <2> QED
    BY <2>3, <2>4
<1>8. n + 1 \in Nat
  BY <1>1
<1> HIDE DEF I
<1>9. f[1 .. n + 1] \in I[n + 1]
  <2> DEFINE l == n + 1
  <2> HIDE DEF l
  <2>1. l \in Nat /\ f[{}] \in I[0] /\ \A k \in 1 .. l : f[1 .. k - 1] \in I[k - 1] => f[1 .. k] \in I[k]
    BY <1>6, <1>7, <1>8 DEF l
  <2>2. f[1 .. l] \in I[l]
    BY <2>1, AlongStretches
  <2> QED
    BY <2>2 DEF l
<1>10. f[1 .. n + 1] = found
  <2>1. n + 1 \in 0 .. n + 1 /\ ~(n + 1 < n)
    BY <1>1
  <2> HIDE DEF n, found
  <2> QED
    BY <1>9, <2>1 DEF I
<1>11. DecodeBits(tree, data) = [found EXCEPT !.index = @ - Leaf]
  <2> HIDE DEF found
  <2> QED
    BY <1>4, <1>5, <1>10 DEF Search
<1>12. (Leaf + (j - 1)) - Leaf = j - 1
  BY <1>1, LeafIs
<1> QED
  BY <1>11, <1>12

-----------------------------------------------------------------------------
(* Full codebooks.                                                         *)

LEMMA WordsAre ==
  ASSUME NEW w
  PROVE  w \in Words <=> w \in Seq(Bit) /\ Len(w) \in 1 .. WordBits
<1>1. WordBits \in Nat
  BY BookAssumption
<1>2. ASSUME w \in Words
      PROVE  w \in Seq(Bit) /\ Len(w) \in 1 .. WordBits
  <2>1. PICK m \in 0 .. WordBits : w \in [1 .. m -> Bit]
    BY <1>2 DEF Words, BoundedSeq, SeqOf, Bit
  <2>2. w # << >> /\ m \in Nat
    BY <1>1, <1>2 DEF Words
  <2>3. w \in Seq(Bit) /\ Len(w) = m /\ m # 0
    BY <2>1, <2>2
  <2> QED
    BY <2>2, <2>3
<1>3. ASSUME w \in Seq(Bit), Len(w) \in 1 .. WordBits
      PROVE  w \in Words
  <2> DEFINE m == Len(w)
  <2>1. m \in 0 .. WordBits /\ m # 0 /\ w \in [1 .. m -> Bit]
    BY <1>1, <1>3
  <2>2. w # << >>
    BY <2>1
  <2> HIDE DEF m
  <2> QED
    BY <2>1, <2>2 DEF Words, BoundedSeq, SeqOf, Bit
<1> QED
  BY <1>2, <1>3

LEMMA PrefixIs ==
  ASSUME NEW v \in Seq(Bit), NEW w \in Seq(Bit)
  PROVE  /\ IsPrefix(v, w) => Len(v) \in 0 .. Len(w) /\ v = Cut(w, Len(v))
         /\ \A k \in 0 .. Len(w) : v = Cut(w, k) => IsPrefix(v, w) /\ Len(v) = k
<1>1. Len(v) \in Nat /\ Len(w) \in Nat /\ Cut(v, Len(v)) = v
  BY CutAll
<1>2. ASSUME IsPrefix(v, w)
      PROVE  Len(v) \in 0 .. Len(w) /\ v = Cut(w, Len(v))
  BY <1>1, <1>2 DEF IsPrefix, Cut
<1>3. ASSUME NEW k \in 0 .. Len(w), v = Cut(w, k)
      PROVE  IsPrefix(v, w) /\ Len(v) = k
  <2>1. Len(v) = k
    BY <1>3, CutIs DEF IsCut
  <2>2. Cut(v, Len(v)) = Cut(w, Len(v)) /\ Len(v) <= Len(w)
    BY <1>1, <1>3, <2>1
  <2> QED
    BY <2>1, <2>2 DEF IsPrefix, Cut
<1> QED
  BY <1>2, <1>3

LEMMA FullWhenComplete ==
  ASSUME NEW book, Fine(book), NEW tree \in Trees, NEW path, Built(book, tree, path, Len(book)), Complete(tree)
  PROVE  Full(book)
<1> SUFFICES ASSUME NEW word \in Words
             PROVE  \E e \in DOMAIN book : IsPrefix(book[e], word) \/ IsPrefix(word, book[e])
  BY DEF Full
<1> DEFINE n == Len(word)
           On(k) == \E m \in 0 .. Len(tree) - 1 : path[m] = Cut(word, k)
           Off == \E e \in 1 .. Len(book) : IsPrefix(book[e], word)
           S == {k \in 0 .. n : On(k) \/ Off}
<1>1. /\ DOMAIN book = 1 .. Len(book) /\ word \in Seq(Bit) /\ n \in Nat
      /\ Shape(book, tree, path, Len(book)) /\ Len(tree) \in 1 .. Leaf
      /\ \A e \in 1 .. Len(book) : book[e] \in Seq(Bit)
  BY WordsAre DEF Fine, Built, Shape
<1>2. 0 \in S
  <2>1. path[0] = Cut(word, 0)
    BY <1>1, CutAll DEF Shape
  <2>2. 0 \in 0 .. Len(tree) - 1 /\ 0 \in 0 .. n
    BY <1>1
  <2> QED
    BY <2>1, <2>2
<1>3. ASSUME NEW k \in S, k \in 0 .. n /\ k < n
      PROVE  k + 1 \in S
  <2> DEFINE i == k + 1
  <2>1. i \in 1 .. n /\ i \in 0 .. n /\ i - 1 = k
    BY <1>1, <1>3
  <2> HIDE DEF i
  <2>2. CASE Off
    BY <2>1, <2>2 DEF i
  <2>3. CASE On(k)
    <3> DEFINE c == Cut(word, i)
               b == word[i]
    <3>1. PICK m \in 0 .. Len(tree) - 1 : path[m] = Cut(word, k)
      BY <2>3
    <3>2. c = Append(Cut(word, i - 1), b) /\ b \in Bit
      BY <1>1, <2>1, CutNext
    <3>3. c = Append(path[m], b)
      BY <2>1, <3>1, <3>2
    <3> DEFINE v == Slot(tree, m, b)
    <3> HIDE DEF c, b
    <3>4. v # 0 /\ SlotFine(book, tree, path, Len(book), m, b)
      BY <1>1, <3>2 DEF Complete, Shape
    <3>5. CASE v \in 1 .. Len(tree) - 1 /\ path[v] = c
      <4>1. v \in 0 .. Len(tree) - 1
        BY <1>1, <3>5
      <4>2. On(i)
        BY <3>5, <4>1 DEF c
      <4> QED
        BY <2>1, <4>2 DEF i
    <3>6. CASE \E e \in 1 .. Len(book) : book[e] = c
      <4>1. PICK e \in 1 .. Len(book) : book[e] = c
        BY <3>6
      <4>2. IsPrefix(book[e], word)
        BY <1>1, <2>1, <4>1, PrefixIs DEF c
      <4> QED
        BY <2>1, <4>2 DEF i
    <3> QED
      BY <3>3, <3>4, <3>5, <3>6 DEF SlotFine
  <2> QED
    BY <2>2, <2>3
<1>4. n \in S
  <2> HIDE DEF S
  <2>1. 0 .. n \subseteq S
    BY <1>1, <1>2, <1>3, UpTo
  <2>2. n \in 0 .. n
    BY <1>1
  <2> QED
    BY <2>1, <2>2
<1>5. CASE On(n)
  <2>1. PICK m \in 0 .. Len(tree) - 1 : path[m] = Cut(word, n)
    BY <1>5
  <2>2. path[m] = word
    BY <1>1, <2>1, CutAll
  <2>3. word \in Begun(book)
    BY <1>1, <2>2 DEF Shape
  <2>4. PICK e \in 1 .. Len(book) : \E k \in 0 .. Len(book[e]) - 1 : word = Cut(book[e], k)
    BY <2>3, BegunHas
  <2>5. PICK k \in 0 .. Len(book[e]) - 1 : word = Cut(book[e], k)
    BY <2>4
  <2>6. k \in 0 .. Len(book[e])
    BY <1>1
  <2>7. IsPrefix(word, book[e])
    BY <1>1, <2>5, <2>6, PrefixIs
  <2> QED
    BY <1>1, <2>7
<1> QED
  BY <1>1, <1>4, <1>5

LEMMA CompleteWhenFull ==
  ASSUME NEW book \in PrefixFree, NEW tree \in Trees, NEW path, Built(book, tree, path, Len(book)), Full(book)
  PROVE  Complete(tree)
<1>1. /\ Fine(book) /\ Shape(book, tree, path, Len(book)) /\ Spelt(book, tree, path, Len(book))
      /\ \A j \in 1 .. Len(book) : book[j] \in Words /\ book[j] \in Seq(Bit) /\ Len(book[j]) \in 1 .. WordBits
  BY BookIs, WordsAre DEF Built
<1>2. Apart(book) /\ DOMAIN book = 1 .. Len(book)
  BY <1>1 DEF Fine
<1> SUFFICES ASSUME NEW m \in 0 .. Len(tree) - 1, NEW b \in Bit, Slot(tree, m, b) = 0
             PROVE  FALSE
  BY DEF Complete
<1> DEFINE x == path[m]
           v == Append(x, b)
<1>3. x \in Begun(book)
  BY <1>1 DEF Shape
<1> HIDE DEF x
<1>4. PICK j \in 1 .. Len(book) : \E k \in 0 .. Len(book[j]) - 1 : x = Cut(book[j], k)
  BY <1>1, <1>3, BegunHas
<1>5. PICK k \in 0 .. Len(book[j]) - 1 : x = Cut(book[j], k)
  BY <1>4
<1>6. k \in Nat /\ k < Len(book[j]) /\ k \in 0 .. Len(book[j]) /\ k + 1 \in 1 .. WordBits
  BY <1>1, BookAssumption
<1>7. x \in Seq(Bit) /\ Len(x) = k
  BY <1>1, <1>5, <1>6, CutIs DEF IsCut
<1>8. /\ v \in Seq(Bit) /\ Len(v) = k + 1 /\ \A i \in 1 .. k : v[i] = x[i]
      /\ v[k + 1] = b
  BY <1>7, AppendIs
<1> HIDE DEF v
<1>9. v \in Words
  BY <1>6, <1>8, WordsAre
<1>10. PICK e \in 1 .. Len(book) : IsPrefix(book[e], v) \/ IsPrefix(v, book[e])
  BY <1>2, <1>9 DEF Full
<1>11. book[e] \in Seq(Bit) /\ Len(book[e]) \in Nat /\ Len(book[e]) > 0
  BY <1>1
<1>12. ASSUME IsPrefix(v, book[e])
       PROVE  FALSE
  <2>1. k + 1 \in 0 .. Len(book[e]) /\ v = Cut(book[e], k + 1)
    BY <1>8, <1>11, <1>12, PrefixIs
  <2>2. k + 1 \in 1 .. Len(book[e])
    BY <1>6, <2>1
  <2>3. There(tree, path, v)
    BY <1>1, <2>1, <2>2 DEF Spelt
  <2>4. PICK l \in 0 .. Len(tree) - 1, a \in Bit : v = Append(path[l], a) /\ Slot(tree, l, a) # 0
    BY <2>3 DEF There
  <2>5. path[l] \in Seq(Bit) /\ Append(path[l], a) = Append(x, b)
    BY <1>1, <2>4, BegunWords DEF Shape, v
  <2>6. path[l] = x /\ a = b
    <3> DEFINE y == path[l]
    <3> HIDE DEF y
    <3>1. y \in Seq(Bit) /\ Append(y, a) = Append(x, b)
      BY <2>5 DEF y
    <3>2. \A w \in Seq(Bit), c \in Bit : Append(y, a) = Append(w, c) => y = w /\ a = c
      BY <3>1, EndSame
    <3>3. y = x /\ a = b
      BY <1>7, <3>1, <3>2
    <3> QED
      BY <3>3 DEF y
  <2>7. l = m
    BY <1>1, <2>6 DEF Shape, x
  <2> QED
    BY <2>4, <2>6, <2>7
<1>13. ASSUME IsPrefix(book[e], v), ~IsPrefix(v, book[e])
       PROVE  FALSE
  <2> DEFINE l == Len(book[e])
  <2>1. l \in 0 .. k + 1 /\ book[e] = Cut(v, l)
    BY <1>8, <1>11, <1>13, PrefixIs
  <2>2. l # k + 1
    <3> SUFFICES ASSUME l = k + 1
                 PROVE  FALSE
      OBVIOUS
    <3>1. book[e] = v
      BY <1>8, <2>1, CutAll
    <3>2. v = Cut(book[e], Len(book[e])) /\ Len(book[e]) \in 0 .. Len(book[e])
      BY <1>11, <3>1, CutAll
    <3> QED
      BY <1>8, <1>11, <1>13, <3>2, PrefixIs
  <2>3. l \in 0 .. k /\ l <= k
    BY <1>6, <2>1, <2>2
  <2> HIDE DEF l
  <2>4. Cut(v, k) = x
    <3>1. k \in 0 .. Len(v)
      BY <1>6, <1>8
    <3> DEFINE y == Cut(v, k)
    <3>2. IsCut(y, v, k)
      BY <1>8, <3>1, CutIs
    <3> HIDE DEF y
    <3>3. y = x
      BY <1>7, <1>8, <3>2, SameWords DEF IsCut
    <3> QED
      BY <3>3 DEF y
  <2>5. book[e] = Cut(x, l)
    <3>1. Cut(Cut(v, k), l) = Cut(v, l)
      <4>1. k \in 0 .. Len(v)
        BY <1>6, <1>8
      <4> QED
        BY <1>8, <2>3, <4>1, CutOfCut
    <3> QED
      BY <2>1, <2>4, <3>1
  <2>6. book[e] = Cut(book[j], l)
    <3>1. Cut(Cut(book[j], k), l) = Cut(book[j], l)
      BY <1>1, <1>6, <2>3, CutOfCut
    <3> QED
      BY <1>5, <2>5, <3>1
  <2>7. l \in 0 .. Len(book[j]) /\ l # Len(book[j])
    BY <1>1, <1>6, <2>3
  <2> QED
    BY <1>2, <2>6, <2>7 DEF Apart
<1> QED
  BY <1>10, <1>12, <1>13

LEMMA BookDecodes ==
  ASSUME NEW book \in PrefixFree
  PROVE  /\ Tree(book) # Thrown <=> Full(book)
         /\ Full(book) => Decodes(book)
<1> DEFINE T == Grown(book)
<1>1. Fine(book)
  BY BookIs
<1>2. T \in Trees
  BY <1>1, BookBuilt
<1>3. PICK p : Built(book, T, p, Len(book))
  BY <1>1, BookBuilt
<1>4. T # Thrown
  <2>1. Len(T) \in 1 .. Leaf
    BY <1>3 DEF Built, Shape
  <2>2. Len(T) # 0
    BY <2>1
  <2> QED
    BY <2>2 DEF Thrown
<1>5. (Complete(T) => Tree(book) = T) /\ (~Complete(T) => Tree(book) = Thrown)
  BY <1>2, TreeIs
<1> HIDE DEF T
<1>6. Complete(T) => Full(book)
  BY <1>1, <1>2, <1>3, FullWhenComplete
<1>7. Full(book) => Complete(T)
  BY <1>2, <1>3, CompleteWhenFull
<1>8. ASSUME Full(book)
      PROVE  Decodes(book)
  <2>1. Tree(book) = T
    BY <1>5, <1>7, <1>8
  <2>2. DOMAIN book = 1 .. Len(book)
    BY <1>1 DEF Fine
  <2>3. ASSUME NEW j \in 1 .. Len(book), NEW next \in Bit
        PROVE  DecodeBits(T, Append(book[j], next)) = [index |-> j - 1, pos |-> Len(book[j])]
    BY <1>1, <1>2, <1>3, WordDecodes
  <2> QED
    BY <2>1, <2>2, <2>3 DEF Decodes, Bit
<1> QED
  BY <1>4, <1>5, <1>6, <1>7, <1>8

-----------------------------------------------------------------------------
(* The courses of parsing.                                                 *)

Kinds == {"read", "skip", "check"}
Strides == [step : Kinds, bits : Nat]
Positions == [behind : Nat, read : Nat]

\* The positions along a course
Along(c, f) ==
  /\ f \in [0 .. Len(c) -> Positions]
  /\ \A k \in 1 .. Len(c) : f[k] = Go(f[k - 1], c[k])

\* A position that far behind, with nothing read behind the bytes kept
Held(position, n) == position.behind <= n /\ position.read <= 8 * ExtraWorkspaceBytes

\* From at most in bits behind the end a course gets at most out bits behind it.
Leads(c, in, out) == \A f : Along(c, f) /\ Held(f[0], in) => Held(f[Len(c)], out)

Within(A, in, out) == \A c \in A : c \in Seq(Strides) /\ Leads(c, in, out)

\* A read or a step over bits goes ahead by its bits, and only a read reads; where a check passes, the
\* position is at most at the end.
LEMMA GoIs ==
  ASSUME NEW p \in Positions, NEW s \in Strides
  PROVE  /\ Go(p, s) \in Positions
         /\ s.step = "check" => Go(p, s).behind = 0
         /\ s.step # "check" => Go(p, s).behind = p.behind + s.bits
         /\ s.step # "read" => Go(p, s).read = p.read
         /\ s.step = "read" => Go(p, s).read = p.read \/ Go(p, s).read = p.behind + s.bits
<1>1. /\ p.behind \in Nat /\ p.read \in Nat /\ s.bits \in Nat
      /\ s.step \in Kinds
  BY DEF Positions, Strides
<1>2. BehindAfter(p, s) = IF s.step = "check" THEN 0 ELSE p.behind + s.bits
  BY DEF BehindAfter
<1>3. BehindAfter(p, s) \in Nat
  BY <1>1, <1>2
<1>4. /\ Go(p, s).behind = BehindAfter(p, s)
      /\ Go(p, s).read = IF s.step = "read" /\ BehindAfter(p, s) > p.read THEN BehindAfter(p, s) ELSE p.read
      /\ Go(p, s) = [behind |-> Go(p, s).behind, read |-> Go(p, s).read]
  BY DEF Go
<1>5. Go(p, s) \in Positions
  BY <1>1, <1>3, <1>4 DEF Positions
<1> QED
  BY <1>1, <1>2, <1>4, <1>5

\* A step alone: it must not read further behind the end than there are bytes.
LEMMA OneStride ==
  ASSUME NEW s \in Strides, NEW in \in Nat, NEW out \in Nat,
         s.step = "check" \/ in + s.bits <= out,
         s.step = "read" => in + s.bits <= 128
  PROVE  Within({<<s>>}, in, out)
<1> SUFFICES ASSUME NEW f, Along(<<s>>, f), Held(f[0], in)
             PROVE  Held(f[1], out)
  <2> DEFINE c == <<s>>
  <2>1. c \in Seq(Strides) /\ Len(c) = 1
    OBVIOUS
  <2> SUFFICES Leads(c, in, out)
    BY <2>1 DEF Within
  <2>2. \A f : Along(c, f) /\ Held(f[0], in) => Held(f[1], out)
    OBVIOUS
  <2> HIDE DEF c
  <2> QED
    BY <2>1, <2>2 DEF Leads
<1>1. f[0] \in Positions /\ f[1] = Go(f[0], s)
  BY DEF Along
<1> DEFINE p == f[0]
           q == Go(p, s)
<1>2. p \in Positions /\ Held(p, in)
  BY <1>1
<1> HIDE DEF p
<1>3. /\ q \in Positions
      /\ s.step = "check" => q.behind = 0
      /\ s.step # "check" => q.behind = p.behind + s.bits
      /\ s.step # "read" => q.read = p.read
      /\ s.step = "read" => q.read = p.read \/ q.read = p.behind + s.bits
  BY <1>2, GoIs
<1> HIDE DEF q
<1>4. p.behind \in Nat /\ p.read \in Nat /\ s.bits \in Nat
  BY <1>2 DEF Positions, Strides
<1>5. p.behind <= in /\ p.read <= 128
  BY <1>2 DEF Held, ExtraWorkspaceBytes
<1>6. q.behind <= out /\ q.read <= 128
  BY <1>3, <1>4, <1>5
<1> QED
  BY <1>1, <1>6 DEF Held, ExtraWorkspaceBytes, p, q

LEMMA Reading ==
  ASSUME NEW n \in Nat, NEW in \in Nat, NEW out \in Nat, in + n <= out, out <= 128
  PROVE  Within(Read(n), in, out)
<1> DEFINE s == [step |-> "read", bits |-> n]
<1>1. s \in Strides /\ s.step = "read" /\ s.bits = n
  BY DEF Strides, Kinds
<1>2. in + s.bits <= out /\ in + s.bits <= 128
  OBVIOUS
<1> HIDE DEF s
<1>3. Within({<<s>>}, in, out)
  BY <1>1, <1>2, OneStride
<1> QED
  BY <1>3 DEF Read, s

LEMMA Skipping ==
  ASSUME NEW n \in Nat, NEW in \in Nat, NEW out \in Nat, in + n <= out
  PROVE  Within(Skip(n), in, out)
<1> DEFINE s == [step |-> "skip", bits |-> n]
<1>1. s \in Strides /\ s.step = "skip" /\ s.bits = n
  BY DEF Strides, Kinds
<1> HIDE DEF s
<1>2. Within({<<s>>}, in, out)
  BY <1>1, OneStride
<1> QED
  BY <1>2 DEF Skip, s

LEMMA Checking ==
  ASSUME NEW in \in Nat
  PROVE  Within(CheckOverrun, in, 0)
<1> DEFINE s == [step |-> "check", bits |-> 0]
<1>1. s \in Strides /\ s.step = "check"
  BY DEF Strides, Kinds
<1> HIDE DEF s
<1>2. Within({<<s>>}, in, 0)
  BY <1>1, OneStride
<1> QED
  BY <1>2 DEF CheckOverrun, s

\* A course without a step, and bounds that say less
LEMMA Nothing ==
  ASSUME NEW in \in Nat
  PROVE  Within({<< >>}, in, in)
BY DEF Within, Leads

LEMMA Weaker ==
  ASSUME NEW A, NEW in \in Nat, NEW out \in Nat, NEW i \in Nat, NEW o \in Nat,
         Within(A, in, out), i <= in, out <= o
  PROVE  Within(A, i, o)
<1> SUFFICES ASSUME NEW c \in A, NEW f, Along(c, f), Held(f[0], i)
             PROVE  Held(f[Len(c)], o)
  BY DEF Within, Leads
<1>1. Len(c) \in Nat /\ f[0] \in Positions /\ f[Len(c)] \in Positions
  <2>1. Len(c) \in Nat
    BY DEF Within
  <2> QED
    BY <2>1 DEF Along
<1>2. Held(f[0], in)
  BY <1>1 DEF Held, Positions
<1>3. Held(f[Len(c)], out)
  BY <1>2 DEF Within, Leads
<1> QED
  BY <1>1, <1>3 DEF Held, Positions

\* One part or another, and one after another
LEMMA Either ==
  ASSUME NEW A, NEW B, NEW in, NEW out, Within(A, in, out), Within(B, in, out)
  PROVE  Within(A \cup B, in, out)
BY DEF Within

LEMMA LeadsOn ==
  ASSUME NEW a \in Seq(Strides), NEW b \in Seq(Strides), NEW in, NEW between, NEW out,
         Leads(a, in, between), Leads(b, between, out)
  PROVE  Leads(a \o b, in, out)
<1> SUFFICES ASSUME NEW f, Along(a \o b, f), Held(f[0], in)
             PROVE  Held(f[Len(a \o b)], out)
  BY DEF Leads
<1> DEFINE m == Len(a)
           n == Len(b)
           c == a \o b
<1>1. m \in Nat /\ n \in Nat /\ Len(c) = m + n
  OBVIOUS
<1>2. /\ \A k \in 1 .. m : c[k] = a[k]
      /\ \A k \in 1 .. n : c[m + k] = b[k]
  OBVIOUS
<1>3. f \in [0 .. Len(c) -> Positions] /\ \A k \in 1 .. Len(c) : f[k] = Go(f[k - 1], c[k])
  BY DEF Along
<1> HIDE DEF c, m, n
<1> DEFINE g == [k \in 0 .. m |-> f[k]]
           h == [k \in 0 .. n |-> f[m + k]]
<1>4. Along(a, g)
  <2>1. g \in [0 .. m -> Positions]
    BY <1>1, <1>3
  <2>2. ASSUME NEW k \in 1 .. m
        PROVE  g[k] = Go(g[k - 1], a[k])
    <3>1. k \in 0 .. m /\ k - 1 \in 0 .. m /\ k \in 1 .. Len(c)
      BY <1>1
    <3>2. g[k] = f[k] /\ g[k - 1] = f[k - 1] /\ f[k] = Go(f[k - 1], c[k]) /\ c[k] = a[k]
      BY <1>2, <1>3, <3>1
    <3> HIDE DEF g
    <3> QED
      BY <3>2
  <2> HIDE DEF g
  <2> QED
    BY <2>1, <2>2 DEF Along, m
<1>5. Along(b, h)
  <2>1. h \in [0 .. n -> Positions]
    BY <1>1, <1>3
  <2>2. ASSUME NEW k \in 1 .. n
        PROVE  h[k] = Go(h[k - 1], b[k])
    <3>1. k \in 0 .. n /\ k - 1 \in 0 .. n /\ m + k \in 1 .. Len(c) /\ m + (k - 1) = (m + k) - 1
      BY <1>1
    <3>2. h[k] = f[m + k] /\ h[k - 1] = f[(m + k) - 1] /\ c[m + k] = b[k]
      BY <1>2, <3>1
    <3>3. f[m + k] = Go(f[(m + k) - 1], c[m + k])
      BY <1>3, <3>1
    <3> HIDE DEF h
    <3> QED
      BY <3>2, <3>3
  <2> HIDE DEF h
  <2> QED
    BY <2>1, <2>2 DEF Along, n
<1>6. g[0] = f[0] /\ g[m] = f[m] /\ h[0] = f[m] /\ h[n] = f[m + n]
  BY <1>1
<1> HIDE DEF g, h
<1>7. Held(g[m], between)
  BY <1>4, <1>6 DEF Leads, m
<1>8. Held(h[n], out)
  BY <1>5, <1>6, <1>7 DEF Leads, n
<1> QED
  BY <1>1, <1>6, <1>8 DEF c

LEMMA Onwards ==
  ASSUME NEW A, NEW B, NEW in, NEW between, NEW out, Within(A, in, between), Within(B, between, out)
  PROVE  Within(A \bullet B, in, out)
<1> DEFINE C == {a \o b : a \in A, b \in B}
           Good(c) == c \in Seq(Strides) /\ Leads(c, in, out)
<1>1. ASSUME NEW a \in A, NEW b \in B
      PROVE  Good(a \o b)
  <2>1. a \in Seq(Strides) /\ b \in Seq(Strides) /\ Leads(a, in, between) /\ Leads(b, between, out)
    BY DEF Within
  <2>2. a \o b \in Seq(Strides)
    BY <2>1
  <2> QED
    BY <2>1, <2>2, LeadsOn
<1>2. \A c \in C : Good(c)
  <2> HIDE DEF Good
  <2> TAKE c \in C
  <2>1. PICK a \in A, b \in B : c = a \o b
    OBVIOUS
  <2> QED
    BY <1>1, <2>1
<1>3. A \bullet B = C
  BY DEF \bullet
<1> HIDE DEF C
<1> QED
  BY <1>2, <1>3 DEF Within

\* However often a part is run that gets no further behind than it began
LEMMA Repeated ==
  ASSUME NEW A, NEW n \in Nat, NEW far, Within(A, far, far), Within({<< >>}, far, far)
  PROVE  Within(Times(A, n), far, far)
<1> DEFINE C == {FlattenSeq(courses) : courses \in BoundedSeq(A, n)}
           Good(c) == c \in Seq(Strides) /\ Leads(c, far, far)
<1>1. (\A c \in A : Good(c)) /\ Good(<< >>)
  BY DEF Within
<1>2. ASSUME NEW courses \in BoundedSeq(A, n)
      PROVE  Good(FlattenSeq(courses))
  <2>1. PICK m \in 0 .. n : courses \in [1 .. m -> A]
    BY DEF BoundedSeq, SeqOf
  <2>2. CASE m = 0
    <3>1. courses = << >>
      BY <2>1, <2>2
    <3>2. FlattenSeq(<< >>) = << >>
      BY DEF FlattenSeq
    <3> HIDE DEF Good
    <3> QED
      BY <1>1, <3>1, <3>2
  <2>3. CASE m # 0
    <3>1. m \in Nat \ {0} /\ \A k \in 1 .. m : courses[k] \in A /\ courses[k] \in Seq(Strides)
      BY <1>1, <2>1, <2>3
    <3>2. courses \in [1 .. m -> Seq(Strides)]
      BY <2>1, <3>1
    <3>3. PICK f : Joins(m, Strides, courses, f) /\ f[m] = FlattenSeq(courses)
      BY <3>1, <3>2, FlattenJoins
    <3>4. /\ \A k \in 1 .. m : f[k] \in Seq(Strides)
          /\ f[1] = courses[1]
          /\ \A k \in 2 .. m : f[k] = f[k - 1] \o courses[k]
      BY <3>3 DEF Joins
    <3> DEFINE S == {k \in 0 .. m - 1 : Good(f[k + 1])}
    <3>5. 0 \in S
      <4>1. Good(courses[1]) /\ 0 \in 0 .. m - 1 /\ 0 + 1 = 1
        BY <1>1, <3>1
      <4> HIDE DEF Good
      <4> QED
        BY <3>4, <4>1
    <3>6. ASSUME NEW k \in S, k \in 0 .. m - 1 /\ k < m - 1
          PROVE  k + 1 \in S
      <4> DEFINE l == k + 2
      <4>1. l \in 2 .. m /\ l - 1 = k + 1 /\ l \in 1 .. m /\ k + 1 \in 0 .. m - 1 /\ (k + 1) + 1 = l
        BY <3>1, <3>6
      <4>2. Good(f[k + 1]) /\ Good(courses[l])
        BY <1>1, <3>1, <4>1
      <4>3. f[l] = f[k + 1] \o courses[l]
        BY <3>4, <4>1
      <4> HIDE DEF l
      <4>4. Good(f[k + 1] \o courses[l])
        <5> DEFINE x == f[k + 1]
                   y == courses[l]
        <5>1. Good(x) /\ Good(y)
          BY <4>2
        <5> HIDE DEF x, y
        <5>2. Leads(x \o y, far, far)
          BY <5>1, LeadsOn
        <5>3. x \o y \in Seq(Strides)
          BY <5>1
        <5> QED
          BY <5>2, <5>3 DEF x, y
      <4>5. Good(f[l])
        BY <4>3, <4>4
      <4> HIDE DEF Good
      <4> QED
        BY <4>1, <4>5
    <3>7. 0 .. m - 1 \subseteq S
      <4>1. m - 1 \in Nat /\ \A k \in S : k \in 0 .. m - 1
        BY <3>1
      <4>2. \A k \in S : k \in 0 .. m - 1 /\ k < m - 1 => k + 1 \in S
        BY <3>6
      <4> HIDE DEF S
      <4> QED
        BY <3>5, <4>1, <4>2, UpTo
    <3>8. m - 1 \in S
      <4>1. m - 1 \in 0 .. m - 1
        BY <3>1
      <4> HIDE DEF S
      <4> QED
        BY <3>7, <4>1
    <3>9. (m - 1) + 1 = m
      BY <3>1
    <3>10. Good(f[(m - 1) + 1])
      <4> HIDE DEF Good
      <4> QED
        BY <3>8
    <3> HIDE DEF Good, S
    <3> QED
      BY <3>3, <3>9, <3>10
  <2> QED
    BY <2>1, <2>2, <2>3
<1>3. \A c \in C : Good(c)
  <2> HIDE DEF Good
  <2> QED
    BY <1>2
<1>4. Times(A, n) = C
  BY DEF Times
<1> HIDE DEF C
<1> QED
  BY <1>3, <1>4 DEF Within

LEMMA Looping ==
  ASSUME NEW A, NEW far \in Nat, Within(A, far, far)
  PROVE  Within(Loop(A), far, far)
BY Repeated, Nothing, SyntaxAssumption DEF Loop
\* The bits behind the end at which a data stream element as long as it can be ends; no block ends
\* further behind.
Farthest == 4111

\* Several parts after each other
LEMMA ThreeOnwards ==
  ASSUME NEW A, NEW B, NEW C, NEW in, NEW i, NEW j, NEW out,
         Within(A, in, i), Within(B, i, j), Within(C, j, out)
  PROVE  Within(A \bullet B \bullet C, in, out)
<1>1. Within(A \bullet B, in, j)
  BY Onwards
<1> QED
  BY <1>1, Onwards

LEMMA FourOnwards ==
  ASSUME NEW A, NEW B, NEW C, NEW D, NEW in, NEW i, NEW j, NEW k, NEW out,
         Within(A, in, i), Within(B, i, j), Within(C, j, k), Within(D, k, out)
  PROVE  Within(A \bullet B \bullet C \bullet D, in, out)
<1>1. Within(A \bullet B \bullet C, in, k)
  BY ThreeOnwards
<1> QED
  BY <1>1, Onwards

\* The parts of a single channel element, from the three bits of its name on (SingleChannelElement)
LEMMA IcsInfoWithin ==
  ASSUME NEW short \in BOOLEAN
  PROVE  Within(IcsInfo(short), 3, Farthest)
<1>1. Within(Skip(4 + 8 + 1), 3, 16) /\ Within(Read(2), 16, 18) /\ Within(Skip(1), 18, 19)
  BY Reading, Skipping
<1>2. Within(Skip(4 + 8 + 1) \bullet Read(2) \bullet Skip(1), 3, 19)
  BY <1>1, ThreeOnwards
<1>3. Within(Read(4 + 7), 19, Farthest)
  <2>1. Within(Read(4 + 7), 19, 30)
    BY Reading
  <2> QED
    BY <2>1, Weaker DEF Farthest
<1>4. Within(Read(6 + 1) \bullet Read(1) \bullet Skip(5) \bullet Skip(40), 19, Farthest)
  <2>1. /\ Within(Read(6 + 1), 19, 26) /\ Within(Read(1), 26, 27)
        /\ Within(Skip(5), 27, 32) /\ Within(Skip(40), 32, Farthest)
    BY Reading, Skipping DEF Farthest
  <2> QED
    BY <2>1, FourOnwards
<1>5. CASE short
  <2>1. IcsInfo(short) = Skip(4 + 8 + 1) \bullet Read(2) \bullet Skip(1) \bullet Read(4 + 7)
    BY <1>5 DEF IcsInfo
  <2> QED
    BY <1>2, <1>3, <2>1, Onwards
<1>6. CASE ~short
  <2>1. IcsInfo(short) = Skip(4 + 8 + 1) \bullet Read(2) \bullet Skip(1)
                           \bullet (Read(6 + 1) \bullet Read(1) \bullet Skip(5) \bullet Skip(40))
    BY <1>6 DEF IcsInfo
  <2> QED
    BY <1>2, <1>4, <2>1, Onwards
<1> QED
  BY <1>5, <1>6

LEMMA SectionsWithin ==
  ASSUME NEW short \in BOOLEAN
  PROVE  Within(SectionData(short), Farthest, Farthest)
<1> DEFINE bits == IF short THEN 3 ELSE 5
<1>1. bits \in Nat /\ bits <= 5
  OBVIOUS
<1> HIDE DEF bits
<1>2. Within(SectionLength(short), 5, 5)
  <2>1. Within(CheckOverrun, 5, 0) /\ Within(Read(bits), 0, 5)
    BY <1>1, Checking, Reading
  <2> QED
    BY <2>1, Onwards DEF SectionLength, bits
<1>3. Within(Loop(SectionLength(short)), 5, 5)
  BY <1>2, Looping
<1>4. Within(Section(short), Farthest, Farthest)
  <2>1. /\ Within(CheckOverrun, Farthest, 0) /\ Within(Read(4), 0, 4)
    BY Checking, Reading DEF Farthest
  <2>2. Within(SectionLength(short), 4, 5)
    BY <1>2, Weaker
  <2>3. Within(Loop(SectionLength(short)), 5, Farthest)
    BY <1>3, Weaker DEF Farthest
  <2> QED
    BY <2>1, <2>2, <2>3, FourOnwards DEF Section
<1>5. Farthest \in Nat
  BY DEF Farthest
<1> QED
  BY <1>4, <1>5, Looping DEF SectionData

LEMMA FactorsWithin == Within(ScaleFactorData, Farthest, Farthest)
<1>1. Farthest \in Nat /\ Within(CheckOverrun, Farthest, 0)
  BY Checking DEF Farthest
<1>2. Within(Read(ScalefactorBits), 0, Farthest)
  <2>1. Within(Read(ScalefactorBits), 0, 19)
    BY Reading DEF ScalefactorBits
  <2> QED
    BY <2>1, Weaker DEF Farthest
<1>3. Within(Skip(9), 0, Farthest)
  BY Skipping DEF Farthest
<1>4. Within(Read(ScalefactorBits) \cup Skip(9), 0, Farthest)
  BY <1>2, <1>3, Either
<1>5. Within(CheckOverrun \bullet (Read(ScalefactorBits) \cup Skip(9)), Farthest, Farthest)
  BY <1>1, <1>4, Onwards
<1> QED
  BY <1>1, <1>5, Looping DEF ScaleFactorData

LEMMA PulsesWithin == Within(PulseData, Farthest, Farthest)
<1>1. /\ Within(CheckOverrun, Farthest, 0) /\ Within(Read(1), 0, 1)
      /\ Within(Read(2), 1, 3) /\ Within(Skip(6 + 9 * 4), 3, Farthest)
  BY Checking, Reading, Skipping DEF Farthest
<1> QED
  BY <1>1, FourOnwards DEF PulseData

LEMMA FilterWithin ==
  ASSUME NEW short \in BOOLEAN
  PROVE  Within(TnsFilter(short), Farthest, Farthest)
<1> DEFINE length == IF short THEN 4 ELSE 6
           order == IF short THEN 3 ELSE 5
           coefs == 4 * (IF short THEN 7 ELSE 31)
<1>1. /\ length \in Nat /\ length <= 6 /\ order \in Nat /\ order <= 5
      /\ coefs \in Nat /\ coefs <= 124
  OBVIOUS
<1> HIDE DEF length, order, coefs
<1>2. /\ Within(Skip(length), Farthest, Farthest + 6) /\ Within(CheckOverrun, Farthest + 6, 0)
      /\ Within(Read(order), 0, 5) /\ Within(Skip(1), 5, 6)
  BY <1>1, Checking, Reading, Skipping DEF Farthest
<1>3. Within(Read(1), 6, 7) /\ Within(Skip(coefs), 7, Farthest)
  BY <1>1, Reading, Skipping DEF Farthest
<1>4. Within(Skip(length) \bullet CheckOverrun \bullet Read(order) \bullet Skip(1), Farthest, 6)
  BY <1>2, FourOnwards
<1> QED
  BY <1>3, <1>4, ThreeOnwards DEF TnsFilter, length, order, coefs

LEMMA TnsWithin ==
  ASSUME NEW short \in BOOLEAN
  PROVE  Within(TnsData(short), Farthest, Farthest)
<1>1. Farthest \in Nat
  BY DEF Farthest
<1>2. Within(TnsFilter(TRUE), Farthest, Farthest) /\ Within(TnsFilter(FALSE), Farthest, Farthest)
  BY FilterWithin
<1>3. /\ Within(TnsFilter(TRUE) \cup {<< >>}, Farthest, Farthest)
      /\ Within(Loop(TnsFilter(FALSE)), Farthest, Farthest)
  BY <1>1, <1>2, Either, Nothing, Looping
<1>4. ASSUME NEW filters, Within(filters, Farthest, Farthest), NEW bits \in 1 .. 2
      PROVE  Within(CheckOverrun \bullet Read(bits) \bullet Read(1) \bullet filters, Farthest, Farthest)
  <2>1. /\ Within(CheckOverrun, Farthest, 0) /\ Within(Read(bits), 0, 2)
        /\ Within(Read(1), 2, Farthest)
    <3>1. Within(CheckOverrun, Farthest, 0) /\ Within(Read(bits), 0, 2) /\ Within(Read(1), 2, 3)
      BY <1>1, Checking, Reading
    <3> QED
      BY <3>1, Weaker DEF Farthest
  <2> QED
    BY <1>4, <2>1, FourOnwards
<1>5. Within(TnsWindow(TRUE), Farthest, Farthest)
  <2>1. TnsWindow(TRUE) = CheckOverrun \bullet Read(1) \bullet Read(1) \bullet (TnsFilter(TRUE) \cup {<< >>})
    BY DEF TnsWindow
  <2> DEFINE filters == TnsFilter(TRUE) \cup {<< >>}
  <2>2. Within(filters, Farthest, Farthest)
    BY <1>3
  <2> HIDE DEF filters
  <2>3. 1 \in 1 .. 2
    OBVIOUS
  <2>4. Within(CheckOverrun \bullet Read(1) \bullet Read(1) \bullet filters, Farthest, Farthest)
    BY <1>4, <2>2, <2>3
  <2> QED
    BY <2>1, <2>4 DEF filters
<1>6. Within(TnsWindow(FALSE), Farthest, Farthest)
  <2>1. TnsWindow(FALSE) = CheckOverrun \bullet Read(2) \bullet Read(1) \bullet Loop(TnsFilter(FALSE))
    BY DEF TnsWindow
  <2> DEFINE filters == Loop(TnsFilter(FALSE))
  <2>2. Within(filters, Farthest, Farthest)
    BY <1>3
  <2> HIDE DEF filters
  <2>3. 2 \in 1 .. 2
    OBVIOUS
  <2>4. Within(CheckOverrun \bullet Read(2) \bullet Read(1) \bullet filters, Farthest, Farthest)
    BY <1>4, <2>2, <2>3
  <2> QED
    BY <2>1, <2>4 DEF filters
<1>7. Within(Loop(TnsWindow(TRUE)), Farthest, Farthest)
  BY <1>1, <1>5, Looping
<1>8. Within(CheckOverrun, Farthest, 0) /\ Within(Read(1), 0, Farthest)
  <2>1. Within(CheckOverrun, Farthest, 0) /\ Within(Read(1), 0, 1)
    BY <1>1, Checking, Reading
  <2> QED
    BY <2>1, Weaker DEF Farthest
<1>9. CASE short
  <2>1. TnsData(short) = CheckOverrun \bullet Read(1) \bullet Loop(TnsWindow(TRUE))
    BY <1>9 DEF TnsData
  <2> QED
    BY <1>7, <1>8, <2>1, ThreeOnwards
<1>10. CASE ~short
  <2>1. TnsData(short) = CheckOverrun \bullet Read(1) \bullet TnsWindow(FALSE)
    BY <1>10 DEF TnsData
  <2> QED
    BY <1>6, <1>8, <2>1, ThreeOnwards
<1> QED
  BY <1>9, <1>10

LEMMA GainWithin == Within(GainControlData, Farthest, Farthest)
<1>1. Farthest \in Nat
  BY DEF Farthest
<1>2. Within(CheckOverrun \bullet Read(3) \bullet Skip(6 * 7), Farthest, Farthest)
  <2>1. /\ Within(CheckOverrun, Farthest, 0) /\ Within(Read(3), 0, 3)
        /\ Within(Skip(6 * 7), 3, Farthest)
    BY Checking, Reading, Skipping DEF Farthest
  <2> QED
    BY <2>1, ThreeOnwards
<1>3. /\ Within(CheckOverrun, Farthest, 0) /\ Within(Read(1), 0, 1) /\ Within(Read(2), 1, Farthest)
  <2>1. Within(CheckOverrun, Farthest, 0) /\ Within(Read(1), 0, 1) /\ Within(Read(2), 1, 3)
    BY <1>1, Checking, Reading
  <2> QED
    BY <2>1, Weaker DEF Farthest
<1> QED
  BY <1>1, <1>2, <1>3, Looping, FourOnwards DEF GainControlData

LEMMA SpectrumWithin == Within(SpectralData, Farthest, Farthest)
<1>1. Farthest \in Nat /\ Within(CheckOverrun, Farthest, 0)
  BY Checking DEF Farthest
<1> DEFINE quad == Read(QuadBits) \bullet Skip(4)
           pair == Read(PairBits) \bullet Skip(2)
           esc == Read(EscPairBits) \bullet Skip(2) \bullet Escape \bullet Escape
<1>2. Within(quad, 0, Farthest)
  <2>1. Within(Read(QuadBits), 0, 16) /\ Within(Skip(4), 16, Farthest)
    BY Reading, Skipping DEF Farthest, QuadBits
  <2> QED
    BY <2>1, Onwards
<1>3. Within(pair, 0, Farthest)
  <2>1. Within(Read(PairBits), 0, 15) /\ Within(Skip(2), 15, Farthest)
    BY Reading, Skipping DEF Farthest, PairBits
  <2> QED
    BY <2>1, Onwards
<1>4. Within(esc, 0, Farthest)
  <2>1. Within(Escape, 14, 35) /\ Within(Escape, 35, Farthest)
    <3>1. /\ Within(Read(9), 14, 23) /\ Within(Skip(8 + 4), 23, 35)
          /\ Within(Read(9), 35, 44) /\ Within(Skip(8 + 4), 44, Farthest)
      BY Reading, Skipping DEF Farthest
    <3> QED
      BY <3>1, Onwards DEF Escape
  <2>2. Within(Read(EscPairBits), 0, 12) /\ Within(Skip(2), 12, 14)
    BY Reading, Skipping DEF EscPairBits
  <2> QED
    BY <2>1, <2>2, FourOnwards
<1> HIDE DEF quad, pair, esc
<1>5. Within(quad \cup pair \cup esc, 0, Farthest)
  BY <1>2, <1>3, <1>4, Either
<1>6. Within(Coefficients, Farthest, Farthest)
  BY <1>1, <1>5, Onwards DEF Coefficients, quad, pair, esc
<1>7. Within(Loop(Coefficients), 0, Farthest)
  <2>1. Within(Loop(Coefficients), Farthest, Farthest)
    BY <1>1, <1>6, Looping
  <2> QED
    BY <2>1, Weaker DEF Farthest
<1> QED
  BY <1>1, <1>7, Onwards DEF SpectralData

LEMMA ChannelWithin ==
  ASSUME NEW short \in BOOLEAN
  PROVE  Within(SingleChannelElement(short), 3, Farthest)
<1>1. Within(IcsInfo(short) \bullet SectionData(short) \bullet ScaleFactorData \bullet PulseData, 3, Farthest)
  BY IcsInfoWithin, SectionsWithin, FactorsWithin, PulsesWithin, FourOnwards
<1> QED
  BY <1>1, TnsWithin, GainWithin, SpectrumWithin, FourOnwards DEF SingleChannelElement

\* The other elements (DataStreamElement, ProgramConfigElement, FillElement, RawDataBlock)
LEMMA DataStreamWithin == Within(DataStreamElement, 3, Farthest)
<1>1. /\ Within(Skip(4), 3, 7) /\ Within(Read(1 + 8), 7, 16) /\ Within(Read(8), 16, 24)
      /\ Within(ByteAlignment, 24, 31)
  BY Reading, Skipping DEF ByteAlignment
<1>2. Within(Skip(8 * (255 + 255)), 31, Farthest)
  BY Skipping DEF Farthest
<1> QED
  BY <1>1, <1>2, FourOnwards, Onwards DEF DataStreamElement

LEMMA ProgramConfigWithin == Within(ProgramConfigElement, 3, Farthest)
<1> DEFINE channels == Read(4 + 4 + 4 + 2 + 3 + 4)
           elements == Skip(5 * (15 + 15 + 15) + 4 * 3 + 4 * 7 + 5 * 15)
<1>1. /\ Within(Skip(10), 3, 13) /\ Within(channels, 13, 34) /\ Within(Read(1), 34, 35)
      /\ Within(Skip(4), 35, 39)
  BY Reading, Skipping
<1>2. /\ Within(Read(1), 39, 40) /\ Within(Skip(4), 40, 44) /\ Within(Read(1), 44, 45)
  BY Reading, Skipping
<1>3. Within(Skip(3), 45, 48) /\ Within(elements, 48, 388)
  BY Skipping
<1> HIDE DEF channels, elements
<1>4. Within(Skip(10) \bullet channels \bullet Read(1) \bullet Skip(4), 3, 39)
  BY <1>1, FourOnwards
<1>5. Within(Skip(10) \bullet channels \bullet Read(1) \bullet Skip(4) \bullet Read(1) \bullet Skip(4)
               \bullet Read(1), 3, 45)
  BY <1>2, <1>4, FourOnwards
<1>6. Within(ProgramConfig, 3, 388)
  BY <1>3, <1>5, ThreeOnwards DEF ProgramConfig, channels, elements
<1>7. Within(Comment, 0, Farthest)
  <2>1. Within(ByteAlignment, 0, 7) /\ Within(Read(8), 7, 15) /\ Within(Skip(8 * 255), 15, Farthest)
    BY Reading, Skipping DEF ByteAlignment, Farthest
  <2> QED
    BY <2>1, ThreeOnwards DEF Comment
<1>8. Within(CheckOverrun, 388, 0)
  BY Checking
<1> QED
  BY <1>6, <1>7, <1>8, ThreeOnwards DEF ProgramConfigElement

LEMMA FillWithin == Within(FillElement, 3, Farthest)
<1>1. /\ Within(Read(4), 3, 7) /\ Within(Read(8), 7, 15) /\ Within(Read(4), 15, 19)
      /\ Within(Skip(8 * (15 + 255 - 2) + 4), 19, Farthest)
  BY Reading, Skipping DEF Farthest
<1> QED
  BY <1>1, FourOnwards DEF FillElement

LEMMA BlockWithin == Within(RawDataBlock, Farthest + 23, Farthest)
<1>1. Farthest \in Nat /\ Within(CheckOverrun, Farthest + 23, 0) /\ Within(Read(3), 0, 3)
  BY Checking, Reading DEF Farthest
<1>2. Within({<< >>}, 3, Farthest)
  <2>1. Within({<< >>}, 3, 3)
    BY Nothing
  <2> QED
    BY <2>1, Weaker DEF Farthest
<1>3. /\ Within(SingleChannelElement(TRUE), 3, Farthest) /\ Within(SingleChannelElement(FALSE), 3, Farthest)
  BY ChannelWithin
<1>4. Within(SingleChannelElement(TRUE) \cup SingleChannelElement(FALSE) \cup DataStreamElement
               \cup ProgramConfigElement \cup FillElement \cup {<< >>}, 3, Farthest)
  BY <1>2, <1>3, DataStreamWithin, ProgramConfigWithin, FillWithin, Either
<1> QED
  BY <1>1, <1>4, ThreeOnwards DEF RawDataBlock

\* The elements of a frame (TransmuxDualMono, TransmuxMonoToStereo)
LEMMA CourseWithin == Within(Courses, Farthest, 0)
<1>1. Farthest \in Nat /\ Within(CheckOverrun, Farthest, 0) /\ Within({<< >>}, Farthest, Farthest)
  BY Checking, Nothing DEF Farthest
<1>2. Within(ErrorCheck, Farthest, Farthest + 23)
  <2>1. Within(Skip(7), Farthest, Farthest + 7) /\ Within(Skip(16), Farthest + 7, Farthest + 23)
    BY Skipping DEF Farthest
  <2> QED
    BY <2>1, Onwards DEF ErrorCheck, ByteAlignment
<1>3. Within(ErrorCheck \bullet RawDataBlock, Farthest, Farthest)
  BY <1>2, BlockWithin, Onwards
<1>4. Within(Times(ErrorCheck \bullet RawDataBlock, MaxElements), Farthest, Farthest)
  BY <1>1, <1>3, Repeated, SyntaxAssumption
<1> QED
  BY <1>1, <1>4, Onwards DEF Courses

\* The position that ReadsBehind computes is one along the course.
LEMMA PositionsGo ==
  ASSUME NEW c \in Seq(Strides)
  PROVE  \E f : Along(c, f) /\ f[0] = AtEnd /\ ReadsBehind(c) = f[Len(c)].read
<1> DEFINE n == Len(c)
           act == [i \in 1 .. n |-> [p \in Positions |-> Go(p, c[i])]]
           Eq(f) == f = [i \in 0 .. n |-> IF i = 0 THEN AtEnd ELSE Go(f[i - 1], c[i])]
           h == CHOOSE f : Eq(f)
<1>1. n \in Nat /\ \A i \in 1 .. n : c[i] \in Strides
  OBVIOUS
<1>2. ReadsBehind(c) = h[n].read
  BY DEF ReadsBehind
<1>3. AtEnd \in Positions
  BY DEF AtEnd, Positions
<1> HIDE DEF n
<1>4. act \in [1 .. n -> [Positions -> Positions]]
  <2>1. \A i \in 1 .. n : \A p \in Positions : Go(p, c[i]) \in Positions
    BY <1>1, GoIs
  <2> QED
    BY <2>1
<1>5. \A i \in 1 .. n : \A p \in Positions : act[i][p] = Go(p, c[i])
  OBVIOUS
<1> HIDE DEF act
<1>6. PICK g : Folds(n, Positions, AtEnd, act, g)
  BY <1>1, <1>3, <1>4, FoldThere
<1>7. /\ \A s \in SUBSET (1 .. n) : g[s] \in Positions
      /\ \A s \in SUBSET (1 .. n) : g[s] = IF s = {} THEN AtEnd ELSE act[Max(s)][g[s \ {Max(s)}]]
  BY <1>6 DEF Folds
<1> DEFINE f == [i \in 0 .. n |-> g[1 .. i]]
<1>8. \A i \in 0 .. n : 1 .. i \in SUBSET (1 .. n)
  BY <1>1
<1>9. f \in [0 .. n -> Positions]
  BY <1>7, <1>8
<1>10. f[0] = AtEnd
  <2>1. 1 .. 0 = {} /\ 0 \in 0 .. n
    BY <1>1
  <2> QED
    BY <1>7, <1>8, <2>1
<1>11. ASSUME NEW k \in 1 .. n
       PROVE  f[k] = Go(f[k - 1], c[k])
  <2>1. /\ 1 .. k \in SUBSET (1 .. n) /\ 1 .. k # {} /\ Max(1 .. k) = k
        /\ (1 .. k) \ {k} = 1 .. k - 1
    BY <1>1, Stretches
  <2>2. k \in 0 .. n /\ k - 1 \in 0 .. n
    BY <1>1
  <2>3. g[1 .. k - 1] \in Positions /\ f[k] = g[1 .. k] /\ f[k - 1] = g[1 .. k - 1]
    BY <1>7, <1>8, <2>2
  <2>4. g[1 .. k] = act[k][g[1 .. k - 1]]
    BY <1>7, <2>1
  <2> HIDE DEF f
  <2> QED
    BY <1>5, <2>3, <2>4
<1>12. Eq(f)
  <2>1. \A i \in 0 .. n : f[i] = IF i = 0 THEN AtEnd ELSE Go(f[i - 1], c[i])
    <3>1. \A i \in 0 .. n : i = 0 \/ i \in 1 .. n
      BY <1>1
    <3> HIDE DEF f
    <3> QED
      BY <1>10, <1>11, <3>1
  <2>2. f = [i \in 0 .. n |-> f[i]]
    OBVIOUS
  <2> HIDE DEF f
  <2> QED
    BY <2>1, <2>2
<1> HIDE DEF f
<1>13. Eq(h)
  <2> HIDE DEF Eq
  <2> QED
    BY <1>12
<1> HIDE DEF h
<1>14. h[0] = f[0] /\ \A i \in 1 .. n : h[i] = Go(h[i - 1], c[i])
  BY <1>1, <1>10, <1>13
<1> DEFINE S == {i \in 0 .. n : h[i] = f[i]}
<1>15. 0 .. n \subseteq S
  <2>1. 0 \in S /\ \A i \in S : i \in 0 .. n
    BY <1>1, <1>14
  <2>2. ASSUME NEW i \in S, i < n
        PROVE  i + 1 \in S
    <3> DEFINE k == i + 1
    <3>1. k \in 1 .. n /\ k - 1 = i /\ h[i] = f[i] /\ k \in 0 .. n
      BY <1>1, <2>2
    <3> HIDE DEF k
    <3>2. h[k] = Go(h[i], c[k]) /\ f[k] = Go(f[i], c[k])
      BY <1>11, <1>14, <3>1
    <3> QED
      BY <3>1, <3>2 DEF k
  <2> HIDE DEF S
  <2> QED
    BY <1>1, <2>1, <2>2, UpTo
<1>16. h[n] = f[n]
  BY <1>1, <1>15
<1>17. Along(c, f)
  BY <1>9, <1>11 DEF Along, n
<1> QED
  BY <1>2, <1>10, <1>16, <1>17 DEF n

LEMMA CourseInside ==
  ASSUME NEW c \in Courses
  PROVE  ReadsBehind(c) <= 8 * ExtraWorkspaceBytes
<1>1. c \in Seq(Strides) /\ Leads(c, Farthest, 0)
  BY CourseWithin DEF Within
<1>2. PICK f : Along(c, f) /\ f[0] = AtEnd /\ ReadsBehind(c) = f[Len(c)].read
  BY <1>1, PositionsGo
<1>3. Held(AtEnd, Farthest)
  BY DEF Held, AtEnd, Farthest, ExtraWorkspaceBytes
<1>4. Held(f[Len(c)], 0)
  BY <1>1, <1>2, <1>3 DEF Leads
<1> QED
  BY <1>2, <1>4 DEF Held

-----------------------------------------------------------------------------
(* The values of codewords.                                                *)

\* The digits of an index to the base 3 (DecodeSpectrumQuadBits), and those to the base of a
\* codebook of pairs (DecodeSpectrumPairBits)
LEMMA QuadDigits ==
  ASSUME NEW i \in 0 .. 80
  PROVE  /\ i \div 27 \in 0 .. 2 /\ (i \div 9) % 3 \in 0 .. 2
         /\ (i \div 3) % 3 \in 0 .. 2 /\ i % 3 \in 0 .. 2
OBVIOUS

LEMMA QuadIndex ==
  ASSUME NEW w \in 0 .. 2, NEW x \in 0 .. 2, NEW y \in 0 .. 2, NEW z \in 0 .. 2,
         NEW i, i = 27 * w + 9 * x + 3 * y + z
  PROVE  /\ i \in 0 .. 80
         /\ i \div 27 = w /\ (i \div 9) % 3 = x /\ (i \div 3) % 3 = y /\ i % 3 = z
OBVIOUS

LEMMA PairDigits ==
  ASSUME NEW m \in {8, 9, 13, 17}, NEW i \in 0 .. m * m - 1
  PROVE  i \div m \in 0 .. m - 1 /\ i % m \in 0 .. m - 1
<1>1. CASE m = 8
  BY <1>1
<1>2. CASE m = 9
  BY <1>2
<1>3. CASE m = 13
  BY <1>3
<1>4. CASE m = 17
  BY <1>4
<1> QED
  BY <1>1, <1>2, <1>3, <1>4

LEMMA PairIndex ==
  ASSUME NEW m \in {8, 9, 13, 17}, NEW y \in 0 .. m - 1, NEW z \in 0 .. m - 1
  PROVE  /\ m * y + z \in 0 .. m * m - 1
         /\ (m * y + z) \div m = y /\ (m * y + z) % m = z
<1>1. CASE m = 8
  BY <1>1
<1>2. CASE m = 9
  BY <1>2
<1>3. CASE m = 13
  BY <1>3
<1>4. CASE m = 17
  BY <1>4
<1> QED
  BY <1>1, <1>2, <1>3, <1>4

LEMMA QuadsDecode ==
  ASSUME NEW n \in 1 .. 4
  PROVE  Decoded(n) = Values(n)
<1> DEFINE un == IF n - 1 >= 2 THEN 1 ELSE 0
           V == un - 1 .. un + 1
<1>1. un \in {0, 1} /\ V \subseteq Int
  OBVIOUS
<1>2. /\ Codebooks[n].words = 81
      /\ (IF Codebooks[n].signs THEN -Codebooks[n].largest ELSE 0) = un - 1
      /\ Codebooks[n].largest = un + 1
  BY DEF Codebooks
<1>3. Values(n) = [1 .. 4 -> V]
  BY <1>2 DEF Values
<1>4. Decoded(n) = {Quad(n - 1, i) : i \in 0 .. 80}
  BY <1>2 DEF Decoded
<1>5. \A i : Quad(n - 1, i) = <<i \div 27 + un - 1, ((i \div 9) % 3) + un - 1, ((i \div 3) % 3) + un - 1, (i % 3) + un - 1>>
  BY DEF Quad
<1> HIDE DEF un
<1>6. ASSUME NEW i \in 0 .. 80
      PROVE  Quad(n - 1, i) \in [1 .. 4 -> V]
  <2> DEFINE w == i \div 27
             x == (i \div 9) % 3
             y == (i \div 3) % 3
             z == i % 3
  <2>1. w \in 0 .. 2 /\ x \in 0 .. 2 /\ y \in 0 .. 2 /\ z \in 0 .. 2
    BY QuadDigits
  <2>2. Quad(n - 1, i) = <<w + un - 1, x + un - 1, y + un - 1, z + un - 1>>
    BY <1>5
  <2> HIDE DEF w, x, y, z
  <2>3. w + un - 1 \in V /\ x + un - 1 \in V /\ y + un - 1 \in V /\ z + un - 1 \in V
    BY <1>1, <2>1
  <2> HIDE DEF V
  <2> QED
    BY <2>2, <2>3
<1>7. ASSUME NEW f \in [1 .. 4 -> V]
      PROVE  \E i \in 0 .. 80 : f = Quad(n - 1, i)
  <2> DEFINE d(k) == f[k] - un + 1
             i == 27 * d(1) + 9 * d(2) + 3 * d(3) + d(4)
  <2>1. f[1] \in V /\ f[2] \in V /\ f[3] \in V /\ f[4] \in V
    <3> HIDE DEF V
    <3> QED
      OBVIOUS
  <2>2. d(1) \in 0 .. 2 /\ d(2) \in 0 .. 2 /\ d(3) \in 0 .. 2 /\ d(4) \in 0 .. 2
    <3>1. \A v \in V : v - un + 1 \in 0 .. 2
      BY <1>1
    <3> HIDE DEF V
    <3> QED
      BY <2>1, <3>1
  <2>3. \A v \in V : (v - un + 1) + un - 1 = v
    BY <1>1
  <2>4. /\ d(1) + un - 1 = f[1] /\ d(2) + un - 1 = f[2]
        /\ d(3) + un - 1 = f[3] /\ d(4) + un - 1 = f[4]
    BY <2>1, <2>3
  <2> HIDE DEF d
  <2>5. /\ i \in 0 .. 80
        /\ i \div 27 = d(1) /\ (i \div 9) % 3 = d(2) /\ (i \div 3) % 3 = d(3) /\ i % 3 = d(4)
    BY <2>2, QuadIndex
  <2> HIDE DEF i
  <2>6. Quad(n - 1, i) = <<f[1], f[2], f[3], f[4]>>
    BY <1>5, <2>4, <2>5
  <2>7. f = <<f[1], f[2], f[3], f[4]>>
    <3> HIDE DEF V
    <3> QED
      OBVIOUS
  <2> QED
    BY <2>5, <2>6, <2>7
<1> DEFINE D == {Quad(n - 1, i) : i \in 0 .. 80}
           T == [1 .. 4 -> V]
<1>8. D \subseteq T
  <2> HIDE DEF T
  <2> QED
    BY <1>6 DEF T
<1>9. T \subseteq D
  BY <1>7
<1> HIDE DEF D, T
<1>10. D = T
  BY <1>8, <1>9
<1> QED
  BY <1>3, <1>4, <1>10 DEF D, T

LEMMA PairsDecode ==
  ASSUME NEW n \in 5 .. 11
  PROVE  Decoded(n) = Values(n)
<1> DEFINE m == IF n - 1 >= 10 THEN 17 ELSE IF n - 1 >= 8 THEN 13 ELSE IF n - 1 >= 6 THEN 8 ELSE 9
           un == IF n - 1 >= 6 THEN 1 ELSE 0
           low == 4 * un - 4
           V == low .. low + (m - 1)
<1>1. m \in {8, 9, 13, 17} /\ low \in Int
  OBVIOUS
<1>2. /\ Codebooks[n].words = m * m
      /\ (IF Codebooks[n].signs THEN -Codebooks[n].largest ELSE 0) = low
      /\ Codebooks[n].largest = low + (m - 1)
  <2>1. n \in {5, 6, 7, 8, 9, 10, 11}
    OBVIOUS
  <2> QED
    BY <2>1 DEF Codebooks
<1>3. Values(n) = [1 .. 2 -> V]
  <2>1. ~(n < 5)
    OBVIOUS
  <2> HIDE DEF low, m
  <2> QED
    BY <1>2, <2>1 DEF Values
<1>4. Decoded(n) = {Pair(n - 1, i) : i \in 0 .. m * m - 1}
  <2>1. ~(n < 5)
    OBVIOUS
  <2> HIDE DEF low, m
  <2> QED
    BY <1>2, <2>1 DEF Decoded
<1>5. \A i : Pair(n - 1, i) = <<i \div m + 4 * un - 4, (i % m) + 4 * un - 4>>
  BY DEF Pair
<1>6. \A a \in Int : a + 4 * un - 4 = a + low
  OBVIOUS
<1> HIDE DEF m, un, low
<1>7. ASSUME NEW i \in 0 .. m * m - 1
      PROVE  Pair(n - 1, i) \in [1 .. 2 -> V]
  <2> DEFINE y == i \div m
             z == i % m
  <2>1. y \in 0 .. m - 1 /\ z \in 0 .. m - 1
    BY <1>1, PairDigits
  <2>2. Pair(n - 1, i) = <<y + 4 * un - 4, z + 4 * un - 4>>
    BY <1>5
  <2> HIDE DEF y, z
  <2>3. y \in Int /\ z \in Int /\ m \in Int
    BY <1>1, <2>1
  <2>4. y + 4 * un - 4 = y + low /\ z + 4 * un - 4 = z + low
    BY <1>6, <2>3
  <2>5. y + low \in V /\ z + low \in V
    BY <1>1, <2>1, <2>3
  <2> HIDE DEF V
  <2> QED
    BY <2>2, <2>4, <2>5
<1>8. ASSUME NEW f \in [1 .. 2 -> V]
      PROVE  \E i \in 0 .. m * m - 1 : f = Pair(n - 1, i)
  <2> DEFINE y == f[1] - low
             z == f[2] - low
             i == m * y + z
  <2>1. f[1] \in V /\ f[2] \in V
    <3> HIDE DEF V
    <3> QED
      OBVIOUS
  <2>2. y \in 0 .. m - 1 /\ z \in 0 .. m - 1 /\ y \in Int /\ z \in Int
    BY <1>1, <2>1
  <2>3. y + low = f[1] /\ z + low = f[2]
    BY <1>1, <2>1
  <2> HIDE DEF y, z
  <2>4. i \in 0 .. m * m - 1 /\ i \div m = y /\ i % m = z
    BY <1>1, <2>2, PairIndex
  <2>5. y + 4 * un - 4 = f[1] /\ z + 4 * un - 4 = f[2]
    BY <1>6, <2>2, <2>3
  <2> HIDE DEF i
  <2>6. Pair(n - 1, i) = <<f[1], f[2]>>
    BY <1>5, <2>4, <2>5
  <2>7. f = <<f[1], f[2]>>
    <3> HIDE DEF V
    <3> QED
      OBVIOUS
  <2> QED
    BY <2>4, <2>6, <2>7
<1> DEFINE D == {Pair(n - 1, i) : i \in 0 .. m * m - 1}
           T == [1 .. 2 -> V]
<1>9. D \subseteq T
  <2> HIDE DEF T
  <2> QED
    BY <1>7 DEF T
<1>10. T \subseteq D
  BY <1>8
<1> HIDE DEF D, T
<1>11. D = T
  BY <1>9, <1>10
<1> QED
  BY <1>3, <1>4, <1>11 DEF D, T

-----------------------------------------------------------------------------
(* The inputs.                                                             *)

\* Of however many blocks, wherever in its bytes each of them ends: the frame written has the channel
\* of every block twice, or once, and an end element, and its length field says how long it is
\* (TransmuxDualMono, TransmuxMonoToStereo).
THEOREM BlocksRepacked == InputSpec => []Repacked
<1>1. InputInit => Repacked
  <2> SUFFICES ASSUME InputInit, input.of = "elements"
               PROVE  AsWanted(input.elements, input.mux)
    BY DEF Repacked
  <2>1. input.elements \in BoundedSeq(Elements, MaxBlocks) \ {<< >>} /\ input.mux \in BOOLEAN
    BY DEF InputInit, Inputs, NoInput
  <2> DEFINE s == input.elements
             mux == input.mux
  <2>2. PICK n \in 0 .. MaxBlocks : s \in [1 .. n -> Elements]
    BY <2>1 DEF BoundedSeq, SeqOf
  <2>3. Elements \subseteq ElementSet /\ MaxBlocks \in Nat
    BY RepackAssumption DEF ElementSet
  <2>4. s # << >>
    BY <2>1
  <2> HIDE DEF s, mux
  <2>5. n # 0
    BY <2>2, <2>4
  <2>6. n \in Nat \ {0} /\ s \in [1 .. n -> ElementSet]
    BY <2>2, <2>3, <2>5
  <2>7. AsWanted(s, mux)
    BY <2>1, <2>6, FrameIs DEF mux
  <2> QED
    BY <2>7 DEF s, mux
<1>2. Repacked /\ [InputNext]_<<vars, input>> => Repacked'
  BY DEF InputNext, Repacked, NoInput
<1> QED
  BY <1>1, <1>2, PTL DEF InputSpec

\* A codebook without prefixes becomes a tree exactly when it is full, and the tree gives every
\* codeword its index back and takes no bit more, in whatever order the codewords are appended
\* (AppendCodeword, DecodeBits).
THEOREM CodebooksDecode == InputSpec => []TreeDecodes
<1>1. InputInit => TreeDecodes
  <2> SUFFICES ASSUME InputInit, input.of = "words"
               PROVE  /\ Tree(input.book) # Thrown <=> Full(input.book)
                      /\ Full(input.book) => Decodes(input.book)
    BY DEF TreeDecodes
  <2>1. input.book \in PrefixFree
    BY DEF InputInit, Inputs, NoInput
  <2> QED
    BY <2>1, BookDecodes
<1>2. TreeDecodes /\ [InputNext]_<<vars, input>> => TreeDecodes'
  BY DEF InputNext, TreeDecodes, NoInput
<1> QED
  BY <1>1, <1>2, PTL DEF InputSpec

\* Of however many elements after each other, however often each loop of theirs is run: parsing
\* reads no byte behind those kept behind the workspace (RawDataBlock, EXTRA_WORKSPACE_BYTES).
THEOREM ParsingStaysInside == InputSpec => []ReadsInside
<1>1. InputInit => ReadsInside
  <2> SUFFICES ASSUME InputInit, input.of = "course"
               PROVE  ReadsBehind(input.course) <= 8 * ExtraWorkspaceBytes
    BY DEF ReadsInside
  <2>1. input.course \in Courses
    BY DEF InputInit, Inputs, NoInput
  <2> QED
    BY <2>1, CourseInside
<1>2. ReadsInside /\ [InputNext]_<<vars, input>> => ReadsInside'
  BY DEF InputNext, ReadsInside, NoInput
<1> QED
  BY <1>1, <1>2, PTL DEF InputSpec

\* The codewords of each of the eleven codebooks stand for all values up to its largest, each
\* combination of them once (DecodeSpectrumQuadBits, DecodeSpectrumPairBits).
THEOREM SpectraDecode == InputSpec => []SpectrumValues
<1>1. InputInit => SpectrumValues
  <2> SUFFICES ASSUME InputInit, input.of = "spectrum"
               PROVE  Decoded(input.number) = Values(input.number)
    BY DEF SpectrumValues
  <2>1. input.number \in DOMAIN Codebooks
    BY DEF InputInit, Inputs, NoInput
  <2>2. DOMAIN Codebooks = 1 .. 11
    BY DEF Codebooks
  <2>3. input.number \in 1 .. 4 \/ input.number \in 5 .. 11
    BY <2>1, <2>2
  <2> QED
    BY <2>3, QuadsDecode, PairsDecode
<1>2. SpectrumValues /\ [InputNext]_<<vars, input>> => SpectrumValues'
  BY DEF InputNext, SpectrumValues, NoInput
<1> QED
  BY <1>1, <1>2, PTL DEF InputSpec
=============================================================================
