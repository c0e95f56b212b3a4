--------------------------- MODULE TraceB24Proofs ---------------------------
(***************************************************************************)
(* What the caption trace keeps for every stream, every number of code     *)
(* points and every bound: the languages are those announced, a DRCS code  *)
(* is written with the code point its PID was told of, and each list of    *)
(* codes is a window over the last new ones.                               *)
(***************************************************************************)
EXTENDS TraceTexts, IndexLemmas, Integers, SequenceTheorems, TLAPS

USE RingAssumption

-----------------------------------------------------------------------------
(* The ring of DRCS codes: what Mapped keeps, and that it is a window over *)
(* the last new codes.                                                     *)

Rings(codes) == [last : Nat, codes : Seq(codes)]

\* A ring that holds nothing.
LEMMA EmptyRingOK ==
  ASSUME NEW C
  PROVE  EmptyRing \in Rings(C) /\ RingOK(EmptyRing) /\ Unrolled(EmptyRing) = << >>
<1>1. EmptyRing \in Rings(C) /\ EmptyRing.codes = << >> /\ EmptyRing.last = 0
  BY DEF EmptyRing, Rings
<1>2. Unrolled(EmptyRing) = << >>
  BY <1>1 DEF Unrolled
<1> QED
  BY <1>1, <1>2 DEF RingOK, EmptyRing

\* The index of a code is where the ring has it.
LEMMA IndexWhere ==
  ASSUME NEW C, NEW list \in Rings(C), RingOK(list), NEW c
  PROVE  /\ Index(list, c) \in 0 .. Len(list.codes)
         /\ Index(list, c) # 0 => list.codes[Index(list, c)] = c
         /\ \A i \in DOMAIN list.codes : list.codes[i] = c => Index(list, c) = i
<1>1. DOMAIN list.codes = 1 .. Len(list.codes) /\ Len(list.codes) \in Nat
  BY LenProperties DEF Rings
<1>2. CASE ~\E i \in DOMAIN list.codes : list.codes[i] = c
  BY <1>1, <1>2 DEF Index
<1>3. ASSUME NEW i \in DOMAIN list.codes, list.codes[i] = c
      PROVE  Index(list, c) = i
  <2>1. \A k \in DOMAIN list.codes : list.codes[k] = c => k = i
    BY <1>3 DEF RingOK
  <2>2. \A k \in 1 .. i - 1 : list.codes[k] # c
    BY <1>1, <2>1
  <2> DEFINE First(j) == list.codes[j] = c /\ \A k \in 1 .. j - 1 : list.codes[k] # c
  <2>3. First(i)
    BY <1>3, <2>2
  <2>4. Index(list, c) = CHOOSE j \in DOMAIN list.codes : First(j)
    BY <1>3 DEF Index
  <2>5. \A j \in DOMAIN list.codes : First(j) => j = i
    BY <2>1
  <2> QED
    BY <2>3, <2>4, <2>5
<1> QED
  BY <1>1, <1>2, <1>3

\* A new code gets the index after the last, or the first index once the ring is full;
\* nothing else moves.
LEMMA MappedNew ==
  ASSUME NEW C, NEW list \in Rings(C), RingOK(list), NEW c \in C, Index(list, c) = 0
  PROVE  LET next == NextIndex(list)
             n    == Len(list.codes)
         IN  /\ Mapped(list, c) \in Rings(C)
             /\ next \in 1 .. RingSize /\ Mapped(list, c).last = next
             /\ Mapped(list, c).codes[next] = c
             /\ \A i \in 1 .. n : i # next => Mapped(list, c).codes[i] = list.codes[i]
             /\ Len(Mapped(list, c).codes) = IF n < RingSize THEN n + 1 ELSE n
             /\ n < RingSize => next = n + 1
             /\ n >= RingSize => n = RingSize /\ next = IF list.last = n THEN 1 ELSE list.last + 1
<1> DEFINE next == NextIndex(list)
           n == Len(list.codes)
<1>1. n \in Nat /\ n <= RingSize /\ list.last \in 0 .. n /\ list.codes \in Seq(C)
  <2>1. DOMAIN list.codes = 1 .. n /\ n \in Nat
    BY LenProperties DEF Rings
  <2>2. list = EmptyRing => list.last = 0
    BY DEF EmptyRing
  <2> QED
    BY <2>1, <2>2 DEF Rings, RingOK
<1>2. n < RingSize => next = n + 1
  BY <1>1 DEF NextIndex, RingOK
<1>3. n >= RingSize => n = RingSize /\ next = IF list.last = n THEN 1 ELSE list.last + 1
  BY <1>1 DEF NextIndex, RingOK
<1>4. next \in 1 .. RingSize
  BY <1>1, <1>2, <1>3
<1>5. Mapped(list, c) = [last |-> next,
                         codes |-> IF next > n THEN Append(list.codes, c)
                                   ELSE [list.codes EXCEPT ![next] = c]]
  BY DEF Mapped
<1>6. CASE next > n
  <2>1. Mapped(list, c).codes = Append(list.codes, c) /\ Mapped(list, c).last = next
    BY <1>5, <1>6
  <2>2. next = n + 1 /\ n < RingSize
    BY <1>1, <1>2, <1>3, <1>6
  <2>3. /\ Append(list.codes, c) \in Seq(C) /\ Len(Append(list.codes, c)) = n + 1
        /\ \A i \in 1 .. n : Append(list.codes, c)[i] = list.codes[i]
        /\ Append(list.codes, c)[n + 1] = c
    BY <1>1, AppendProperties
  <2>4. Mapped(list, c) \in Rings(C)
    BY <1>4, <1>5, <1>6, <2>3 DEF Rings
  <2> QED
    BY <1>1, <1>2, <1>3, <1>4, <2>1, <2>2, <2>3, <2>4
<1>7. CASE ~(next > n)
  <2>1. Mapped(list, c).codes = [list.codes EXCEPT ![next] = c] /\ Mapped(list, c).last = next
    BY <1>5, <1>7
  <2>2. next \in 1 .. n /\ n = RingSize
    BY <1>1, <1>2, <1>3, <1>4, <1>7
  <2>3. /\ [list.codes EXCEPT ![next] = c] \in Seq(C)
        /\ Len([list.codes EXCEPT ![next] = c]) = n
        /\ \A i \in 1 .. n : [list.codes EXCEPT ![next] = c][i] = IF i = next THEN c ELSE list.codes[i]
    BY <1>1, <2>2, ExceptSeq
  <2>4. Mapped(list, c) \in Rings(C)
    BY <1>4, <1>5, <1>7, <2>3 DEF Rings
  <2> QED
    BY <1>1, <1>2, <1>3, <1>4, <2>1, <2>2, <2>3, <2>4
<1> QED
  BY <1>6, <1>7

\* Defining a code keeps the ring in order, and the code has an index then; no other entry
\* changes.
LEMMA MappedKeeps ==
  ASSUME NEW C, NEW list \in Rings(C), RingOK(list), NEW c \in C
  PROVE  LET m == Mapped(list, c)
             k == Index(m, c)
         IN  /\ m \in Rings(C) /\ RingOK(m)
             /\ k \in DOMAIN m.codes /\ k \in 1 .. RingSize /\ m.codes[k] = c
             /\ \A i \in DOMAIN m.codes : i # k => i \in DOMAIN list.codes /\ m.codes[i] = list.codes[i]
<1> DEFINE m == Mapped(list, c)
           n == Len(list.codes)
           next == NextIndex(list)
<1>1. /\ n \in Nat /\ n <= RingSize /\ DOMAIN list.codes = 1 .. n
      /\ list.last \in 0 .. n /\ (n < RingSize => list.last = n)
  <2>1. list = EmptyRing => list.last = 0
    BY DEF EmptyRing
  <2> QED
    BY <2>1, LenProperties DEF Rings, RingOK
<1>2. CASE Index(list, c) # 0
  <2>1. m = list
    BY <1>2 DEF Mapped
  <2> QED
    BY <1>1, <1>2, <2>1, IndexWhere
<1>3. CASE Index(list, c) = 0
  <2>1. /\ m \in Rings(C) /\ next \in 1 .. RingSize /\ m.last = next /\ m.codes[next] = c
        /\ \A i \in 1 .. n : i # next => m.codes[i] = list.codes[i]
        /\ Len(m.codes) = IF n < RingSize THEN n + 1 ELSE n
        /\ n < RingSize => next = n + 1
        /\ n >= RingSize => n = RingSize
    BY <1>3, MappedNew
  <2>2. DOMAIN m.codes = 1 .. Len(m.codes) /\ Len(m.codes) \in Nat
    BY <2>1, LenProperties DEF Rings
  <2> HIDE DEF m, next
  <2>3. next \in DOMAIN m.codes /\ Len(m.codes) <= RingSize
    BY <1>1, <2>1, <2>2
  <2>4. \A i \in DOMAIN m.codes : i # next => i \in 1 .. n /\ m.codes[i] = list.codes[i]
    BY <1>1, <2>1, <2>2
  <2>5. \A i \in 1 .. n : list.codes[i] # c
    BY <1>1, <1>3, IndexWhere
  <2>6. \A i, k \in DOMAIN m.codes : m.codes[i] = m.codes[k] => i = k
    <3>1. SUFFICES ASSUME NEW i \in DOMAIN m.codes, NEW k \in DOMAIN m.codes,
                          m.codes[i] = m.codes[k], i # k
                   PROVE  FALSE
      BY Zenon
    <3>2. CASE i = next
      BY Zenon, <2>1, <2>4, <2>5, <3>1, <3>2
    <3>3. CASE k = next
      BY Zenon, <2>1, <2>4, <2>5, <3>1, <3>3
    <3>4. CASE i # next /\ k # next
      <4>1. /\ i \in 1 .. n /\ k \in 1 .. n /\ list.codes[i] = list.codes[k]
        BY Zenon, <2>4, <3>1, <3>4
      <4> QED
        BY <1>1, <3>1, <4>1 DEF RingOK
    <3> QED
      BY Zenon, <3>2, <3>3, <3>4
  <2>7. Len(m.codes) < RingSize => m.last = Len(m.codes)
    BY <1>1, <2>1
  <2>8. RingOK(m)
    BY <2>1, <2>3, <2>6, <2>7 DEF RingOK
  <2>9. Index(m, c) = next
    BY <2>1, <2>3, <2>8, IndexWhere
  <2> QED
    BY <1>1, <2>1, <2>3, <2>4, <2>8, <2>9 DEF m
<1> QED
  BY <1>2, <1>3

\* The codes of a ring from the oldest on.
LEMMA UnrolledShape ==
  ASSUME NEW C, NEW list \in Rings(C), RingOK(list)
  PROVE  LET n == Len(list.codes)
             u == Unrolled(list)
         IN  /\ u \in Seq(C) /\ Len(u) = n
             /\ \A i \in 1 .. n : u[i] = list.codes[IF list.last + i > n THEN list.last + i - n ELSE list.last + i]
             /\ \A c \in C : (\E i \in DOMAIN u : u[i] = c) <=> Index(list, c) # 0
<1> DEFINE n == Len(list.codes)
           u == Unrolled(list)
           at(i) == IF list.last + i > n THEN list.last + i - n ELSE list.last + i
<1>1. n \in Nat /\ DOMAIN list.codes = 1 .. n /\ list.last \in 0 .. n
  <2>1. list = EmptyRing => list.last = 0
    BY DEF EmptyRing
  <2> QED
    BY <2>1, LenProperties DEF Rings, RingOK
<1>2. u = [i \in 1 .. n |-> list.codes[at(i)]]
  BY DEF Unrolled
<1>3. \A i \in 1 .. n : at(i) \in 1 .. n
  BY <1>1
<1>4. \A i \in 1 .. n : list.codes[at(i)] \in C
  BY <1>1, <1>3, ElementOfSeq DEF Rings
<1> HIDE DEF u
<1>5. u \in Seq(C) /\ Len(u) = n /\ DOMAIN u = 1 .. n
  BY <1>1, <1>2, <1>4
<1>6. \A i \in 1 .. n : u[i] = list.codes[at(i)]
  BY <1>2
<1>7. ASSUME NEW c \in C
      PROVE  (\E i \in DOMAIN u : u[i] = c) <=> Index(list, c) # 0
  <2>1. ASSUME NEW i \in 1 .. n, u[i] = c
        PROVE  Index(list, c) # 0
    <3>1. list.codes[at(i)] = c /\ at(i) \in DOMAIN list.codes /\ at(i) # 0
      BY <1>1, <1>3, <1>6, <2>1
    <3> QED
      BY <3>1, IndexWhere
  <2>2. ASSUME Index(list, c) # 0
        PROVE  \E i \in 1 .. n : u[i] = c
    <3> DEFINE k == Index(list, c)
               i == IF k > list.last THEN k - list.last ELSE k - list.last + n
    <3>1. k \in 1 .. n /\ list.codes[k] = c
      BY <1>1, <2>2, IndexWhere
    <3>2. i \in 1 .. n /\ at(i) = k
      BY <1>1, <3>1
    <3> QED
      BY <1>6, <3>1, <3>2
  <2> QED
    BY <1>5, <2>1, <2>2
<1> QED
  BY <1>5, <1>6, <1>7 DEF u

\* The window moves on by a new code: it grows, or once it is full loses its oldest code.
LEMMA WindowMoves ==
  ASSUME NEW C, NEW list \in Rings(C), RingOK(list), NEW c \in C, Index(list, c) = 0
  PROVE  Unrolled(Mapped(list, c)) =
           IF Len(Unrolled(list)) < RingSize THEN Append(Unrolled(list), c)
           ELSE Append(Tail(Unrolled(list)), c)
<1> DEFINE m == Mapped(list, c)
           n == Len(list.codes)
           l == Len(m.codes)
           next == NextIndex(list)
           u == Unrolled(list)
           v == Unrolled(m)
           At(last, len, i) == IF last + i > len THEN last + i - len ELSE last + i
<1>1. /\ n \in Nat /\ n <= RingSize /\ RingSize \in Nat \ {0}
      /\ list.last \in 0 .. n /\ (n < RingSize => list.last = n)
  <2>1. list = EmptyRing => list.last = 0
    BY DEF EmptyRing
  <2> QED
    BY <2>1, LenProperties, RingAssumption DEF Rings, RingOK, RingAssumption
<1>2. /\ m \in Rings(C) /\ next \in 1 .. RingSize /\ m.last = next /\ m.codes[next] = c
      /\ \A i \in 1 .. n : i # next => m.codes[i] = list.codes[i]
      /\ l = IF n < RingSize THEN n + 1 ELSE n
      /\ n < RingSize => next = n + 1
      /\ n >= RingSize => n = RingSize /\ next = IF list.last = n THEN 1 ELSE list.last + 1
  BY MappedNew
<1>3. RingOK(m)
  BY MappedKeeps
<1>4. u \in Seq(C) /\ Len(u) = n /\ \A i \in 1 .. n : u[i] = list.codes[At(list.last, n, i)]
  BY UnrolledShape
<1>5. v \in Seq(C) /\ Len(v) = l /\ \A i \in 1 .. l : v[i] = m.codes[At(m.last, l, i)]
  <2>1. \A r \in Rings(C) : RingOK(r) =>
          /\ Unrolled(r) \in Seq(C) /\ Len(Unrolled(r)) = Len(r.codes)
          /\ \A i \in 1 .. Len(r.codes) :
               Unrolled(r)[i] = r.codes[At(r.last, Len(r.codes), i)]
    BY UnrolledShape
  <2> QED
    BY <1>2, <1>3, <2>1
<1>6. \A i \in 1 .. l : v[i] = m.codes[At(next, l, i)]
  BY <1>2, <1>5
<1> HIDE DEF m, u, v, next, n, l, At
<1>7. CASE n < RingSize
  <2>1. /\ Append(u, c) \in Seq(C) /\ Len(Append(u, c)) = n + 1
        /\ \A i \in 1 .. n : Append(u, c)[i] = u[i]
        /\ Append(u, c)[n + 1] = c
    BY <1>4, AppendProperties
  <2>2. list.last = n /\ next = n + 1 /\ l = n + 1
    BY <1>1, <1>2, <1>7
  <2>3. ASSUME NEW i \in 1 .. n
        PROVE  v[i] = u[i]
    <3>1. At(n + 1, n + 1, i) = i /\ At(n, n, i) = i
      BY <1>1 DEF At
    <3>2. i \in 1 .. l /\ i # next
      BY <1>1, <2>2
    <3> QED
      BY <1>2, <1>4, <1>6, <2>2, <3>1, <3>2
  <2>4. v[n + 1] = c
    <3>1. At(n + 1, n + 1, n + 1) = n + 1 /\ n + 1 \in 1 .. l
      BY <1>1, <2>2 DEF At
    <3> QED
      BY <1>2, <1>6, <2>2, <3>1
  <2>5. \A i \in 1 .. n + 1 : v[i] = Append(u, c)[i]
    <3>1. \A i \in 1 .. n + 1 : i \in 1 .. n \/ i = n + 1
      BY <1>1
    <3> QED
      BY <2>1, <2>3, <2>4, <3>1
  <2>6. v = Append(u, c)
    BY <1>5, <2>1, <2>2, <2>5, SeqEqual
  <2> QED
    BY <1>4, <1>7, <2>6 DEF m, u, v
<1>8. CASE ~(n < RingSize)
  <2>1. /\ n = RingSize /\ n \in Nat \ {0} /\ list.last \in 0 .. n /\ l = n
        /\ next = IF list.last = n THEN 1 ELSE list.last + 1
    BY <1>1, <1>2, <1>8
  <2>2. /\ Tail(u) \in Seq(C) /\ Len(Tail(u)) = n - 1
        /\ \A i \in 1 .. n - 1 : Tail(u)[i] = u[i + 1]
    <3>1. u # << >>
      BY <1>4, <2>1
    <3> QED
      BY <1>4, <3>1, HeadTailProperties
  <2>3. /\ Append(Tail(u), c) \in Seq(C) /\ Len(Append(Tail(u), c)) = n
        /\ \A i \in 1 .. n - 1 : Append(Tail(u), c)[i] = u[i + 1]
        /\ Append(Tail(u), c)[n] = c
    BY <2>1, <2>2, AppendProperties
  <2>4. ASSUME NEW i \in 1 .. n - 1
        PROVE  v[i] = u[i + 1]
    <3> DEFINE k == At(list.last, n, i + 1)
    <3>1. At(next, n, i) = k /\ k \in 1 .. n /\ k # next
      <4>1. CASE list.last = n
        BY <2>1, <4>1 DEF At
      <4>2. CASE list.last # n
        BY <2>1, <4>2 DEF At
      <4> QED
        BY <4>1, <4>2
    <3>2. i \in 1 .. l /\ i + 1 \in 1 .. n
      BY <2>1
    <3>3. v[i] = m.codes[k]
      BY <1>6, <2>1, <3>1, <3>2
    <3>4. u[i + 1] = list.codes[k]
      BY <1>4, <3>2
    <3> QED
      BY <1>2, <3>1, <3>3, <3>4
  <2>5. v[n] = c
    <3>1. At(next, n, n) = next /\ n \in 1 .. l
      BY <2>1 DEF At
    <3> QED
      BY <1>2, <1>6, <2>1, <3>1
  <2>6. \A i \in 1 .. n : v[i] = Append(Tail(u), c)[i]
    <3>1. \A i \in 1 .. n : i \in 1 .. n - 1 \/ i = n
      BY <2>1
    <3> QED
      BY <2>3, <2>4, <2>5, <3>1
  <2>7. v = Append(Tail(u), c)
    BY <1>5, <2>1, <2>3, <2>6, SeqEqual
  <2> QED
    BY <1>4, <1>8, <2>7 DEF m, u, v
<1> QED
  BY <1>7, <1>8

-----------------------------------------------------------------------------
(* The trace.                                                              *)

USE TraceAssumption

Entries == [tag : Tags, lang : Kinds]
Languages == [Tags -> Kinds \cup {"absent"}]
Tellings == [1 .. RingSize -> Codes \cup {0}]
CodeTexts == {NoText} \cup [index : 0 .. RingSize, code : Codes]
Parses == [phase : {"idle", "pes", "languages", "units"}, role : Roles \cup {"none"},
           lang : Kinds, rest : Seq(Entries), items : Nat, defined : SUBSET Codes,
           told : Tellings \cup {<< >>}, text : CodeTexts]

-----------------------------------------------------------------------------
(* The operators.                                                          *)

\* The PID of a role is one of the section's, or none.
LEMMA RolePidType ==
  ASSUME NEW s, s.es \in Seq([tag : STRING, pid : TextPids]), NEW r \in Roles
  PROVE  RolePid(s, r) \in TextPids \cup {0}
<1> DEFINE on == {i \in DOMAIN s.es : s.es[i].tag = r}
           n == Len(s.es)
<1>1. n \in Nat /\ DOMAIN s.es = 1 .. n
  BY LenProperties
<1>2. CASE on = {}
  BY <1>2 DEF RolePid
<1>3. CASE on # {}
  <2>1. on \in SUBSET (1 .. n)
    BY <1>1
  <2>2. Max(on) \in on
    <3> HIDE DEF on, n
    <3> QED
      BY <1>1, <1>3, <2>1, HighestIndex
  <2>3. s.es[Max(on)] \in [tag : STRING, pid : TextPids]
    BY <1>1, <2>2, ElementOfSeq
  <2>4. RolePid(s, r) = s.es[Max(on)].pid
    BY <1>3 DEF RolePid
  <2> QED
    BY <2>3, <2>4
<1> QED
  BY <1>2, <1>3

\* The lists that management data can have are sequences of entries.
LEMMA GroupsAreLists == Groups \subseteq Seq(Entries)
<1>1. \A m \in 0 .. MaxLanguages : \A f \in [1 .. m -> Entries] : f \in Seq(Entries)
  OBVIOUS
<1>2. Groups = UNION {[1 .. m -> Entries] : m \in 0 .. MaxLanguages}
  BY DEF Groups, BoundedSeq, SeqOf, Entries
<1> QED
  BY <1>1, <1>2

LEMMA ListedType ==
  ASSUME NEW list \in Seq(Entries)
  PROVE  Listed(list) \in Languages
<1> DEFINE Of(tag) == {i \in DOMAIN list : list[i].tag = tag}
           n == Len(list)
<1>1. n \in Nat /\ DOMAIN list = 1 .. n
  BY LenProperties
<1>2. ASSUME NEW tag \in Tags, Of(tag) # {}
      PROVE  list[Max(Of(tag))].lang \in Kinds
  <2>1. Of(tag) \in SUBSET (1 .. n)
    BY <1>1
  <2> HIDE DEF Of, n
  <2>2. Max(Of(tag)) \in 1 .. n
    BY <1>1, <1>2, <2>1, HighestIndex
  <2>3. list[Max(Of(tag))] \in Entries
    BY <2>2, ElementOfSeq DEF n
  <2> QED
    BY <2>3 DEF Entries
<1>3. Listed(list) = [tag \in Tags |-> IF Of(tag) = {} THEN "absent" ELSE list[Max(Of(tag))].lang]
  BY DEF Listed
<1> HIDE DEF Of
<1> QED
  BY <1>2, <1>3 DEF Languages

\* The languages known once the rest of a list is read over those known already.
Overlaid(known, list) ==
  [tag \in Tags |->
     LET of == {i \in DOMAIN list : list[i].tag = tag}
     IN  IF of = {} THEN known[tag] ELSE list[Max(of)].lang]

LEMMA OverlaidBegins ==
  ASSUME NEW list
  PROVE  Overlaid(NoLanguages, list) = Listed(list)
BY DEF Overlaid, NoLanguages, Listed

LEMMA OverlaidEnds ==
  ASSUME NEW known \in Languages
  PROVE  Overlaid(known, << >>) = known
BY DEF Overlaid, Languages

\* Reading the first entry of the rest changes nothing in what there will be at the end.
LEMMA OverlaidTail ==
  ASSUME NEW known \in Languages, NEW list \in Seq(Entries), list # << >>
  PROVE  Overlaid([known EXCEPT ![Head(list).tag] = Head(list).lang], Tail(list))
           = Overlaid(known, list)
<1> DEFINE n == Len(list)
           e == Head(list)
           next == [known EXCEPT ![e.tag] = e.lang]
           Of(l, tag) == {i \in DOMAIN l : l[i].tag = tag}
<1>1. /\ n \in Nat \ {0} /\ DOMAIN list = 1 .. n /\ e = list[1] /\ e \in Entries
      /\ Tail(list) \in Seq(Entries) /\ DOMAIN Tail(list) = 1 .. n - 1
      /\ \A i \in 1 .. n - 1 : Tail(list)[i] = list[i + 1]
  BY HeadTailProperties, LenProperties, EmptySeq
<1>2. ASSUME NEW tag \in Tags
      PROVE  (IF Of(Tail(list), tag) = {} THEN next[tag] ELSE Tail(list)[Max(Of(Tail(list), tag))].lang)
               = IF Of(list, tag) = {} THEN known[tag] ELSE list[Max(Of(list, tag))].lang
  <2> DEFINE S == Of(list, tag)
             T == Of(Tail(list), tag)
  <2>1. S \in SUBSET (1 .. n) /\ T \in SUBSET (1 .. n - 1) /\ n - 1 \in Nat
    BY <1>1
  <2>2. \A i \in 1 .. n - 1 : i \in T <=> i + 1 \in S
    BY <1>1
  <2>3. 1 \in S <=> e.tag = tag
    BY <1>1
  <2>4. next[tag] = IF e.tag = tag THEN e.lang ELSE known[tag]
    BY <1>1 DEF Entries, Languages
  <2> HIDE DEF S, T, next, e, n
  <2>5. CASE T # {}
    <3> DEFINE h == Max(T)
    <3>1. h \in T /\ \A i \in T : i <= h
      BY <2>1, <2>5, HighestIndex
    <3> HIDE DEF h
    <3>2. h + 1 \in S
      BY <2>1, <2>2, <3>1
    <3>3. \A i \in S : i <= h + 1
      <4> SUFFICES ASSUME NEW i \in S, i # 1
                   PROVE  i <= h + 1
        BY <2>1, <3>1
      <4>1. i - 1 \in 1 .. n - 1 /\ (i - 1) + 1 = i
        BY <1>1, <2>1
      <4>2. i - 1 \in T
        BY <2>2, <4>1
      <4> QED
        BY <2>1, <3>1, <4>2
    <3>4. Max(S) \in S /\ \A i \in S : i <= Max(S)
      BY <1>1, <2>1, <3>2, HighestIndex
    <3>5. Max(S) = h + 1
      <4>1. Max(S) \in 1 .. n /\ h \in 1 .. n - 1
        BY <2>1, <3>1, <3>4
      <4>2. Max(S) <= h + 1 /\ h + 1 <= Max(S)
        BY <3>2, <3>3, <3>4
      <4> HIDE DEF h
      <4> QED
        BY <1>1, <4>1, <4>2
    <3>6. Tail(list)[h] = list[h + 1]
      BY <1>1, <2>1, <3>1
    <3> QED
      BY <2>5, <3>2, <3>5, <3>6 DEF S, T, h
  <2>6. CASE T = {}
    <3>1. S \subseteq {1}
      <4> SUFFICES ASSUME NEW i \in S, i # 1
                   PROVE  FALSE
        OBVIOUS
      <4>1. i - 1 \in 1 .. n - 1 /\ (i - 1) + 1 = i
        BY <1>1, <2>1
      <4> QED
        BY <2>2, <2>6, <4>1
    <3>2. CASE S = {}
      BY <2>3, <2>4, <2>6, <3>2 DEF S, T
    <3>3. CASE S # {}
      <4>1. 1 \in S
        BY <3>1, <3>3
      <4>2. Max(S) = 1
        BY <1>1, <2>1, <3>1, <3>3, HighestIndex
      <4> QED
        BY <1>1, <2>3, <2>4, <2>6, <4>1, <4>2 DEF S, T
    <3> QED
      BY <3>2, <3>3
  <2> QED
    BY <2>5, <2>6 DEF S, T
<1>3. Overlaid(next, Tail(list)) =
        [tag \in Tags |-> IF Of(Tail(list), tag) = {} THEN next[tag]
                          ELSE Tail(list)[Max(Of(Tail(list), tag))].lang]
  BY DEF Overlaid
<1>4. Overlaid(known, list) =
        [tag \in Tags |-> IF Of(list, tag) = {} THEN known[tag] ELSE list[Max(Of(list, tag))].lang]
  BY DEF Overlaid
<1> HIDE DEF Of, next
<1>5. Overlaid(next, Tail(list)) = Overlaid(known, list)
  BY <1>2, <1>3, <1>4
<1> QED
  BY <1>5 DEF next

-----------------------------------------------------------------------------
(* Types.                                                                  *)

Types ==
  /\ firstPid \in PmtPids \cup {0} /\ clocked \in BOOLEAN
  /\ section = NoSection \/ \E p \in PmtPids : section \in Sections[p]
  /\ pid \in [Roles -> TextPids \cup {0}] /\ begun \in [Roles -> BOOLEAN]
  /\ ring \in [Roles -> Rings(Codes)] /\ \A r \in Roles : RingOK(ring[r])
  /\ langs \in [Roles -> Languages] /\ parse \in Parses
  /\ announced \in [Roles -> Languages] /\ unsure \in [Roles -> BOOLEAN]
  /\ seen \in [Roles -> Tellings] /\ lost \in [Roles -> SUBSET Codes]

\* What is known of a PES grows from phase to phase.
Phases ==
  /\ parse.phase # "idle" => parse.role \in Roles /\ pid[parse.role] # 0
  /\ parse.phase # "units" => parse.text = NoText /\ parse.defined = {}
  /\ parse.phase \in {"languages", "units"} => parse.told \in Tellings

\* The initial values and the records of a PES that is not parsed yet.
LEMMA StartTypes ==
  /\ NoLanguages \in Languages /\ NothingSeen \in Tellings
  /\ EmptyRing \in Rings(Codes) /\ RingOK(EmptyRing)
  /\ Idle \in Parses
  /\ \A r \in Roles : [Idle EXCEPT !.phase = "pes", !.role = r] \in Parses
<1>1. << >> \in Seq(Entries)
  OBVIOUS
<1> QED
  BY <1>1, EmptyRingOK DEF NoLanguages, Languages, NothingSeen, Tellings, Idle, Parses, CodeTexts, Kinds

\* Moving roles keeps the types and touches no role that stays.
LEMMA MovedType ==
  ASSUME NEW S, NEW f \in [Roles -> S], NEW pids, NEW none \in S
  PROVE  Moved(f, pids, none) \in [Roles -> S]
BY DEF Moved

\* The PIDs that a section gives the roles.
LEMMA SectionPids ==
  ASSUME Types, NEW p \in PmtPids, NEW s \in Sections[p], s.long
  PROVE  (IF s.fits THEN [r \in Roles |-> RolePid(s, r)] ELSE pid) \in [Roles -> TextPids \cup {0}]
<1>1. s.es \in Seq([tag : STRING, pid : TextPids])
  OBVIOUS
<1>2. \A r \in Roles : RolePid(s, r) \in TextPids \cup {0}
  BY <1>1, RolePidType
<1> QED
  BY <1>2 DEF Types

LEMMA StartPhases ==
  /\ Idle.phase = "idle" /\ Idle.text = NoText /\ Idle.defined = {} /\ Idle.role = "none"
  /\ \A r \in Roles : LET start == [Idle EXCEPT !.phase = "pes", !.role = r]
                     IN  start.phase = "pes" /\ start.role = r /\ start.text = NoText /\ start.defined = {}
BY DEF Idle

LEMMA TraceInit == Init => Types /\ Phases
<1> SUFFICES ASSUME Init
             PROVE  Types /\ Phases
  OBVIOUS
<1>1. Types
  BY StartTypes DEF Init, Types
<1>2. Phases
  BY StartPhases DEF Init, Phases
<1> QED
  BY <1>1, <1>2

\* A packet of the PMT.
LEMMA PmtTypes == Types /\ Phases /\ PmtPacket => Types' /\ Phases'
<1> SUFFICES ASSUME Types, Phases, PmtPacket
             PROVE  Types' /\ Phases'
  OBVIOUS
<1>1. PICK s \in Sections[firstPid] \cup {section, NoSection} : section' = s /\ CheckPmt(s)
  BY DEF PmtPacket
<1>2. parse' = parse /\ firstPid' = firstPid /\ firstPid \in PmtPids /\ parse.phase = "idle"
  BY DEF PmtPacket, Types
<1>3. s = NoSection \/ \E p \in PmtPids : s \in Sections[p]
  BY <1>2 DEF Types
<1>4. CASE ~s.long
  BY <1>1, <1>2, <1>3, <1>4 DEF CheckPmt, memory, history, Types, Phases
<1>5. CASE s.long
  <2> DEFINE pids == IF s.fits THEN [r \in Roles |-> RolePid(s, r)] ELSE pid
  <2>1. pids \in [Roles -> TextPids \cup {0}]
    <3>1. ~NoSection.long
      BY DEF NoSection
    <3>2. PICK p \in PmtPids : s \in Sections[p]
      BY Zenon, <1>3, <1>5, <3>1
    <3> QED
      BY <1>5, <3>2, SectionPids
  <2> HIDE DEF pids
  <2>2. /\ clocked' = (clocked /\ s.pcrPid # NullPid)
        /\ MoveRoles(pids)
        /\ announced' = Moved(announced, pids, NoLanguages)
        /\ unsure' = Moved(unsure, pids, FALSE)
        /\ seen' = Moved(seen, pids, NothingSeen)
        /\ lost' = Moved(lost, pids, {})
    BY <1>1, <1>5 DEF CheckPmt, pids
  <2>3. /\ begun' \in [Roles -> BOOLEAN] /\ unsure' \in [Roles -> BOOLEAN]
        /\ langs' \in [Roles -> Languages] /\ announced' \in [Roles -> Languages]
        /\ seen' \in [Roles -> Tellings] /\ lost' \in [Roles -> SUBSET Codes]
        /\ ring' \in [Roles -> Rings(Codes)] /\ pid' \in [Roles -> TextPids \cup {0}]
    BY <2>1, <2>2, StartTypes, MovedType DEF MoveRoles, Types
  <2>4. \A r \in Roles : RingOK(ring'[r])
    BY <2>2, StartTypes DEF MoveRoles, Moved, Types
  <2>5. clocked' \in BOOLEAN
    BY <2>2
  <2>6. Types'
    BY <1>1, <1>2, <1>3, <2>3, <2>4, <2>5 DEF Types
  <2>7. Phases'
    BY <1>2 DEF Phases
  <2> QED
    BY <2>6, <2>7
<1> QED
  BY <1>4, <1>5

\* Defining a code.
LEMMA DefineTypes ==
  ASSUME Types, Phases, NEW c \in Codes, Define(c)
  PROVE  Types' /\ Phases'
<1> DEFINE r == parse.role
           m == Mapped(ring[r], c)
           k == Index(m, c)
<1>1. r \in Roles /\ ring[r] \in Rings(Codes) /\ RingOK(ring[r]) /\ parse.told \in Tellings
      /\ parse.phase = "units" /\ parse \in Parses
  BY DEF Define, Types, Phases
<1>2. m \in Rings(Codes) /\ RingOK(m) /\ k \in 1 .. RingSize
  BY <1>1, MappedKeeps
<1> HIDE DEF m, k
<1>3. /\ ring' = [ring EXCEPT ![r] = m]
      /\ parse' = [parse EXCEPT !.items = @ + 1, !.defined = @ \cup {c}, !.text = NoText,
                                !.told[k] = c]
      /\ UNCHANGED <<reception, langs, history>>
  BY DEF Define, m, k
<1>4. [parse.told EXCEPT ![k] = c] \in Tellings
  BY <1>1, <1>2 DEF Tellings
<1>5. parse' \in Parses /\ parse'.told \in Tellings
  <2>1. NoText \in CodeTexts /\ parse.items + 1 \in Nat /\ parse.defined \cup {c} \in SUBSET Codes
    BY <1>1 DEF CodeTexts, Parses
  <2> DEFINE items == parse.items + 1
             defined == parse.defined \cup {c}
             told == [parse.told EXCEPT ![k] = c]
  <2>2. parse' = [parse EXCEPT !.items = items, !.defined = defined, !.text = NoText, !.told = told]
    BY <1>3
  <2> HIDE DEF items, defined, told
  <2>3. items \in Nat /\ defined \in SUBSET Codes /\ told \in Tellings
    BY <1>4, <2>1 DEF items, defined, told
  <2> QED
    BY <1>1, <2>1, <2>2, <2>3 DEF Parses
<1>6. parse'.phase = "units" /\ parse'.role = r
  BY <1>1, <1>3 DEF Parses
<1>7. ring' \in [Roles -> Rings(Codes)] /\ \A q \in Roles : RingOK(ring'[q])
  BY <1>1, <1>2, <1>3 DEF Types
<1>8. Types'
  BY <1>1, <1>3, <1>5, <1>7 DEF Types, reception, history
<1>9. Phases'
  BY <1>1, <1>3, <1>5, <1>6 DEF Phases, Types, reception
<1> QED
  BY <1>8, <1>9

LEMMA TypesStep == Types /\ Phases /\ [Next]_vars => Types' /\ Phases'
<1> SUFFICES ASSUME Types, Phases, [Next]_vars
             PROVE  Types' /\ Phases'
  OBVIOUS
<1> USE DEF reception, memory, history
<1>1. CASE PatPacket
  BY <1>1 DEF PatPacket, Types, Phases
<1>2. CASE PcrPacket
  BY <1>2 DEF PcrPacket, Types, Phases
<1>3. CASE TextPacket
  <2>1. PICK p \in TextPids \ {firstPid, pcrPid} :
          /\ p \in {pid[r] : r \in Roles}
          /\ \E start, kept, whole \in BOOLEAN :
               /\ begun' = [begun EXCEPT ![RoleOf(p)] = kept /\ ~whole]
               /\ parse' = IF whole THEN [Idle EXCEPT !.phase = "pes", !.role = RoleOf(p)] ELSE Idle
    BY <1>3 DEF TextPacket
  <2>2. RoleOf(p) \in Roles /\ pid[RoleOf(p)] = p /\ p # 0
    BY <2>1 DEF RoleOf, Roles
  <2>3. begun' \in [Roles -> BOOLEAN]
    BY <2>1, <2>2 DEF Types
  <2>4. parse' \in Parses
    BY <2>1, <2>2, StartTypes
  <2>5. Phases'
    <3>1. CASE parse' = Idle
      BY <1>3, <3>1, StartPhases DEF TextPacket, Phases
    <3>2. CASE parse' = [Idle EXCEPT !.phase = "pes", !.role = RoleOf(p)]
      <4>1. pid' = pid
        BY <1>3 DEF TextPacket
      <4> QED
        BY <2>2, <3>2, <4>1, StartPhases DEF Phases
    <3> QED
      BY <2>1, <3>1, <3>2
  <2> QED
    BY <1>3, <2>3, <2>4, <2>5 DEF TextPacket, Types
<1>4. CASE Ignored \/ Rejected
  <2>1. Types'
    BY <1>4, StartTypes DEF Ignored, Rejected, Types
  <2>2. Phases'
    BY <1>4, StartPhases DEF Ignored, Rejected, Phases
  <2> QED
    BY <2>1, <2>2
<1>5. CASE \E list \in Groups : BeginManagement(list)
  <2>1. PICK list \in Groups : BeginManagement(list)
    BY <1>5
  <2>2. list \in Seq(Entries) /\ Listed(list) \in Languages
    BY GroupsAreLists, ListedType
  <2>3. parse \in Parses /\ parse.phase = "pes" /\ parse.role \in Roles /\ seen[parse.role] \in Tellings
    BY <2>1 DEF BeginManagement, Types, Phases
  <2>4. parse' = [parse EXCEPT !.phase = "languages", !.rest = list, !.told = seen[parse.role]]
    BY <2>1 DEF BeginManagement
  <2>5. parse' \in Parses /\ parse'.role = parse.role /\ parse'.phase = "languages"
        /\ parse'.told \in Tellings /\ parse'.text = parse.text /\ parse'.defined = parse.defined
    BY <2>2, <2>3, <2>4 DEF Parses
  <2>6. Types'
    BY <2>1, <2>2, <2>5, StartTypes DEF BeginManagement, Types
  <2>7. Phases'
    BY <2>1, <2>3, <2>5 DEF BeginManagement, Phases
  <2> QED
    BY <2>6, <2>7
<1>6. CASE ReadLanguage
  <2>1. parse.rest \in Seq(Entries) /\ parse.rest # << >> /\ parse.role \in Roles
    BY <1>6 DEF ReadLanguage, Types, Phases, Parses
  <2>2. Head(parse.rest) \in Entries /\ Tail(parse.rest) \in Seq(Entries)
    BY <2>1, HeadTailProperties
  <2>3. parse' = [parse EXCEPT !.rest = Tail(@), !.lang = Head(parse.rest).lang]
    BY <1>6 DEF ReadLanguage
  <2>4. parse' \in Parses /\ Phases'
    BY <1>6, <2>2, <2>3 DEF ReadLanguage, Types, Phases, Parses, Entries
  <2>5. langs' \in [Roles -> Languages]
    BY <1>6, <2>1, <2>2 DEF ReadLanguage, Types, Languages, Entries
  <2> QED
    BY <1>6, <2>4, <2>5 DEF ReadLanguage, Types
<1>7. CASE EndLanguages
  BY <1>7 DEF EndLanguages, Types, Phases, Parses
<1>8. CASE \E tag \in Tags : BeginText(tag)
  <2>1. PICK tag \in Tags : BeginText(tag)
    BY <1>8
  <2>2. parse \in Parses /\ parse.phase = "pes" /\ parse.role \in Roles
    BY <2>1 DEF BeginText, Types, Phases
  <2>3. langs[parse.role][tag] \in Kinds /\ seen[parse.role] \in Tellings
    BY <2>1, <2>2 DEF BeginText, Types, Languages
  <2>4. parse' = [parse EXCEPT !.phase = "units", !.lang = langs[parse.role][tag],
                               !.told = seen[parse.role]]
    BY <2>1 DEF BeginText
  <2>5. parse' \in Parses /\ parse'.role = parse.role /\ parse'.phase = "units"
        /\ parse'.told \in Tellings
    BY <2>2, <2>3, <2>4 DEF Parses
  <2>6. Types'
    BY <2>1, <2>5 DEF BeginText, Types
  <2>7. Phases'
    BY <2>1, <2>2, <2>5 DEF BeginText, Phases
  <2> QED
    BY <2>6, <2>7
<1>9. CASE \E c \in Codes : Define(c)
  BY <1>9, DefineTypes
<1>10. CASE \E c \in Codes : Write(c)
  <2>1. PICK c \in Codes : Write(c)
    BY <1>10
  <2>2. parse.role \in Roles /\ parse \in Parses /\ parse.phase = "units"
    BY <2>1 DEF Write, Types, Phases
  <2>3. Index(ring[parse.role], c) \in 0 .. RingSize
    <3>1. Len(ring[parse.role].codes) \in Nat /\ Len(ring[parse.role].codes) <= RingSize
      BY <2>2, LenProperties DEF Types, Rings, RingOK
    <3>2. Index(ring[parse.role], c) \in 0 .. Len(ring[parse.role].codes)
      BY <2>2, IndexWhere DEF Types
    <3> QED
      BY <3>1, <3>2
  <2>4. [index |-> Index(ring[parse.role], c), code |-> c] \in CodeTexts
    BY <2>3 DEF CodeTexts
  <2>5. parse' = [parse EXCEPT !.items = @ + 1,
                               !.text = [index |-> Index(ring[parse.role], c), code |-> c]]
    BY <2>1 DEF Write
  <2>6. parse' \in Parses /\ parse'.phase = "units" /\ parse'.role = parse.role
        /\ parse'.told = parse.told
    <3> DEFINE items == parse.items + 1
               written == [index |-> Index(ring[parse.role], c), code |-> c]
    <3>1. items \in Nat
      BY <2>2 DEF Parses
    <3>2. parse' = [parse EXCEPT !.items = items, !.text = written]
      BY <2>5
    <3> HIDE DEF items, written
    <3> QED
      BY <2>2, <2>4, <3>1, <3>2 DEF Parses, written
  <2>7. Types'
    BY <2>1, <2>6 DEF Write, Types
  <2>8. Phases'
    BY <2>1, <2>2, <2>6 DEF Write, Phases
  <2> QED
    BY <2>7, <2>8
<1>11. CASE Fail
  <2>1. lost' \in [Roles -> SUBSET Codes] /\ unsure' \in [Roles -> BOOLEAN]
    BY <1>11 DEF Fail, Types, Phases, Parses
  <2>2. Types'
    BY <1>11, <2>1, StartTypes DEF Fail, Types
  <2>3. Phases'
    BY <1>11, StartPhases DEF Fail, Phases
  <2> QED
    BY <2>2, <2>3
<1>12. CASE Finish
  <2>1. lost' \in [Roles -> SUBSET Codes] /\ seen' \in [Roles -> Tellings]
    BY <1>12 DEF Finish, Types, Phases, Parses
  <2>2. Types'
    BY <1>12, <2>1, StartTypes DEF Finish, Types
  <2>3. Phases'
    BY <1>12, StartPhases DEF Finish, Phases
  <2> QED
    BY <2>2, <2>3
<1>13. CASE UNCHANGED vars
  BY <1>13 DEF vars, Types, Phases
<1> QED
  BY <1>1, <1>2, <1>3, <1>4, <1>5, <1>6, <1>7, <1>8, <1>9, <1>10, <1>11, <1>12, <1>13,
     PmtTypes DEF Next

\* Every member has its type, whatever is received; a code has one code point at most.
THEOREM TraceTypes == Spec => []TypeOK
<1>1. Types /\ Phases => TypeOK
  <2> SUFFICES ASSUME Types, Phases
               PROVE  TypeOK
    OBVIOUS
  <2>1. \A r \in Roles : ToSet(ring[r].codes) \subseteq Codes
    BY ElementOfSeq, LenProperties DEF Types, Rings, ToSet
  <2> QED
    BY <2>1 DEF Types, Phases, TypeOK, Parses, Languages
<1> QED
  BY <1>1, TraceInit, TypesStep, PTL DEF Spec

-----------------------------------------------------------------------------
(* The languages.                                                          *)

\* While a list is read, what is known with what remains of the list is what it announces.
LanguageInv ==
  \A r \in Roles :
    IF parse.role = r /\ parse.phase = "languages"
    THEN Overlaid(langs[r], parse.rest) = announced[r]
    ELSE unsure[r] \/ langs[r] = announced[r]

LEMMA LanguageStep == Types /\ Phases /\ LanguageInv /\ [Next]_vars => LanguageInv'
<1> SUFFICES ASSUME Types, Phases, LanguageInv, [Next]_vars
             PROVE  LanguageInv'
  OBVIOUS
<1> USE DEF reception, memory, history
<1>1. ASSUME UNCHANGED <<langs, announced, unsure>>,
             parse.phase # "languages", parse'.phase # "languages"
      PROVE  LanguageInv'
  BY <1>1 DEF LanguageInv
<1>2. CASE PmtPacket
  <2>1. parse' = parse /\ parse.phase = "idle"
    BY <1>2 DEF PmtPacket
  <2>2. PICK s : CheckPmt(s)
    BY <1>2 DEF PmtPacket
  <2>3. CASE UNCHANGED <<langs, announced, unsure>>
    BY <1>1, <2>1, <2>3
  <2>4. ASSUME NEW pids, MoveRoles(pids),
               announced' = Moved(announced, pids, NoLanguages),
               unsure' = Moved(unsure, pids, FALSE)
        PROVE  LanguageInv'
    BY <2>1, <2>4 DEF MoveRoles, Moved, LanguageInv
  <2> QED
    BY <2>2, <2>3, <2>4 DEF CheckPmt
<1>3. CASE PatPacket \/ PcrPacket \/ UNCHANGED vars
  <2>1. UNCHANGED <<parse, langs, announced, unsure>>
    BY <1>3 DEF PatPacket, PcrPacket, vars
  <2> QED
    BY <2>1 DEF LanguageInv
<1>4. CASE TextPacket
  <2>1. RoleOf(pid["caption"]) \in Roles
    BY DEF RoleOf, Roles
  <2>2. \A p : RoleOf(p) \in Roles
    BY DEF RoleOf, Roles
  <2>3. parse'.phase # "languages"
    BY <1>4, <2>2, StartPhases DEF TextPacket
  <2> QED
    BY <1>1, <1>4, <2>3 DEF TextPacket
<1>5. CASE Ignored \/ Rejected
  BY <1>1, <1>5, StartPhases DEF Ignored, Rejected
<1>6. CASE \E list \in Groups : BeginManagement(list)
  <2>1. PICK list \in Groups : BeginManagement(list)
    BY <1>6
  <2>2. parse.role \in Roles /\ parse \in Parses /\ parse.phase = "pes"
    BY <2>1 DEF BeginManagement, Types, Phases
  <2>3. parse'.role = parse.role /\ parse'.phase = "languages" /\ parse'.rest = list
    BY <2>1, <2>2 DEF BeginManagement, Parses
  <2>4. langs'[parse.role] = NoLanguages /\ announced'[parse.role] = Listed(list)
    BY <2>1, <2>2 DEF BeginManagement, Types
  <2>5. \A r \in Roles \ {parse.role} :
          langs'[r] = langs[r] /\ announced'[r] = announced[r] /\ unsure'[r] = unsure[r]
    BY <2>1, <2>2 DEF BeginManagement, Types
  <2> QED
    BY <2>2, <2>3, <2>4, <2>5, OverlaidBegins DEF LanguageInv
<1>7. CASE ReadLanguage
  <2> DEFINE list == parse.rest
             r == parse.role
  <2>1. r \in Roles /\ parse \in Parses /\ parse.phase = "languages"
    BY <1>7 DEF ReadLanguage, Types, Phases
  <2>2. list \in Seq(Entries) /\ list # << >> /\ langs[r] \in Languages
    BY <1>7, <2>1 DEF ReadLanguage, Types, Parses
  <2>3. Head(list) \in Entries
    BY <2>2, HeadTailProperties
  <2>4. parse'.role = r /\ parse'.phase = "languages" /\ parse'.rest = Tail(list)
    BY <1>7, <2>1 DEF ReadLanguage, Parses
  <2>5. /\ langs'[r] = [langs[r] EXCEPT ![Head(list).tag] = Head(list).lang]
        /\ \A q \in Roles \ {r} : langs'[q] = langs[q]
        /\ announced' = announced /\ unsure' = unsure
    BY <1>7, <2>1 DEF ReadLanguage, Types
  <2>6. Overlaid(langs'[r], Tail(list)) = announced[r]
    <3>1. Overlaid(langs[r], list) = announced[r]
      BY <2>1 DEF LanguageInv
    <3> QED
      BY <2>2, <2>5, <3>1, OverlaidTail
  <2> QED
    BY <2>1, <2>4, <2>5, <2>6 DEF LanguageInv
<1>8. CASE EndLanguages
  <2> DEFINE r == parse.role
  <2>1. r \in Roles /\ parse \in Parses /\ parse.phase = "languages" /\ parse.rest = << >>
    BY <1>8 DEF EndLanguages, Types, Phases
  <2>2. parse'.phase = "units" /\ UNCHANGED <<langs, announced, unsure>>
    BY <1>8, <2>1 DEF EndLanguages, Parses
  <2>3. langs[r] = announced[r]
    <3>1. Overlaid(langs[r], << >>) = announced[r]
      BY <2>1 DEF LanguageInv
    <3>2. langs[r] \in Languages
      BY <2>1 DEF Types
    <3> QED
      BY <3>1, <3>2, OverlaidEnds
  <2> QED
    BY <2>1, <2>2, <2>3 DEF LanguageInv
<1>9. CASE \E tag \in Tags : BeginText(tag)
  BY <1>1, <1>9 DEF BeginText, Types, Parses
<1>10. CASE \E c \in Codes : Define(c) \/ Write(c)
  <2>1. PICK c \in Codes : Define(c) \/ Write(c)
    BY <1>10
  <2>2. parse.phase = "units" /\ parse \in Parses /\ UNCHANGED <<langs, announced, unsure>>
    BY <2>1 DEF Define, Write, Types
  <2>3. parse'.phase = "units"
    BY <2>1, <2>2 DEF Define, Write, Parses
  <2> QED
    BY <1>1, <2>2, <2>3
<1>11. CASE Fail
  <2>1. parse.role \in Roles /\ UNCHANGED <<langs, announced>> /\ parse'.phase = "idle"
    BY <1>11, StartPhases DEF Fail, Types, Phases
  <2>2. /\ unsure'[parse.role] = (unsure[parse.role] \/ parse.phase = "languages")
        /\ \A r \in Roles \ {parse.role} : unsure'[r] = unsure[r]
    BY <1>11, <2>1 DEF Fail, Types
  <2> QED
    BY <2>1, <2>2 DEF LanguageInv
<1>12. CASE Finish
  BY <1>1, <1>12, StartPhases DEF Finish
<1> QED
  BY <1>2, <1>3, <1>4, <1>5, <1>6, <1>7, <1>8, <1>9, <1>10, <1>11, <1>12 DEF Next

\* The languages known are those of the management data that came last, unless that data
\* failed in the middle of its list, or is being read.
THEOREM LanguagesKept == Spec => []LanguagesAsSent
<1>1. Init => LanguageInv
  BY StartPhases DEF Init, LanguageInv
<1>2. LanguageInv => LanguagesAsSent
  BY DEF LanguageInv, LanguagesAsSent
<1> QED
  BY <1>1, <1>2, TraceInit, TypesStep, LanguageStep, PTL DEF Spec

-----------------------------------------------------------------------------
(* The window over the codes.                                              *)

\* In a step the codes of a role stay, go, or are followed by one that is defined.
LEMMA WindowStep ==
  ASSUME Types, Phases, [Next]_vars, NEW r \in Roles
  PROVE  \/ ring'[r] = ring[r]
         \/ ring'[r] = EmptyRing
         \/ \E c \in Codes : ring'[r] = Mapped(ring[r], c)
<1> USE DEF reception, memory, history
<1>1. CASE PmtPacket
  <2>1. PICK s : CheckPmt(s)
    BY <1>1 DEF PmtPacket
  <2> QED
    BY <2>1 DEF CheckPmt, MoveRoles, Moved
<1>2. CASE \E c \in Codes : Define(c)
  <2>1. PICK c \in Codes : Define(c)
    BY <1>2
  <2>2. ring' = [ring EXCEPT ![parse.role] = Mapped(ring[parse.role], c)]
    BY <2>1 DEF Define
  <2> QED
    BY <2>2 DEF Types
<1>3. CASE ~PmtPacket /\ ~\E c \in Codes : Define(c)
  <2>1. ring' = ring
    BY <1>3 DEF Next, vars, PatPacket, PcrPacket, TextPacket, Ignored, Rejected, BeginManagement,
       ReadLanguage, EndLanguages, BeginText, Write, Fail, Finish
  <2> QED
    BY <2>1
<1> QED
  BY <1>1, <1>2, <1>3

\* Taken from the oldest on, the codes of a role move on as a window does.
LEMMA UnrolledStep ==
  ASSUME Types, Phases, [Next]_vars, NEW r \in Roles
  PROVE  \/ Unrolled(ring'[r]) = Unrolled(ring[r])
         \/ Unrolled(ring'[r]) = << >>
         \/ \E c \in Codes :
              Unrolled(ring'[r]) =
                IF \E i \in DOMAIN Unrolled(ring[r]) : Unrolled(ring[r])[i] = c THEN Unrolled(ring[r])
                ELSE IF Len(Unrolled(ring[r])) < RingSize THEN Append(Unrolled(ring[r]), c)
                ELSE Append(Tail(Unrolled(ring[r])), c)
<1>1. ring[r] \in Rings(Codes) /\ RingOK(ring[r])
  BY DEF Types
<1>2. ASSUME NEW c \in Codes, ring'[r] = Mapped(ring[r], c), Index(ring[r], c) # 0
      PROVE  Unrolled(ring'[r]) = Unrolled(ring[r])
  BY <1>2 DEF Mapped
<1>3. ASSUME NEW c \in Codes, ring'[r] = Mapped(ring[r], c), Index(ring[r], c) = 0
      PROVE  /\ ~\E i \in DOMAIN Unrolled(ring[r]) : Unrolled(ring[r])[i] = c
             /\ Unrolled(ring'[r]) =
                  IF Len(Unrolled(ring[r])) < RingSize THEN Append(Unrolled(ring[r]), c)
                  ELSE Append(Tail(Unrolled(ring[r])), c)
  <2>1. ~\E i \in DOMAIN Unrolled(ring[r]) : Unrolled(ring[r])[i] = c
    BY <1>1, <1>3, UnrolledShape
  <2> QED
    BY <1>1, <1>3, <2>1, WindowMoves
<1> QED
  BY <1>2, <1>3, WindowStep, EmptyRingOK

\* The list of codes of each role is the window that its PID's stream promises: defining a
\* code moves it on, another PID empties it, and no other step touches it.
THEOREM WindowsKept == Spec => Windows
<1>1. Init => Unrolled(ring["caption"]) = << >> /\ Unrolled(ring["superimpose"]) = << >>
  BY EmptyRingOK DEF Init, Roles
<1>2. ASSUME Types, Phases, [Next]_vars
      PROVE  [CaptionWindow!Define \/ CaptionWindow!Forget]_(Unrolled(ring["caption"]))
  BY <1>2, UnrolledStep
     DEF Roles, CaptionWindow!Define, CaptionWindow!Forget, CaptionWindow!Pushed
<1>3. ASSUME Types, Phases, [Next]_vars
      PROVE  [SuperimposeWindow!Define \/ SuperimposeWindow!Forget]_(Unrolled(ring["superimpose"]))
  BY <1>3, UnrolledStep
     DEF Roles, SuperimposeWindow!Define, SuperimposeWindow!Forget, SuperimposeWindow!Pushed
<1> QED
  BY <1>1, <1>2, <1>3, TraceInit, TypesStep, PTL
     DEF Spec, Windows, CaptionWindow!WSpec, SuperimposeWindow!WSpec

-----------------------------------------------------------------------------
(* The text.                                                               *)

\* The code points of a ring are those that somebody was told of, but for the codes lost.
Known(codes, told, gone) == \A i \in DOMAIN codes : told[i] = codes[i] \/ codes[i] \in gone

\* What is told of the ring of a role whose PES is not parsed is what its lines said; while
\* one is parsed, what its line will say of the codes it defines comes before.
Telling(r) == parse.role = r /\ parse.phase \in {"languages", "units"}

RingsTold == \A r \in Roles : ~Telling(r) => Known(ring[r].codes, seen[r], lost[r])

LineTold ==
  \A r \in Roles : Telling(r) =>
    /\ Known(ring[r].codes, parse.told, lost[r] \ parse.defined)
    /\ \A i \in 1 .. RingSize : parse.told[i] = seen[r][i] \/ parse.told[i] \in parse.defined
    /\ parse.text.index # 0 => /\ parse.text.index \in DOMAIN ring[r].codes
                              /\ ring[r].codes[parse.text.index] = parse.text.code

TextInv == RingsTold /\ LineTold

\* The indices of a ring are code points.
LEMMA RingIndices ==
  ASSUME Types, NEW r \in Roles
  PROVE  DOMAIN ring[r].codes \subseteq 1 .. RingSize
BY LenProperties DEF Types, Rings, RingOK

\* A code that is defined is told of, and nothing told before is untold but by it.
LEMMA DefineText ==
  ASSUME Types, Phases, TextInv, NEW c \in Codes, Define(c)
  PROVE  TextInv'
<1> DEFINE r == parse.role
           m == Mapped(ring[r], c)
           k == Index(m, c)
<1>1. /\ r \in Roles /\ ring[r] \in Rings(Codes) /\ RingOK(ring[r]) /\ parse.told \in Tellings
      /\ parse.phase = "units" /\ parse \in Parses /\ seen[r] \in Tellings
  BY DEF Define, Types, Phases
<1>2. /\ m \in Rings(Codes) /\ k \in DOMAIN m.codes /\ k \in 1 .. RingSize /\ m.codes[k] = c
      /\ \A i \in DOMAIN m.codes : i # k => i \in DOMAIN ring[r].codes /\ m.codes[i] = ring[r].codes[i]
      /\ RingOK(m)
  BY <1>1, MappedKeeps
<1> HIDE DEF m, k
<1>3. /\ ring' = [ring EXCEPT ![r] = m]
      /\ parse' = [parse EXCEPT !.items = @ + 1, !.defined = @ \cup {c}, !.text = NoText,
                                !.told[k] = c]
      /\ UNCHANGED <<seen, lost>>
  BY DEF Define, m, k, history
<1>4. /\ ring'[r] = m /\ \A q \in Roles \ {r} : ring'[q] = ring[q]
  BY <1>1, <1>3 DEF Types
<1>5. /\ parse'.role = r /\ parse'.phase = "units" /\ parse'.defined = parse.defined \cup {c}
      /\ parse'.told = [parse.told EXCEPT ![k] = c] /\ parse'.text.index = 0
  BY <1>1, <1>3 DEF Parses, NoText
<1>6. /\ parse'.told[k] = c /\ \A i \in 1 .. RingSize : i # k => parse'.told[i] = parse.told[i]
  BY <1>1, <1>2, <1>5 DEF Tellings
<1>7. /\ Known(ring[r].codes, parse.told, lost[r] \ parse.defined)
      /\ \A i \in 1 .. RingSize : parse.told[i] = seen[r][i] \/ parse.told[i] \in parse.defined
  BY <1>1 DEF TextInv, LineTold, Telling
<1>8. Known(m.codes, parse'.told, lost[r] \ parse'.defined)
  <2> SUFFICES ASSUME NEW i \in DOMAIN m.codes, i # k
               PROVE  parse'.told[i] = m.codes[i] \/ m.codes[i] \in lost[r] \ parse'.defined
    BY <1>2, <1>6 DEF Known
  <2>1. m.codes[i] # c
    BY <1>2 DEF RingOK
  <2>2. i \in DOMAIN ring[r].codes /\ m.codes[i] = ring[r].codes[i] /\ parse'.told[i] = parse.told[i]
    BY <1>1, <1>2, <1>6, RingIndices
  <2>3. parse.told[i] = ring[r].codes[i] \/ ring[r].codes[i] \in lost[r] \ parse.defined
    BY <1>7, <2>2 DEF Known
  <2> QED
    BY <1>5, <2>1, <2>2, <2>3
<1>9. RingsTold'
  BY <1>1, <1>3, <1>4, <1>5 DEF TextInv, RingsTold, Telling
<1>10. LineTold'
  <2>1. \A i \in 1 .. RingSize : parse'.told[i] = seen[r][i] \/ parse'.told[i] \in parse'.defined
    BY <1>5, <1>6, <1>7
  <2> QED
    BY <1>3, <1>4, <1>5, <1>8, <2>1 DEF LineTold, Telling
<1> QED
  BY <1>9, <1>10 DEF TextInv

LEMMA TextStep == Types /\ Phases /\ TextInv /\ [Next]_vars => TextInv'
<1> SUFFICES ASSUME Types, Phases, TextInv, [Next]_vars
             PROVE  TextInv'
  OBVIOUS
<1> USE DEF reception, memory, history
<1>1. ASSUME UNCHANGED <<ring, seen, lost>>, parse.phase \in {"idle", "pes"},
             parse'.phase \in {"idle", "pes"}
      PROVE  TextInv'
  BY <1>1 DEF TextInv, RingsTold, LineTold, Telling
<1>2. CASE PmtPacket
  <2>1. parse' = parse /\ parse.phase = "idle"
    BY <1>2 DEF PmtPacket
  <2>2. PICK s : CheckPmt(s)
    BY <1>2 DEF PmtPacket
  <2>3. CASE UNCHANGED <<ring, seen, lost>>
    BY <1>1, <2>1, <2>3
  <2>4. ASSUME NEW pids, MoveRoles(pids),
               seen' = Moved(seen, pids, NothingSeen),
               lost' = Moved(lost, pids, {})
        PROVE  TextInv'
    <3>1. EmptyRing.codes = << >>
      BY DEF EmptyRing
    <3>2. ASSUME NEW r \in Roles
          PROVE  Known(ring'[r].codes, seen'[r], lost'[r])
      <4>1. CASE ring'[r] = EmptyRing
        BY <3>1, <4>1 DEF Known
      <4>2. CASE pids[r] = pid[r]
        <5>1. ring'[r] = ring[r] /\ seen'[r] = seen[r] /\ lost'[r] = lost[r]
          BY <2>4, <4>2 DEF MoveRoles, Moved
        <5> QED
          BY <2>1, <5>1 DEF TextInv, RingsTold, Telling
      <4> QED
        BY <2>4, <4>1, <4>2 DEF MoveRoles, Moved
    <3> QED
      BY <2>1, <3>2 DEF TextInv, RingsTold, LineTold, Telling
  <2> QED
    BY <2>2, <2>3, <2>4 DEF CheckPmt
<1>3. CASE PatPacket \/ PcrPacket \/ UNCHANGED vars
  <2>1. UNCHANGED <<parse, ring, seen, lost>>
    BY <1>3 DEF PatPacket, PcrPacket, vars
  <2> QED
    BY <2>1 DEF TextInv, RingsTold, LineTold, Telling
<1>4. CASE TextPacket
  <2>1. \A p : RoleOf(p) \in Roles
    BY DEF RoleOf, Roles
  <2>2. parse'.phase \in {"idle", "pes"}
    BY <1>4, <2>1, StartPhases DEF TextPacket
  <2> QED
    BY <1>1, <1>4, <2>2 DEF TextPacket
<1>5. CASE Ignored \/ Rejected
  BY <1>1, <1>5, StartPhases DEF Ignored, Rejected
<1>6. ASSUME NEW list, BeginManagement(list) \/ \E tag \in Tags : BeginText(tag)
      PROVE  TextInv'
  <2> DEFINE r == parse.role
  <2>1. r \in Roles /\ parse \in Parses /\ parse.phase = "pes" /\ parse.text = NoText /\ parse.defined = {}
    BY <1>6 DEF BeginManagement, BeginText, Types, Phases
  <2>2. /\ UNCHANGED <<ring, seen, lost>> /\ parse'.role = r /\ parse'.told = seen[r]
        /\ parse'.phase \in {"languages", "units"} /\ parse'.text = NoText /\ parse'.defined = {}
    BY ZenonT(30), <1>6, <2>1 DEF BeginManagement, BeginText, Parses
  <2>3. Known(ring[r].codes, seen[r], lost[r])
    BY <2>1 DEF TextInv, RingsTold, Telling
  <2> QED
    BY <2>1, <2>2, <2>3 DEF TextInv, RingsTold, LineTold, Telling, Known, NoText
<1>7. CASE ReadLanguage \/ EndLanguages
  <2>1. parse \in Parses /\ parse.phase = "languages" /\ UNCHANGED <<ring, seen, lost>>
    BY <1>7 DEF ReadLanguage, EndLanguages, Types
  <2>2. /\ parse'.role = parse.role /\ parse'.told = parse.told /\ parse'.text = parse.text
        /\ parse'.defined = parse.defined /\ parse'.phase \in {"languages", "units"}
    BY <1>7, <2>1 DEF ReadLanguage, EndLanguages, Parses
  <2> QED
    BY <2>1, <2>2 DEF TextInv, RingsTold, LineTold, Telling
<1>8. CASE \E c \in Codes : Define(c)
  BY <1>8, DefineText
<1>9. CASE \E c \in Codes : Write(c)
  <2>1. PICK c \in Codes : Write(c)
    BY <1>9
  <2> DEFINE r == parse.role
             k == Index(ring[r], c)
  <2>2. r \in Roles /\ parse \in Parses /\ parse.phase = "units" /\ UNCHANGED <<ring, seen, lost>>
    BY <2>1 DEF Write, Types, Phases
  <2>3. k # 0 => k \in DOMAIN ring[r].codes /\ ring[r].codes[k] = c
    <3>1. DOMAIN ring[r].codes = 1 .. Len(ring[r].codes)
      BY <2>2, LenProperties DEF Types, Rings
    <3>2. ring[r] \in Rings(Codes) /\ RingOK(ring[r])
      BY <2>2 DEF Types
    <3>3. k \in 0 .. Len(ring[r].codes) /\ (k # 0 => ring[r].codes[k] = c)
      BY <3>2, IndexWhere
    <3> HIDE DEF k
    <3>4. Len(ring[r].codes) \in Nat
      BY <3>2, LenProperties DEF Rings
    <3> QED
      BY <3>1, <3>3, <3>4
  <2> HIDE DEF k
  <2>4. parse' = [parse EXCEPT !.items = @ + 1, !.text = [index |-> k, code |-> c]]
    BY <2>1 DEF Write, k
  <2>5. /\ parse'.role = r /\ parse'.told = parse.told /\ parse'.defined = parse.defined
        /\ parse'.phase = "units" /\ parse'.text.index = k /\ parse'.text.code = c
    BY <2>2, <2>4 DEF Parses
  <2> QED
    BY <2>2, <2>3, <2>5 DEF TextInv, RingsTold, LineTold, Telling
<1>10. CASE Fail
  <2> DEFINE r == parse.role
  <2>1. /\ r \in Roles /\ parse \in Parses /\ Telling(r) /\ parse'.phase = "idle"
        /\ UNCHANGED <<ring, seen>>
    BY <1>10, StartPhases DEF Fail, Types, Phases, Telling
  <2>2. lost'[r] = lost[r] \cup parse.defined /\ \A q \in Roles \ {r} : lost'[q] = lost[q]
    BY <1>10, <2>1 DEF Fail, Types
  <2>3. Known(ring[r].codes, seen[r], lost'[r])
    BY <2>1, <2>2, RingIndices DEF TextInv, LineTold, Known
  <2> QED
    BY <2>1, <2>2, <2>3 DEF TextInv, RingsTold, LineTold, Telling
<1>11. CASE Finish
  <2> DEFINE r == parse.role
  <2>1. /\ r \in Roles /\ parse \in Parses /\ Telling(r) /\ parse'.phase = "idle" /\ ring' = ring
    BY <1>11, StartPhases DEF Finish, Types, Phases, Telling
  <2>2. /\ lost'[r] = lost[r] \ parse.defined /\ seen'[r] = parse.told
        /\ \A q \in Roles \ {r} : lost'[q] = lost[q] /\ seen'[q] = seen[q]
    BY <1>11, <2>1 DEF Finish, Types
  <2>3. Known(ring[r].codes, seen'[r], lost'[r])
    BY <2>1, <2>2 DEF TextInv, LineTold
  <2> QED
    BY <2>1, <2>2, <2>3 DEF TextInv, RingsTold, LineTold, Telling
<1> QED
  BY <1>2, <1>3, <1>4, <1>5, <1>6, <1>7, <1>8, <1>9, <1>10, <1>11 DEF Next

\* A character written for a DRCS code has the code point that the lines gave that code,
\* unless the code was defined in a group that failed.
THEOREM TextKept == Spec => []TextAnnounced
<1>1. Init => TextInv
  BY StartPhases DEF Init, TextInv, RingsTold, LineTold, Telling, Known, EmptyRing
<1>2. Types /\ Phases /\ TextInv => TextAnnounced
  <2> SUFFICES ASSUME Types, Phases, TextInv, parse.text.index # 0
               PROVE  \/ parse.told[parse.text.index] = parse.text.code
                      \/ parse.text.code \in lost[parse.role]
    BY DEF TextAnnounced
  <2>1. parse.phase = "units" /\ parse.role \in Roles
    BY DEF Phases, NoText
  <2>2. Telling(parse.role)
    BY <2>1 DEF Telling
  <2> QED
    BY <2>1, <2>2 DEF TextInv, LineTold, Known
<1> QED
  BY <1>1, <1>2, TraceInit, TypesStep, TextStep, PTL DEF Spec

-----------------------------------------------------------------------------
(* The positions of readable text.                                         *)

Signs == {"read", "control", "either"}

TextSet == [latin : BOOLEAN, g : Seq(Sets), gl : Nat, gr : Nat, shift : Nat,
            out : Seq(Signs), pos : Seq(Nat)]

\* The positions up to a place
Before(pos, i) == {k \in DOMAIN pos : pos[k] < i}

\* The positions tell what is written so far, and none is behind it.
Locating(t) ==
  /\ t \in TextSet /\ Len(t.pos) >= 1
  /\ \A i \in 1 .. Len(t.pos) - 1 : t.pos[i] < t.pos[i + 1]
  /\ \A k \in 1 .. Len(t.pos) : t.pos[k] <= Len(t.out)
  /\ \A i \in t.pos[1] + 1 .. Len(t.out) :
       /\ t.out[i] = "read" => Cardinality(Before(t.pos, i)) % 2 = 0
       /\ t.out[i] = "control" => Cardinality(Before(t.pos, i)) % 2 = 1

\* Something was written behind the last position.
Going(t) == Locating(t) /\ \A k \in 1 .. Len(t.pos) : t.pos[k] < Len(t.out)

LEMMA TextIs ==
  ASSUME NEW t \in TextSet
  PROVE  /\ t.pos \in Seq(Nat) /\ t.out \in Seq(Signs) /\ Len(t.pos) \in Nat /\ Len(t.out) \in Nat
         /\ DOMAIN t.pos = 1 .. Len(t.pos) /\ \A k \in 1 .. Len(t.pos) : t.pos[k] \in Nat
<1>1. t.pos \in Seq(Nat) /\ t.out \in Seq(Signs)
  BY DEF TextSet
<1> QED
  BY <1>1

\* A position noted at the end changes nothing for what is written already.
LEMMA CheckTells ==
  ASSUME NEW t, Going(t), NEW readable \in BOOLEAN, NEW u, u = CheckReadable(t, readable)
  PROVE  /\ Locating(u)
         /\ readable => Len(u.pos) % 2 = 0
         /\ ~readable => Len(u.pos) % 2 = 1
<1> DEFINE n == Len(t.pos)
           l == Len(t.out)
<1>1. /\ t \in TextSet /\ n >= 1 /\ Locating(t)
      /\ \A i \in 1 .. n - 1 : t.pos[i] < t.pos[i + 1]
      /\ \A k \in 1 .. n : t.pos[k] < l
      /\ \A i \in t.pos[1] + 1 .. l :
           /\ t.out[i] = "read" => Cardinality(Before(t.pos, i)) % 2 = 0
           /\ t.out[i] = "control" => Cardinality(Before(t.pos, i)) % 2 = 1
  BY DEF Going, Locating
<1>2. /\ t.pos \in Seq(Nat) /\ n \in Nat /\ l \in Nat /\ DOMAIN t.pos = 1 .. n
      /\ \A k \in 1 .. n : t.pos[k] \in Nat
  BY <1>1, TextIs
<1>3. n % 2 \in {0, 1} /\ (n % 2 = 1 => (n + 1) % 2 = 0) /\ (n % 2 = 0 => (n + 1) % 2 = 1)
  <2> HIDE DEF n
  <2> QED
    BY <1>2
<1>4. CASE (n % 2 = 1) = readable
  <2>1. u = [t EXCEPT !.pos = Append(t.pos, l)]
    BY <1>4 DEF CheckReadable
  <2> DEFINE q == Append(t.pos, l)
  <2>2. /\ q \in Seq(Nat) /\ Len(q) = n + 1 /\ q[n + 1] = l /\ \A k \in 1 .. n : q[k] = t.pos[k]
    BY <1>2
  <2>3. DOMAIN q = 1 .. n + 1
    BY <2>2
  <2> HIDE DEF n, l, q
  <2>4. u = [t EXCEPT !.pos = q]
    BY <2>1 DEF q, l
  <2>5. u \in TextSet /\ u.pos = q /\ u.out = t.out
    BY <1>1, <2>2, <2>4 DEF TextSet
  <2>6. \A i \in 1 .. n : q[i] < q[i + 1]
    <3>1. ASSUME NEW i \in 1 .. n
          PROVE  q[i] < q[i + 1]
      <4>1. CASE i = n
        BY <1>1, <1>2, <2>2, <4>1
      <4>2. CASE i # n
        <5>1. i \in 1 .. n - 1 /\ i + 1 \in 1 .. n
          BY <1>2, <4>2
        <5> QED
          BY <1>1, <2>2, <5>1
      <4> QED
        BY <4>1, <4>2
    <3> QED
      BY <3>1
  <2>7. \A k \in 1 .. n + 1 : q[k] <= l
    <3>1. ASSUME NEW k \in 1 .. n + 1
          PROVE  q[k] <= l
      <4>1. CASE k = n + 1
        BY <1>2, <2>2, <4>1
      <4>2. CASE k # n + 1
        <5>1. k \in 1 .. n
          BY <1>2, <4>2
        <5>2. t.pos[k] \in Nat /\ t.pos[k] < l
          BY <1>1, <1>2, <5>1
        <5>3. q[k] = t.pos[k]
          BY <2>2, <5>1
        <5> QED
          BY <1>2, <5>2, <5>3
      <4> QED
        BY <4>1, <4>2
    <3> QED
      BY <3>1
  <2>8. ASSUME NEW i \in t.pos[1] + 1 .. l
        PROVE  Before(q, i) = Before(t.pos, i)
    <3>1. i \in Nat /\ ~(l < i)
      BY <1>1, <1>2
    <3>2. \A k \in 1 .. n + 1 : k \in 1 .. n \/ k = n + 1
      BY <1>2
    <3>3. 1 .. n \subseteq 1 .. n + 1
      BY <1>2
    <3>4. \A k \in 1 .. n : q[k] = t.pos[k]
      BY <2>2
    <3>5. ~(q[n + 1] < i)
      BY <2>2, <3>1
    <3>6. \A k \in 1 .. n + 1 : q[k] < i => k \in 1 .. n /\ t.pos[k] < i
      BY <3>2, <3>4, <3>5
    <3>7. \A k \in 1 .. n : t.pos[k] < i => k \in 1 .. n + 1 /\ q[k] < i
      BY <3>3, <3>4
    <3> QED
      BY <1>2, <2>3, <3>6, <3>7 DEF Before
  <2>9. q[1] = t.pos[1] /\ Len(q) >= 1 /\ Len(q) - 1 = n
    BY <1>1, <1>2, <2>2
  <2>10. Locating(u)
    <3>1. /\ \A i \in 1 .. Len(u.pos) - 1 : u.pos[i] < u.pos[i + 1]
          /\ \A k \in 1 .. Len(u.pos) : u.pos[k] <= Len(u.out)
      BY <2>2, <2>5, <2>6, <2>7, <2>9 DEF l
    <3>2. \A i \in q[1] + 1 .. l :
            /\ t.out[i] = "read" => Cardinality(Before(q, i)) % 2 = 0
            /\ t.out[i] = "control" => Cardinality(Before(q, i)) % 2 = 1
      BY <1>1, <2>8, <2>9
    <3> QED
      BY <2>5, <2>9, <3>1, <3>2 DEF Locating, l
  <2>11. Len(u.pos) = n + 1
    BY <2>2, <2>5
  <2> QED
    BY <1>3, <1>4, <2>10, <2>11
<1>5. CASE ~((n % 2 = 1) = readable)
  <2>1. u = t
    BY <1>5 DEF CheckReadable
  <2> HIDE DEF n
  <2>2. (readable => n % 2 = 0) /\ (~readable => n % 2 = 1)
    BY <1>3, <1>5
  <2> QED
    BY <1>1, <2>1, <2>2 DEF n
<1> QED
  BY <1>4, <1>5

\* What is written behind the last position is as the number of positions says.
LEMMA WriteTells ==
  ASSUME NEW t, Locating(t), NEW what \in Seq(Signs), Len(what) >= 1,
         \A i \in 1 .. Len(what) :
           /\ what[i] = "read" => Len(t.pos) % 2 = 0
           /\ what[i] = "control" => Len(t.pos) % 2 = 1,
         NEW u, u = Written(t, what)
  PROVE  Going(u) /\ u.pos = t.pos
<1> DEFINE n == Len(t.pos)
           l == Len(t.out)
           m == Len(what)
           o == t.out \o what
<1>1. /\ t \in TextSet /\ n >= 1
      /\ \A i \in 1 .. n - 1 : t.pos[i] < t.pos[i + 1]
      /\ \A k \in 1 .. n : t.pos[k] <= l
      /\ \A i \in t.pos[1] + 1 .. l :
           /\ t.out[i] = "read" => Cardinality(Before(t.pos, i)) % 2 = 0
           /\ t.out[i] = "control" => Cardinality(Before(t.pos, i)) % 2 = 1
  BY DEF Locating
<1>2. /\ t.pos \in Seq(Nat) /\ t.out \in Seq(Signs) /\ n \in Nat /\ l \in Nat /\ DOMAIN t.pos = 1 .. n
      /\ \A k \in 1 .. n : t.pos[k] \in Nat
  BY <1>1, TextIs
<1>3. /\ o \in Seq(Signs) /\ Len(o) = l + m /\ m \in Nat
      /\ \A i \in 1 .. l : o[i] = t.out[i]
      /\ \A i \in 1 .. m : o[l + i] = what[i]
  BY <1>2
<1>4. u = [t EXCEPT !.out = o]
  BY DEF Written
<1>5. m >= 1 /\ \A i \in 1 .. m : /\ what[i] = "read" => n % 2 = 0
                                  /\ what[i] = "control" => n % 2 = 1
  OBVIOUS
<1> HIDE DEF n, l, m, o
<1>6. u \in TextSet /\ u.pos = t.pos /\ u.out = o
  BY <1>1, <1>3, <1>4 DEF TextSet
<1>7. ASSUME NEW i \in t.pos[1] + 1 .. l + m
      PROVE  /\ o[i] = "read" => Cardinality(Before(t.pos, i)) % 2 = 0
             /\ o[i] = "control" => Cardinality(Before(t.pos, i)) % 2 = 1
  <2>1. t.pos[1] \in Nat
    BY <1>1, <1>2
  <2>2. CASE i <= l
    <3>1. i \in t.pos[1] + 1 .. l /\ i \in 1 .. l
      BY <1>2, <2>1, <2>2
    <3> QED
      BY <1>1, <1>3, <3>1
  <2>3. CASE ~(i <= l)
    <3> DEFINE k == i - l
    <3>1. k \in 1 .. m /\ l + k = i /\ i \in Nat
      BY <1>2, <1>3, <2>1, <2>3
    <3> HIDE DEF k
    <3>2. o[i] = what[k]
      BY <1>3, <3>1
    <3>3. \A j \in 1 .. n : t.pos[j] < i
      BY <1>1, <1>2, <2>3, <3>1
    <3>4. Before(t.pos, i) = 1 .. n
      BY <1>2, <3>3 DEF Before
    <3>5. Cardinality(1 .. n) = n
      <4>1. 1 \in Int /\ n \in Int /\ n - 1 + 1 = n /\ ~(1 > n)
        BY <1>1, <1>2
      <4>2. Cardinality(1 .. n) = IF 1 > n THEN 0 ELSE n - 1 + 1
        BY <4>1, FS_Interval
      <4> QED
        BY <4>1, <4>2
    <3> QED
      BY <1>5, <3>1, <3>2, <3>4, <3>5
  <2> QED
    BY <2>2, <2>3
<1>8. \A k \in 1 .. n : t.pos[k] < l + m
  BY <1>1, <1>2, <1>3, <1>5
<1>9. \A k \in 1 .. n : t.pos[k] <= l + m
  BY <1>1, <1>2, <1>3, <1>5
<1>10. Locating(u)
  BY <1>1, <1>3, <1>6, <1>7, <1>9 DEF Locating, n
<1> QED
  BY <1>3, <1>6, <1>8, <1>10 DEF Going, n
-----------------------------------------------------------------------------
(* One turn of the loop.                                                   *)

\* Designations, shifts and macros change neither the positions nor what is written.
LEMMA SameText ==
  ASSUME NEW t, Going(t), NEW u \in TextSet, u.pos = t.pos, u.out = t.out
  PROVE  Going(u)
BY DEF Going, Locating, Before

LEMMA ReadableGoes ==
  ASSUME NEW t, Going(t), NEW c \in Nat \ {0}
  PROVE  Going(Readable(t, c))
<1> DEFINE u == CheckReadable(t, TRUE)
           w == Repeated("read", c)
<1>1. Locating(u) /\ Len(u.pos) % 2 = 0
  <2>1. TRUE \in BOOLEAN
    OBVIOUS
  <2> QED
    BY <2>1, CheckTells
<1>2. w \in Seq(Signs) /\ Len(w) >= 1 /\ \A i \in 1 .. Len(w) : w[i] = "read"
  BY DEF Repeated, Signs
<1>3. Readable(t, c) = Written(u, w)
  BY DEF Readable
<1> HIDE DEF u, w
<1> QED
  BY <1>1, <1>2, <1>3, WriteTells

LEMMA ControlGoes ==
  ASSUME NEW t, Going(t), NEW c \in Nat \ {0}
  PROVE  Going(Control(t, c))
<1> DEFINE u == CheckReadable(t, FALSE)
           w == Repeated("control", c)
<1>1. Locating(u) /\ Len(u.pos) % 2 = 1
  <2>1. FALSE \in BOOLEAN
    OBVIOUS
  <2> QED
    BY <2>1, CheckTells
<1>2. w \in Seq(Signs) /\ Len(w) >= 1 /\ \A i \in 1 .. Len(w) : w[i] = "control"
  BY DEF Repeated, Signs
<1>3. Control(t, c) = Written(u, w)
  BY DEF Control
<1> HIDE DEF u, w
<1> QED
  BY <1>1, <1>2, <1>3, WriteTells

LEMMA EitherGoes ==
  ASSUME NEW t, Going(t)
  PROVE  Going(Written(t, <<"either">>))
<1> DEFINE w == <<"either">>
<1>1. w \in Seq(Signs) /\ Len(w) >= 1 /\ \A i \in 1 .. Len(w) : w[i] = "either"
  BY DEF Signs
<1>2. Locating(t)
  BY DEF Going
<1> HIDE DEF w
<1>3. Going(Written(t, w))
  BY <1>1, <1>2, WriteTells
<1> QED
  BY <1>3 DEF w

LEMMA InitialSets ==
  ASSUME NEW t, Going(t), NEW u, u = InitializeArib8(t)
  PROVE  Going(u)
<1>1. t \in TextSet
  BY DEF Going, Locating
<1> DEFINE g == IF t.latin THEN <<"1byte", "1byte", "1byte", "1byte">>
                ELSE <<"2byte", "1byte", "1byte", "macro">>
<1>2. u = [t EXCEPT !.g = g, !.gl = 1, !.gr = 3]
  BY DEF InitializeArib8
<1>3. g \in Seq(Sets)
  <2>1. <<"1byte", "1byte", "1byte", "1byte">> \in Seq(Sets)
    BY DEF Sets
  <2>2. <<"2byte", "1byte", "1byte", "macro">> \in Seq(Sets)
    BY DEF Sets
  <2> QED
    BY <2>1, <2>2
<1> HIDE DEF g
<1>4. u = [latin |-> t.latin, g |-> g, gl |-> 1, gr |-> 3, shift |-> t.shift,
           out |-> t.out, pos |-> t.pos]
  BY <1>1, <1>2 DEF TextSet
<1>5. u \in TextSet /\ u.pos = t.pos /\ u.out = t.out
  <2>1. /\ t.latin \in BOOLEAN /\ t.shift \in Nat /\ t.out \in Seq(Signs) /\ t.pos \in Seq(Nat)
        /\ 1 \in Nat /\ 3 \in Nat
    BY <1>1 DEF TextSet
  <2> QED
    BY <1>3, <1>4, <2>1 DEF TextSet
<1> QED
  BY <1>5, SameText

LEMMA CharacterGoes ==
  ASSUME NEW t, Going(t), NEW s, NEW token, token.codes \in Nat \ {0},
         token.macro \in {<< >>} \cup [1 .. 3 -> Sets]
  PROVE  Going(Character(t, s, token))
<1>1. CASE s = "1byte"
  <2>1. Character(t, s, token) = Readable(t, token.codes)
    BY <1>1 DEF Character
  <2> QED
    BY <2>1, ReadableGoes
<1>2. CASE s \in {"2byte", "drcs"}
  <2>1. Character(t, s, token) = Readable(t, 1)
    BY <1>2 DEF Character
  <2>2. 1 \in Nat \ {0}
    OBVIOUS
  <2> QED
    BY <2>1, <2>2, ReadableGoes
<1>3. CASE s = "macro" /\ token.macro # << >>
  <2>1. Character(t, s, token) = Macro(t, token.macro)
    BY <1>3 DEF Character
  <2>2. t \in TextSet
    BY DEF Going, Locating
  <2> DEFINE u == Macro(t, token.macro)
             m == token.macro
  <2>3. m[1] \in Sets /\ m[2] \in Sets /\ m[3] \in Sets
    BY <1>3
  <2>4. <<m[1], m[2], m[3], "macro">> \in Seq(Sets)
    BY <2>3 DEF Sets
  <2>5. u \in TextSet /\ u.pos = t.pos /\ u.out = t.out
    BY <2>2, <2>4 DEF TextSet, Macro
  <2> HIDE DEF u
  <2>6. Going(u)
    BY <2>5, SameText
  <2> QED
    BY <2>1, <2>6 DEF u
<1>4. CASE s \notin {"1byte", "2byte", "drcs"} /\ ~(s = "macro" /\ token.macro # << >>)
  <2>1. Character(t, s, token) = Written(t, <<"either">>)
    BY <1>4 DEF Character
  <2> QED
    BY <2>1, EitherGoes
<1> QED
  BY <1>1, <1>2, <1>3, <1>4

\* Whatever the token, the positions go on telling.
LEMMA AnalizeGoes ==
  ASSUME NEW t, Going(t), NEW token \in TokenSet
  PROVE  Going(Analize(t, token))
<1> DEFINE u == [t EXCEPT !.shift = 0]
<1>1. t \in TextSet
  BY DEF Going, Locating
<1>2. u \in TextSet /\ u.pos = t.pos /\ u.out = t.out /\ u.g = t.g
  BY <1>1 DEF TextSet
<1>3. /\ token.op = "LS" => Analize(t, token) = [u EXCEPT !.gl = token.to]
      /\ token.op = "LSR" => Analize(t, token) = [u EXCEPT !.gr = token.to]
      /\ token.op = "SS" => Analize(t, token) = [u EXCEPT !.shift = token.to]
      /\ token.op = "designate" => Analize(t, token) = [u EXCEPT !.g[token.to] = token.set]
      /\ token.op = "space" => Analize(t, token) = Readable(u, 1)
      /\ token.op = "control" => Analize(t, token) = Control(u, token.codes)
      /\ token.op = "reset" => Analize(t, token) = InitializeArib8(Control(u, token.codes))
      /\ token.op = "ignored" => Analize(t, token) = u
      /\ token.op = "char" => Analize(t, token) = Character(u, SetOf(t, token.half), token)
  BY DEF Analize
<1> HIDE DEF u
<1>4. Going(u)
  BY <1>2, SameText
<1>5. CASE token \in [op : {"LS", "LSR", "SS"}, to : 1 .. 4]
  <2>1. token.to \in Nat /\ token.op \in {"LS", "LSR", "SS"}
    BY <1>5
  <2> DEFINE a == [u EXCEPT !.gl = token.to]
             b == [u EXCEPT !.gr = token.to]
             c == [u EXCEPT !.shift = token.to]
  <2>2. /\ a \in TextSet /\ a.pos = u.pos /\ a.out = u.out
        /\ b \in TextSet /\ b.pos = u.pos /\ b.out = u.out
        /\ c \in TextSet /\ c.pos = u.pos /\ c.out = u.out
    BY <1>2, <2>1 DEF TextSet
  <2>3. Analize(t, token) \in {a, b, c}
    BY <1>3, <2>1
  <2> HIDE DEF a, b, c
  <2>4. Going(a) /\ Going(b) /\ Going(c)
    BY <1>4, <2>2, SameText
  <2> QED
    BY <2>3, <2>4
<1>6. CASE token \in [op : {"designate"}, to : 1 .. 4, set : Sets]
  <2>1. token.op = "designate" /\ token.set \in Sets
    BY <1>6
  <2> DEFINE a == [u EXCEPT !.g[token.to] = token.set]
             h == [u.g EXCEPT ![token.to] = token.set]
  <2>2. h \in Seq(Sets)
    <3>1. u.g \in Seq(Sets)
      BY <1>2 DEF TextSet
    <3> DEFINE n == Len(u.g)
    <3>2. u.g \in [1 .. n -> Sets] /\ n \in Nat
      BY <3>1
    <3> HIDE DEF n
    <3>3. h \in [1 .. n -> Sets]
      BY <2>1, <3>2
    <3> HIDE DEF h
    <3> QED
      BY <3>2, <3>3
  <2>3. a = [u EXCEPT !.g = h]
    OBVIOUS
  <2> HIDE DEF h
  <2>4. a \in TextSet /\ a.pos = u.pos /\ a.out = u.out
    BY <1>2, <2>2, <2>3 DEF TextSet
  <2>5. Analize(t, token) = a
    BY <1>3, <2>1
  <2> HIDE DEF a
  <2> QED
    BY <1>4, <2>4, <2>5, SameText
<1>7. CASE token \in [op : {"space", "ignored"}]
  <2>1. token.op \in {"space", "ignored"}
    BY <1>7
  <2>2. 1 \in Nat \ {0}
    OBVIOUS
  <2>3. Going(Readable(u, 1))
    BY <1>4, <2>2, ReadableGoes
  <2> QED
    BY <1>3, <1>4, <2>1, <2>3
<1>8. CASE token \in [op : {"control", "reset"}, codes : Nat \ {0}]
  <2>1. token.op \in {"control", "reset"} /\ token.codes \in Nat \ {0}
    BY <1>8
  <2> DEFINE a == Control(u, token.codes)
  <2>2. Going(a)
    BY <1>4, <2>1, ControlGoes
  <2> HIDE DEF a
  <2>3. Going(InitializeArib8(a))
    BY <2>2, InitialSets
  <2> QED
    BY <1>3, <2>1, <2>2, <2>3 DEF a
<1>9. CASE token \in [op : {"char"}, half : {"GL", "GR"}, codes : Nat \ {0},
                     macro : {<< >>} \cup [1 .. 3 -> Sets]]
  <2>1. /\ token.op = "char" /\ token.codes \in Nat \ {0}
        /\ token.macro \in {<< >>} \cup [1 .. 3 -> Sets]
    BY <1>9
  <2>2. Going(Character(u, SetOf(t, token.half), token))
    BY <1>4, <2>1, CharacterGoes
  <2> QED
    BY <1>3, <2>1, <2>2
<1> QED
  BY <1>5, <1>6, <1>7, <1>8, <1>9 DEF TokenSet

-----------------------------------------------------------------------------
(* The loop over a text, and over the bodies of a group.                   *)

LEMMA TextGoes ==
  ASSUME NEW base, Going(base), NEW tokens \in Seq(TokenSet)
  PROVE  Going(FoldLeft(Analize, base, tokens))
<1> DEFINE n == Len(tokens)
           Q == {t \in TextSet : Going(t)}
           act == [i \in 1 .. n |-> [t \in Q |-> Analize(t, tokens[i])]]
           Eq(g) == g = [s \in SUBSET DOMAIN tokens |->
                           IF s = {} THEN base ELSE Analize(g[s \ {Max(s)}], tokens[Max(s)])]
           f == CHOOSE g : Eq(g)
<1>1. FoldLeft(Analize, base, tokens) = f[DOMAIN tokens]
  BY DEF FoldLeft, MapThenFoldSet
<1>2. n \in Nat /\ DOMAIN tokens = 1 .. n /\ \A i \in 1 .. n : tokens[i] \in TokenSet
  OBVIOUS
<1> HIDE DEF n
<1>3. base \in Q
  BY DEF Going, Locating
<1>4. ASSUME NEW t \in Q, NEW i \in 1 .. n
      PROVE  Analize(t, tokens[i]) \in Q
  <2>1. Going(Analize(t, tokens[i]))
    BY <1>2, AnalizeGoes
  <2> QED
    BY <2>1 DEF Going, Locating
<1> HIDE DEF Q
<1>5. act \in [1 .. n -> [Q -> Q]]
  BY <1>4
<1>6. \A i \in 1 .. n : \A t \in Q : act[i][t] = Analize(t, tokens[i])
  OBVIOUS
<1> HIDE DEF act
<1>7. PICK g : Folds(n, Q, base, act, g)
  BY <1>2, <1>3, <1>5, FoldThere
<1>8. g = [s \in SUBSET (1 .. n) |-> IF s = {} THEN base ELSE Analize(g[s \ {Max(s)}], tokens[Max(s)])]
  <2>1. /\ g \in [SUBSET (1 .. n) -> Q]
        /\ \A s \in SUBSET (1 .. n) : g[s] = IF s = {} THEN base ELSE act[Max(s)][g[s \ {Max(s)}]]
    BY <1>7 DEF Folds
  <2>2. ASSUME NEW s \in SUBSET (1 .. n), s # {}
        PROVE  act[Max(s)][g[s \ {Max(s)}]] = Analize(g[s \ {Max(s)}], tokens[Max(s)])
    <3>1. Max(s) \in 1 .. n
      BY <1>2, <2>2, HighestIndex
    <3>2. g[s \ {Max(s)}] \in Q
      BY <2>1
    <3> QED
      BY <1>6, <3>1, <3>2
  <2> QED
    BY <2>1, <2>2
<1>9. f = [s \in SUBSET (1 .. n) |-> IF s = {} THEN base ELSE Analize(f[s \ {Max(s)}], tokens[Max(s)])]
  <2>1. Eq(g)
    BY <1>2, <1>8
  <2>2. Eq(f)
    <3> HIDE DEF Eq
    <3> QED
      BY <2>1
  <2> QED
    BY <1>2, <2>2
<1> HIDE DEF f
<1>10. f[{}] \in Q
  <2>1. {} \in SUBSET (1 .. n)
    OBVIOUS
  <2> QED
    BY <1>3, <1>9, <2>1
<1>11. ASSUME NEW k \in 1 .. n, f[1 .. k - 1] \in Q
       PROVE  f[1 .. k] \in Q
  <2>1. /\ 1 .. k \in SUBSET (1 .. n) /\ 1 .. k # {} /\ Max(1 .. k) = k
        /\ (1 .. k) \ {k} = 1 .. k - 1
    BY <1>2, Stretches
  <2>2. f[1 .. k] = Analize(f[1 .. k - 1], tokens[k])
    BY <1>9, <2>1
  <2> QED
    BY <1>4, <1>11, <2>2
<1>12. f[1 .. n] \in Q
  BY <1>2, <1>10, <1>11, KeptAlong
<1> QED
  BY <1>1, <1>2, <1>12 DEF Q

\* Between the bodies the text ends unreadable.
Closing(t) == Locating(t) /\ Len(t.pos) % 2 = 1

Body(t, tokens) == Framing(AddArib8AsUtf8(Framing(t), tokens))

LEMMA FramingGoes ==
  ASSUME NEW t, Closing(t)
  PROVE  Going(Framing(t)) /\ Closing(Framing(t))
<1> DEFINE w == <<"control">>
           u == Written(t, w)
<1>1. w \in Seq(Signs) /\ Len(w) >= 1 /\ \A i \in 1 .. Len(w) : w[i] = "control"
  BY DEF Signs
<1>2. Framing(t) = u
  BY DEF Framing
<1>3. Locating(t) /\ Len(t.pos) % 2 = 1
  BY DEF Closing
<1> HIDE DEF w
<1>4. \A i \in 1 .. Len(w) : /\ w[i] = "read" => Len(t.pos) % 2 = 0
                             /\ w[i] = "control" => Len(t.pos) % 2 = 1
  BY <1>1, <1>3
<1>5. Going(u) /\ u.pos = t.pos
  BY <1>1, <1>3, <1>4, WriteTells
<1> HIDE DEF u
<1> QED
  BY <1>2, <1>3, <1>5 DEF Going, Closing

\* Every readable part of a body ends with it.
LEMMA BodyEnds ==
  ASSUME NEW t, Closing(t), NEW tokens \in Seq(TokenSet)
  PROVE  Closing(Body(t, tokens))
<1> DEFINE u == InitializeArib8(Framing(t))
           v == [u EXCEPT !.shift = 0]
           w == FoldLeft(Analize, v, tokens)
           x == CheckReadable(w, FALSE)
<1>1. Body(t, tokens) = Framing(x)
  BY DEF Body, AddArib8AsUtf8
<1>2. Going(u)
  BY FramingGoes, InitialSets
<1>3. Going(v)
  <2> HIDE DEF u
  <2>1. u \in TextSet
    BY <1>2 DEF Going, Locating
  <2>2. v \in TextSet /\ v.pos = u.pos /\ v.out = u.out
    BY <2>1 DEF TextSet
  <2> HIDE DEF v
  <2> QED
    BY <1>2, <2>2, SameText
<1>4. Going(w)
  <2> HIDE DEF v
  <2> QED
    BY <1>3, TextGoes
<1>5. Locating(x) /\ Len(x.pos) % 2 = 1
  <2>1. FALSE \in BOOLEAN
    OBVIOUS
  <2> HIDE DEF w
  <2> QED
    BY <1>4, <2>1, CheckTells
<1> HIDE DEF x
<1> QED
  BY <1>1, <1>5, FramingGoes DEF Closing

LEMMA BodiesEnd ==
  ASSUME NEW base, Closing(base), NEW bodies \in Seq(Seq(TokenSet))
  PROVE  Closing(FoldLeft(Body, base, bodies))
<1> DEFINE n == Len(bodies)
           Q == {t \in TextSet : Closing(t)}
           act == [i \in 1 .. n |-> [t \in Q |-> Body(t, bodies[i])]]
           Eq(g) == g = [s \in SUBSET DOMAIN bodies |->
                           IF s = {} THEN base ELSE Body(g[s \ {Max(s)}], bodies[Max(s)])]
           f == CHOOSE g : Eq(g)
<1>1. FoldLeft(Body, base, bodies) = f[DOMAIN bodies]
  BY DEF FoldLeft, MapThenFoldSet
<1>2. n \in Nat /\ DOMAIN bodies = 1 .. n /\ \A i \in 1 .. n : bodies[i] \in Seq(TokenSet)
  OBVIOUS
<1> HIDE DEF n
<1>3. base \in Q
  BY DEF Closing, Locating
<1>4. ASSUME NEW t \in Q, NEW i \in 1 .. n
      PROVE  Body(t, bodies[i]) \in Q
  <2>1. Closing(Body(t, bodies[i]))
    BY <1>2, BodyEnds
  <2> QED
    BY <2>1 DEF Closing, Locating
<1> HIDE DEF Q
<1>5. act \in [1 .. n -> [Q -> Q]]
  BY <1>4
<1>6. \A i \in 1 .. n : \A t \in Q : act[i][t] = Body(t, bodies[i])
  OBVIOUS
<1> HIDE DEF act
<1>7. PICK g : Folds(n, Q, base, act, g)
  BY <1>2, <1>3, <1>5, FoldThere
<1>8. g = [s \in SUBSET (1 .. n) |-> IF s = {} THEN base ELSE Body(g[s \ {Max(s)}], bodies[Max(s)])]
  <2>1. /\ g \in [SUBSET (1 .. n) -> Q]
        /\ \A s \in SUBSET (1 .. n) : g[s] = IF s = {} THEN base ELSE act[Max(s)][g[s \ {Max(s)}]]
    BY <1>7 DEF Folds
  <2>2. ASSUME NEW s \in SUBSET (1 .. n), s # {}
        PROVE  act[Max(s)][g[s \ {Max(s)}]] = Body(g[s \ {Max(s)}], bodies[Max(s)])
    <3>1. Max(s) \in 1 .. n
      BY <1>2, <2>2, HighestIndex
    <3>2. g[s \ {Max(s)}] \in Q
      BY <2>1
    <3> QED
      BY <1>6, <3>1, <3>2
  <2> QED
    BY <2>1, <2>2
<1>9. f = [s \in SUBSET (1 .. n) |-> IF s = {} THEN base ELSE Body(f[s \ {Max(s)}], bodies[Max(s)])]
  <2>1. Eq(g)
    BY <1>2, <1>8
  <2>2. Eq(f)
    <3> HIDE DEF Eq
    <3> QED
      BY <2>1
  <2> QED
    BY <1>2, <2>2
<1> HIDE DEF f
<1>10. f[{}] \in Q
  <2>1. {} \in SUBSET (1 .. n)
    OBVIOUS
  <2> QED
    BY <1>3, <1>9, <2>1
<1>11. ASSUME NEW k \in 1 .. n, f[1 .. k - 1] \in Q
       PROVE  f[1 .. k] \in Q
  <2>1. /\ 1 .. k \in SUBSET (1 .. n) /\ 1 .. k # {} /\ Max(1 .. k) = k
        /\ (1 .. k) \ {k} = 1 .. k - 1
    BY <1>2, Stretches
  <2>2. f[1 .. k] = Body(f[1 .. k - 1], bodies[k])
    BY <1>9, <2>1
  <2> QED
    BY <1>4, <1>11, <2>2
<1>12. f[1 .. n] \in Q
  BY <1>2, <1>10, <1>11, KeptAlong
<1> QED
  BY <1>1, <1>2, <1>12 DEF Q

\* A group begins unreadable, with the position behind its number.
LEMMA GroupEnds ==
  ASSUME NEW latin \in BOOLEAN, NEW bodies \in Seq(Seq(TokenSet))
  PROVE  Closing(Group(latin, bodies))
<1> DEFINE e == [latin |-> latin, g |-> << >>, gl |-> 1, gr |-> 3, shift |-> 0,
                 out |-> <<"control">>, pos |-> << >>]
           b == CheckReadable(e, FALSE)
<1>1. Group(latin, bodies) = FoldLeft(Body, b, bodies)
  BY DEF Group, Body
<1>2. b = [e EXCEPT !.pos = <<1>>]
  <2>1. Len(e.pos) = 0 /\ Append(e.pos, Len(e.out)) = <<1>> /\ 0 % 2 = 0
    OBVIOUS
  <2> HIDE DEF e
  <2> QED
    BY <2>1 DEF CheckReadable
<1>3. b \in TextSet /\ b.pos = <<1>> /\ b.out = <<"control">>
  <2>1. <<1>> \in Seq(Nat) /\ <<"control">> \in Seq(Signs) /\ << >> \in Seq(Sets)
    BY DEF Signs
  <2>2. b = [latin |-> latin, g |-> << >>, gl |-> 1, gr |-> 3, shift |-> 0,
             out |-> <<"control">>, pos |-> <<1>>]
    BY <1>2
  <2> HIDE DEF b
  <2> QED
    BY <2>1, <2>2 DEF TextSet
<1> HIDE DEF b
<1>4. Closing(b)
  BY <1>3 DEF Closing, Locating
<1> QED
  BY <1>1, <1>4, BodiesEnd

LEMMA ClosingTold ==
  ASSUME NEW t, Closing(t)
  PROVE  Told(t)
<1>1. /\ t \in TextSet /\ Len(t.pos) >= 1 /\ Len(t.pos) % 2 = 1
      /\ \A i \in 1 .. Len(t.pos) - 1 : t.pos[i] < t.pos[i + 1]
      /\ \A i \in t.pos[1] + 1 .. Len(t.out) :
           /\ t.out[i] = "read" => Cardinality(Before(t.pos, i)) % 2 = 0
           /\ t.out[i] = "control" => Cardinality(Before(t.pos, i)) % 2 = 1
  BY DEF Closing, Locating
<1>2. ASSUME NEW i \in t.pos[1] + 1 .. Len(t.out), t.out[i] # "either"
      PROVE  (t.out[i] = "read") = (Cardinality({k \in DOMAIN t.pos : t.pos[k] < i}) % 2 = 0)
  <2> DEFINE c == Cardinality(Before(t.pos, i)) % 2
  <2>1. c = Cardinality({k \in DOMAIN t.pos : t.pos[k] < i}) % 2
    BY DEF Before
  <2>2. t.out[i] \in Signs
    <3>1. t.out \in Seq(Signs) /\ t.pos[1] \in Nat
      BY <1>1, TextIs
    <3> QED
      BY <3>1
  <2>3. (t.out[i] = "read" => c = 0) /\ (t.out[i] = "control" => c = 1)
    BY <1>1
  <2> HIDE DEF c
  <2>4. t.out[i] = "read" \/ t.out[i] = "control"
    BY <1>2, <2>2 DEF Signs
  <2>5. (t.out[i] = "read") = (c = 0)
    BY <2>3, <2>4
  <2> QED
    BY <2>1, <2>5
<1> QED
  BY <1>1, <1>2 DEF Told

-----------------------------------------------------------------------------
LEMMA TextsOfTokens == Texts \subseteq Seq(Seq(TokenSet))
<1>1. ASSUME NEW k \in Nat
      PROVE  BoundedSeq(Tokens, k) \subseteq Seq(TokenSet)
  BY <1>1, TextAssumption DEF BoundedSeq, SeqOf
<1>2. ASSUME NEW n \in 1 .. MaxBodies
      PROVE  [1 .. n -> BoundedSeq(Tokens, MaxTokens \div n)] \subseteq Seq(Seq(TokenSet))
  <2>1. MaxTokens \div n \in Nat /\ n \in Nat
    BY TextAssumption
  <2> DEFINE k == MaxTokens \div n
             B == BoundedSeq(Tokens, k)
  <2> HIDE DEF k
  <2>2. B \subseteq Seq(TokenSet)
    BY <1>1, <2>1 DEF k
  <2> HIDE DEF B
  <2>3. [1 .. n -> B] \subseteq Seq(Seq(TokenSet))
    BY <2>1, <2>2
  <2> QED
    BY <2>3 DEF B, k
<1> QED
  BY <1>2 DEF Texts

\* In the order in which a text is rewritten, a position is noted exactly where what can be
\* read begins and where it ends: of every text of every length, the positions tell the one
\* from the other.
THEOREM PositionsKept == TextSpec => []PositionsTold
<1> DEFINE TextIn == text.latin \in BOOLEAN /\ text.bodies \in Seq(Seq(TokenSet))
<1>1. text = NoBodies => TextIn
  BY DEF NoBodies
<1>2. TextInit => TextIn
  <2>1. text \in [latin : BOOLEAN, bodies : Texts] => TextIn
    <3>1. ASSUME text \in [latin : BOOLEAN, bodies : Texts]
          PROVE  TextIn
      <4>1. text.latin \in BOOLEAN /\ text.bodies \in Texts
        BY <3>1
      <4> QED
        BY <4>1, TextsOfTokens
    <3> QED
      BY <3>1
  <2> QED
    BY <1>1, <2>1 DEF TextInit
<1>3. TextIn /\ [TextNext]_<<vars, text>> => TextIn'
  <2>1. NoBodies.latin \in BOOLEAN /\ NoBodies.bodies \in Seq(Seq(TokenSet))
    BY DEF NoBodies
  <2> QED
    BY <2>1 DEF TextNext
<1>4. TextIn => PositionsTold
  BY GroupEnds, ClosingTold DEF PositionsTold
<1> QED
  BY <1>2, <1>3, <1>4, PTL DEF TextSpec
=============================================================================
