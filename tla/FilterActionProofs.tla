------------------------- MODULE FilterActionProofs -------------------------
(***************************************************************************)
(* Theorems about what a packet makes the service filter do: counters      *)
(* without gaps, versions that tell changes, silence without gaps that     *)
(* keeps up, and captions inserted when they are due.                      *)
(***************************************************************************)
EXTENDS CaptionManagement, ServiceFilterProofs

-----------------------------------------------------------------------------
(* Arithmetic of counters.                                                 *)

LEMMA DivisionIs ==
  ASSUME NEW m \in Nat \ {0}, NEW n \in Nat
  PROVE  n \div m \in Nat /\ n % m \in 0 .. m - 1 /\ n = (n \div m) * m + (n % m)
OBVIOUS

LEMMA DivisionUnique ==
  ASSUME NEW m \in Nat \ {0}, NEW q \in Nat, NEW r \in 0 .. m - 1
  PROVE  (q * m + r) % m = r
OBVIOUS

\* Counting on from a remainder is counting on from what it was left of.
LEMMA RemainderOn ==
  ASSUME NEW d \in Nat \ {0}, NEW n \in Nat, NEW m \in Nat
  PROVE  ((n % d) + m) % d = (n + m) % d
<1> DEFINE q == n \div d
           r == n % d
           k == (r + m) \div d
           s == (r + m) % d
<1>1. q \in Nat /\ r \in 0 .. d - 1 /\ n = q * d + r
  BY DivisionIs
<1>2. r + m \in Nat
  BY <1>1
<1> HIDE DEF q, r
<1>3. k \in Nat /\ s \in 0 .. d - 1 /\ r + m = k * d + s
  BY <1>2, DivisionIs
<1> HIDE DEF k, s
<1>4. n + m = (q + k) * d + s
  <2>1. s \in Nat /\ r \in Nat
    BY <1>1, <1>3
  <2>2. (q + k) * d = q * d + k * d
    BY <1>1, <1>3, <2>1
  <2>3. q * d \in Nat /\ k * d \in Nat
    BY <1>1, <1>3, <2>1
  <2> QED
    BY <1>1, <1>3, <2>1, <2>2, <2>3
<1>5. ((q + k) * d + s) % d = s
  <2>1. q + k \in Nat
    BY <1>1, <1>3
  <2> QED
    BY <1>3, <2>1, DivisionUnique
<1> QED
  BY <1>4, <1>5 DEF r, s

LEMMA CountOn ==
  ASSUME NEW n \in Nat, NEW m \in Nat
  PROVE  ((n % CounterMod) + m) % CounterMod = (n + m) % CounterMod
<1>1. CounterMod \in Nat \ {0}
  BY Constants
<1> QED
  BY <1>1, RemainderOn

LEMMA CounterUnique ==
  ASSUME NEW q \in Nat, NEW r \in Counters
  PROVE  (q * CounterMod + r) % CounterMod = r
<1>1. CounterMod \in Nat \ {0} /\ Counters = 0 .. CounterMod - 1
  BY Constants DEF Counters
<1> QED
  BY <1>1, DivisionUnique

LEMMA CounterIn ==
  ASSUME NEW n \in Nat
  PROVE  n % CounterMod \in Counters
BY Constants DEF Counters

LEMMA CounterStays ==
  ASSUME NEW c \in Counters
  PROVE  c % CounterMod = c /\ c \in Nat
BY Constants DEF Counters

-----------------------------------------------------------------------------
(* Places.                                                                 *)

LEMMA PreviousIs ==
  ASSUME NEW n \in Nat, NEW S \in SUBSET (1 .. n), NEW i \in Nat
  PROVE  /\ Previous(S, i) \in 0 .. n
         /\ Previous(S, i) # 0 => Previous(S, i) \in S /\ Previous(S, i) < i
         /\ \A k \in S : k < i => k <= Previous(S, i)
<1> DEFINE T == {k \in S : k < i}
<1>1. Previous(S, i) = Max({0} \cup T)
  BY DEF Previous
<1>2. T \in SUBSET (1 .. n) /\ \A k \in T : k \in S /\ k < i
  OBVIOUS
<1>3. \A k \in S : k < i => k \in T
  OBVIOUS
<1> HIDE DEF T
<1>4. \E h \in {0} \cup T : \A k \in {0} \cup T : h >= k
  <2>1. CASE T = {}
    BY <2>1
  <2>2. CASE T # {}
    <3>1. Max(T) \in T /\ \A k \in T : k <= Max(T)
      BY <1>2, <2>2, HighestIndex
    <3>2. Max(T) \in 1 .. n /\ \A k \in T : k \in 1 .. n
      BY <1>2, <3>1
    <3> QED
      BY <3>1, <3>2
  <2> QED
    BY <2>1, <2>2
<1> DEFINE h == Max({0} \cup T)
<1>5. h \in {0} \cup T /\ \A k \in {0} \cup T : h >= k
  BY <1>4 DEF Max
<1>6. Previous(S, i) = h
  BY <1>1
<1> HIDE DEF h
<1>7. h \in 0 .. n /\ (h # 0 => h \in S /\ h < i)
  BY <1>2, <1>5
<1>8. ASSUME NEW k \in S, k < i
      PROVE  k <= h
  <2>1. k \in Nat /\ h \in Nat /\ h >= k
    BY <1>3, <1>5, <1>7, <1>8
  <2> QED
    BY <2>1
<1> QED
  BY <1>6, <1>7, <1>8

LEMMA PreviousOnly ==
  ASSUME NEW n \in Nat, NEW S \in SUBSET (1 .. n), NEW i \in Nat, NEW j \in Nat,
         j = 0 \/ (j \in S /\ j < i), \A k \in S : k < i => k <= j
  PROVE  Previous(S, i) = j
<1> DEFINE p == Previous(S, i)
<1>1. /\ p \in 0 .. n /\ (p # 0 => p \in S /\ p < i) /\ \A k \in S : k < i => k <= p
  BY PreviousIs
<1> HIDE DEF p
<1>2. p <= j
  BY <1>1
<1>3. j <= p
  BY <1>1
<1> QED
  BY <1>1, <1>2, <1>3 DEF p

\* What comes behind does not matter for a place.
LEMMA PlaceBehind ==
  ASSUME NEW n \in Nat, NEW S \in SUBSET (1 .. n), NEW i \in Nat, i > n
  PROVE  Previous(S, i) = Previous(S, n + 1)
<1>1. \A k \in S : k < i /\ k < n + 1
  <2>1. \A k \in 1 .. n : k < i /\ k < n + 1
    OBVIOUS
  <2> QED
    BY <2>1
<1>2. {k \in S : k < i} = {k \in S : k < n + 1}
  BY ONLY <1>1
<1> QED
  BY <1>2 DEF Previous

LEMMA PlaceNext ==
  ASSUME NEW n \in Nat, NEW S \in SUBSET (1 .. n), NEW j \in S
  PROVE  Previous(S, j + 1) = j
<1>1. j \in Nat /\ j + 1 \in Nat
  OBVIOUS
<1>2. j < j + 1 /\ \A k \in S : k < j + 1 => k <= j
  OBVIOUS
<1> QED
  BY <1>1, <1>2, PreviousOnly

\* Packets one after the other
LEMMA JoinedIs ==
  ASSUME NEW s, NEW t, Sequence(s), Sequence(t)
  PROVE  /\ Len(s) \in Nat /\ Len(t) \in Nat /\ DOMAIN s = 1 .. Len(s) /\ DOMAIN t = 1 .. Len(t)
         /\ DOMAIN (s \o t) = 1 .. Len(s) + Len(t) /\ Len(s \o t) = Len(s) + Len(t)
         /\ \A i \in 1 .. Len(s) : (s \o t)[i] = s[i]
         /\ \A i \in 1 .. Len(t) : (s \o t)[Len(s) + i] = t[i]
<1> DEFINE S == ToSet(s) \cup ToSet(t)
<1>1. s \in Seq(S) /\ t \in Seq(S)
  BY DEF Sequence
<1> HIDE DEF S
<1> QED
  BY <1>1

\* The places behind n that are given for the packets sent last
Shifted(n, places) == {n + k : k \in places}

LEMMA OnJoined ==
  ASSUME NEW s, NEW t, Sequence(s), Sequence(t), NEW pid
  PROVE  /\ On(s \o t, pid) = On(s, pid) \cup Shifted(Len(s), On(t, pid))
         /\ On(s, pid) \in SUBSET (1 .. Len(s))
         /\ Shifted(Len(s), On(t, pid)) \in SUBSET (Len(s) + 1 .. Len(s) + Len(t))
<1> DEFINE u == s \o t
           n == Len(s)
           m == Len(t)
<1>1. /\ n \in Nat /\ m \in Nat /\ DOMAIN s = 1 .. n /\ DOMAIN t = 1 .. m
      /\ DOMAIN u = 1 .. n + m
      /\ \A i \in 1 .. n : u[i] = s[i]
      /\ \A i \in 1 .. m : u[n + i] = t[i]
  BY JoinedIs
<1> HIDE DEF u, n, m
<1>2. On(s, pid) \in SUBSET (1 .. n) /\ Shifted(n, On(t, pid)) \in SUBSET (n + 1 .. n + m)
  BY <1>1 DEF On, Shifted
<1>3. ASSUME NEW i \in 1 .. n + m
      PROVE  u[i].pid = pid <=> i \in On(s, pid) \cup Shifted(n, On(t, pid))
  <2>1. CASE i <= n
    <3>1. i \in 1 .. n /\ i \notin Shifted(n, On(t, pid))
      BY <1>1, <1>2, <2>1
    <3> QED
      BY <1>1, <3>1 DEF On
  <2>2. CASE ~(i <= n)
    <3>1. i - n \in 1 .. m /\ i = n + (i - n) /\ i \notin On(s, pid)
      BY <1>1, <1>2, <2>2
    <3>2. u[i] = t[i - n]
      BY <1>1, <3>1
    <3>3. i - n \in On(t, pid) => i \in Shifted(n, On(t, pid))
      BY <3>1 DEF Shifted
    <3>4. ASSUME i \in Shifted(n, On(t, pid))
          PROVE  i - n \in On(t, pid)
      <4>1. PICK k \in On(t, pid) : i = n + k
        BY <3>4 DEF Shifted
      <4>2. k \in 1 .. m
        BY <1>1 DEF On
      <4>3. k = i - n
        BY <1>1, <4>1, <4>2
      <4> QED
        BY <4>3
    <3> QED
      BY <1>1, <3>1, <3>2, <3>3, <3>4 DEF On
  <2> QED
    BY <2>1, <2>2
<1>4. On(u, pid) = On(s, pid) \cup Shifted(n, On(t, pid))
  <2>1. On(u, pid) = {i \in 1 .. n + m : u[i].pid = pid}
    BY <1>1 DEF On
  <2>2. On(s, pid) \cup Shifted(n, On(t, pid)) \subseteq 1 .. n + m
    BY <1>1, <1>2
  <2> QED
    BY <1>3, <2>1, <2>2
<1> QED
  BY <1>2, <1>4 DEF u, n, m

-----------------------------------------------------------------------------
(* What a handler sends: packets on one PID.                               *)

OnlyOn(new, x) == \A k \in DOMAIN new : new[k].pid = x

Emits(f, g, x, new) ==
  /\ Sequence(f.packets) /\ Sequence(new)
  /\ g.packets = f.packets \o new /\ OnlyOn(new, x)

\* Where the packets sent before and the new ones are
Behind(f, g, new) ==
  /\ Len(f.packets) \in Nat /\ Len(new) \in Nat
  /\ DOMAIN f.packets = 1 .. Len(f.packets) /\ DOMAIN new = 1 .. Len(new)
  /\ Len(g.packets) = Len(f.packets) + Len(new)
  /\ DOMAIN g.packets = 1 .. Len(f.packets) + Len(new)
  /\ \A i \in 1 .. Len(f.packets) : g.packets[i] = f.packets[i]
  /\ \A k \in 1 .. Len(new) : g.packets[Len(f.packets) + k] = new[k]

NewPlaces(f, new) == Shifted(Len(f.packets), 1 .. Len(new))

Places(f, g, new, pid, places) ==
  /\ On(f.packets, pid) \in SUBSET (1 .. Len(f.packets))
  /\ places \in SUBSET (Len(f.packets) + 1 .. Len(f.packets) + Len(new))
  /\ On(g.packets, pid) = On(f.packets, pid) \cup places

LEMMA EmitPlaces ==
  ASSUME NEW f, NEW g, NEW x, NEW new, Emits(f, g, x, new)
  PROVE  /\ Behind(f, g, new)
         /\ Places(f, g, new, x, NewPlaces(f, new))
         /\ \A pid : pid # x => Places(f, g, new, pid, {})
<1> DEFINE s == f.packets
           n == Len(s)
           m == Len(new)
<1>1. Sequence(s) /\ Sequence(new) /\ g.packets = s \o new /\ OnlyOn(new, x)
  BY DEF Emits
<1>2. /\ n \in Nat /\ m \in Nat /\ DOMAIN s = 1 .. n /\ DOMAIN new = 1 .. m
      /\ DOMAIN (s \o new) = 1 .. n + m /\ Len(s \o new) = n + m
      /\ \A i \in 1 .. n : (s \o new)[i] = s[i]
      /\ \A i \in 1 .. m : (s \o new)[n + i] = new[i]
  BY <1>1, JoinedIs
<1>3. \A pid : /\ On(s \o new, pid) = On(s, pid) \cup Shifted(n, On(new, pid))
               /\ On(s, pid) \in SUBSET (1 .. n)
  BY <1>1, OnJoined
<1>4. Behind(f, g, new)
  BY <1>1, <1>2 DEF Behind
<1>5. Places(f, g, new, x, NewPlaces(f, new))
  <2>1. On(new, x) = 1 .. m
    BY <1>1, <1>2 DEF On, OnlyOn
  <2>2. Shifted(n, 1 .. m) \in SUBSET (n + 1 .. n + m)
    BY <1>2 DEF Shifted
  <2> HIDE DEF n, m
  <2>3. On(s \o new, x) = On(s, x) \cup Shifted(n, 1 .. m)
    BY <1>3, <2>1
  <2> QED
    BY <1>1, <1>3, <2>2, <2>3 DEF Places, NewPlaces, n, m
<1>6. ASSUME NEW pid, pid # x
      PROVE  Places(f, g, new, pid, {})
  <2>1. Shifted(n, On(new, pid)) = {}
    BY <1>1, <1>6 DEF On, OnlyOn, Shifted
  <2> QED
    BY <1>1, <1>3, <2>1 DEF Places
<1> QED
  BY <1>4, <1>5, <1>6

\* The places before those of the packets sent so far, and before the new ones
OldPrevious(f, g, pid) ==
  \A i \in 1 .. Len(f.packets) + 1 :
    /\ Previous(On(g.packets, pid), i) = Previous(On(f.packets, pid), i)
    /\ Previous(On(f.packets, pid), i) \in 0 .. Len(f.packets)

LastPrevious(f, g, pid) ==
  Previous(On(g.packets, pid), Len(g.packets) + 1) = Previous(On(f.packets, pid), Len(f.packets) + 1)

NewPrevious(f, g, pid, new) ==
  \A k \in 1 .. Len(new) :
    Previous(On(g.packets, pid), Len(f.packets) + k + 1) = Len(f.packets) + k

LEMMA EmitPrevious ==
  ASSUME NEW f, NEW g, NEW x, NEW new, Emits(f, g, x, new)
  PROVE  /\ OldPrevious(f, g, x) /\ NewPrevious(f, g, x, new)
         /\ \A pid : pid # x => OldPrevious(f, g, pid) /\ LastPrevious(f, g, pid)
<1>2. ASSUME NEW pid, NEW T, Places(f, g, new, pid, T)
      PROVE  OldPrevious(f, g, pid)
  <2> DEFINE n == Len(f.packets)
             S == On(f.packets, pid)
  <2>1. /\ n \in Nat /\ Len(new) \in Nat /\ S \in SUBSET (1 .. n)
        /\ T \in SUBSET (n + 1 .. n + Len(new)) /\ On(g.packets, pid) = S \cup T
    BY <1>2, EmitPlaces DEF Behind, Places
  <2> HIDE DEF n, S
  <2>2. T \in SUBSET Nat /\ \A k \in T : k > n
    BY <2>1
  <2>3. ASSUME NEW i \in 1 .. n + 1
        PROVE  Previous(S, i) \in 0 .. n /\ Previous(S \cup T, i) = Previous(S, i)
    <3>1. i \in Nat
      BY <2>1
    <3>2. Previous(S, i) \in 0 .. n
      BY <2>1, <3>1, PreviousIs
    <3>3. Previous(S \cup T, i) = Previous(S, i)
      <4>1. \A k \in T : ~(k < i)
        BY <2>1, <2>2
      <4>2. {k \in S \cup T : k < i} = {k \in S : k < i}
        BY ONLY <4>1
      <4> QED
        BY <4>2 DEF Previous
    <3> QED
      BY <3>2, <3>3
  <2> QED
    BY <2>1, <2>3 DEF OldPrevious, n, S
<1>3. ASSUME NEW pid, pid # x
      PROVE  LastPrevious(f, g, pid)
  <2> DEFINE n == Len(f.packets)
             m == Len(new)
             S == On(f.packets, pid)
  <2>1. /\ n \in Nat /\ m \in Nat /\ S \in SUBSET (1 .. n) /\ Len(g.packets) = n + m
        /\ On(g.packets, pid) = S
    BY <1>3, EmitPlaces DEF Behind, Places
  <2> HIDE DEF n, m, S
  <2>2. Previous(S, n + m + 1) = Previous(S, n + 1)
    <3>1. n + m + 1 \in Nat /\ n + m + 1 > n
      BY <2>1
    <3> QED
      BY <2>1, <3>1, PlaceBehind
  <2> QED
    BY <2>1, <2>2 DEF LastPrevious, n, S
<1>4. NewPrevious(f, g, x, new)
  <2> DEFINE n == Len(f.packets)
             m == Len(new)
             S == On(f.packets, x)
             T == NewPlaces(f, new)
  <2>1. /\ n \in Nat /\ m \in Nat /\ S \in SUBSET (1 .. n) /\ T \in SUBSET (n + 1 .. n + m)
        /\ On(g.packets, x) = S \cup T
    BY EmitPlaces DEF Behind, Places
  <2>2. \A k \in 1 .. m : n + k \in S \cup T
    BY DEF NewPlaces, Shifted
  <2> HIDE DEF n, m, S, T
  <2>3. S \cup T \in SUBSET (1 .. n + m) /\ n + m \in Nat
    BY <2>1
  <2>4. \A j \in S \cup T : Previous(S \cup T, j + 1) = j
    <3> DEFINE U == S \cup T
    <3> HIDE DEF U
    <3>1. \A j \in U : Previous(U, j + 1) = j
      BY <2>3, PlaceNext DEF U
    <3> QED
      BY <3>1 DEF U
  <2> QED
    BY <2>1, <2>2, <2>4 DEF NewPrevious, n, m
<1> QED
  BY <1>2, <1>3, <1>4, EmitPlaces

\* The packet on the PID before the i-th of one sequence is that before the l-th of the other.
SameBefore(out, i, longer, l, pid) ==
  /\ Previous(On(longer, pid), l) = Previous(On(out, pid), i)
  /\ \A j \in {Previous(On(out, pid), i)} : j # 0 => longer[j] = out[j]

SameOn(f, g, pid) ==
  \A i \in On(f.packets, pid) : /\ g.packets[i] = f.packets[i]
                                /\ SameBefore(f.packets, i, g.packets, i, pid)

LEMMA OldBefore ==
  ASSUME NEW f, NEW g, NEW x, NEW new, Emits(f, g, x, new), NEW pid
  PROVE  \A i \in 1 .. Len(f.packets) + 1 : SameBefore(f.packets, i, g.packets, i, pid)
<1> DEFINE n == Len(f.packets)
<1>1. n \in Nat /\ \A i \in 1 .. n : g.packets[i] = f.packets[i]
  BY EmitPlaces DEF Behind
<1>2. OldPrevious(f, g, pid)
  BY EmitPrevious
<1> HIDE DEF n
<1>3. ASSUME NEW i \in 1 .. n + 1
      PROVE  SameBefore(f.packets, i, g.packets, i, pid)
  <2> DEFINE p == Previous(On(f.packets, pid), i)
  <2>1. Previous(On(g.packets, pid), i) = p /\ p \in 0 .. n
    BY <1>2 DEF OldPrevious, n
  <2> HIDE DEF p
  <2>2. p # 0 => g.packets[p] = f.packets[p]
    BY <1>1, <2>1
  <2> QED
    BY <2>1, <2>2 DEF SameBefore, p
<1> QED
  BY <1>3 DEF n

LEMMA OldPlaces ==
  ASSUME NEW f, NEW g, NEW x, NEW new, Emits(f, g, x, new), NEW pid
  PROVE  SameOn(f, g, pid)
<1>1. ASSUME NEW i \in On(f.packets, pid)
      PROVE  g.packets[i] = f.packets[i] /\ i \in 1 .. Len(f.packets) + 1
  <2>1. /\ Len(f.packets) \in Nat /\ i \in 1 .. Len(f.packets)
        /\ \A k \in 1 .. Len(f.packets) : g.packets[k] = f.packets[k]
    BY EmitPlaces DEF Behind, Places
  <2> QED
    BY <2>1
<1> QED
  BY <1>1, OldBefore DEF SameOn

\* Nothing new on this PID
LEMMA OtherBefore ==
  ASSUME NEW f, NEW g, NEW x, NEW new, Emits(f, g, x, new), NEW pid, pid # x
  PROVE  /\ On(g.packets, pid) = On(f.packets, pid)
         /\ SameBefore(f.packets, Len(f.packets) + 1, g.packets, Len(g.packets) + 1, pid)
<1>1. Places(f, g, new, pid, {}) /\ Behind(f, g, new) /\ OldPrevious(f, g, pid) /\ LastPrevious(f, g, pid)
  BY EmitPlaces, EmitPrevious
<1>2. On(g.packets, pid) = On(f.packets, pid)
  BY <1>1 DEF Places
<1> DEFINE n == Len(f.packets)
           p == Previous(On(f.packets, pid), n + 1)
<1>3. n \in Nat /\ \A i \in 1 .. n : g.packets[i] = f.packets[i]
  BY <1>1 DEF Behind
<1>4. n + 1 \in 1 .. n + 1
  BY <1>3
<1>5. p \in 0 .. n /\ Previous(On(g.packets, pid), Len(g.packets) + 1) = p
  BY <1>1, <1>4 DEF OldPrevious, LastPrevious
<1> HIDE DEF n, p
<1>6. p # 0 => g.packets[p] = f.packets[p]
  BY <1>3, <1>5
<1> QED
  BY <1>2, <1>5, <1>6 DEF SameBefore, n, p

\* The new ones on their PID: the first comes after those before, each other after the one
\* before it.
LEMMA NewBefore ==
  ASSUME NEW f, NEW g, NEW x, NEW new, Emits(f, g, x, new)
  PROVE  /\ SameBefore(f.packets, Len(f.packets) + 1, g.packets, Len(f.packets) + 1, x)
         /\ On(g.packets, x) = On(f.packets, x) \cup NewPlaces(f, new)
         /\ \A k \in DOMAIN new : /\ g.packets[Len(f.packets) + k] = new[k]
                                  /\ Len(f.packets) + k # 0
                                  /\ Previous(On(g.packets, x), Len(f.packets) + k + 1) = Len(f.packets) + k
<1>1. Places(f, g, new, x, NewPlaces(f, new)) /\ Behind(f, g, new) /\ NewPrevious(f, g, x, new)
  BY EmitPlaces, EmitPrevious
<1> DEFINE n == Len(f.packets)
<1>2. /\ n \in Nat /\ Len(new) \in Nat /\ DOMAIN new = 1 .. Len(new)
      /\ \A k \in 1 .. Len(new) : g.packets[n + k] = new[k]
  BY <1>1 DEF Behind
<1>3. \A k \in 1 .. Len(new) : Previous(On(g.packets, x), n + k + 1) = n + k
  BY <1>1 DEF NewPrevious
<1>4. SameBefore(f.packets, n + 1, g.packets, n + 1, x)
  <2>1. n + 1 \in 1 .. n + 1
    BY <1>2
  <2> QED
    BY <2>1, OldBefore
<1> HIDE DEF n
<1>5. \A k \in 1 .. Len(new) : n + k # 0
  BY <1>2
<1> QED
  BY <1>1, <1>2, <1>3, <1>4, <1>5 DEF Places, n

\* One new packet
LEMMA OneBefore ==
  ASSUME NEW f, NEW g, NEW x, NEW q, Emits(f, g, x, <<q>>)
  PROVE  /\ SameBefore(f.packets, Len(f.packets) + 1, g.packets, Len(f.packets) + 1, x)
         /\ On(g.packets, x) = On(f.packets, x) \cup {Len(f.packets) + 1}
         /\ g.packets[Len(f.packets) + 1] = q /\ Len(f.packets) \in Nat
         /\ Len(g.packets) = Len(f.packets) + 1
         /\ Previous(On(g.packets, x), Len(g.packets) + 1) = Len(g.packets)
<1> DEFINE new == <<q>>
           n == Len(f.packets)
<1>1. DOMAIN new = {1} /\ new[1] = q /\ Len(new) = 1 /\ 1 .. Len(new) = {1}
  OBVIOUS
<1> HIDE DEF new
<1>2. Emits(f, g, x, new)
  BY DEF new
<1>3. n \in Nat /\ Len(g.packets) = n + 1
  <2>1. Behind(f, g, new)
    BY <1>2, EmitPlaces
  <2> QED
    BY <1>1, <2>1 DEF Behind
<1>4. /\ SameBefore(f.packets, n + 1, g.packets, n + 1, x)
      /\ On(g.packets, x) = On(f.packets, x) \cup NewPlaces(f, new)
      /\ g.packets[n + 1] = new[1] /\ Previous(On(g.packets, x), n + 1 + 1) = n + 1
  BY <1>1, <1>2, NewBefore
<1>5. NewPlaces(f, new) = {n + 1}
  BY <1>1 DEF NewPlaces, Shifted
<1> QED
  BY <1>1, <1>3, <1>4, <1>5

-----------------------------------------------------------------------------
(* Counters.                                                               *)

\* The counter for the k-th of the new packets
CounterDue(f, x, new, k) ==
  IF k = 1 THEN Successor(f.counter[x]) ELSE (new[k - 1].counter + new[k - 1].count) % CounterMod

CountsOn(f, g, x, new) ==
  /\ \A k \in DOMAIN new : new[k].counter = CounterDue(f, x, new, k)
  /\ Successor(g.counter[x]) = CounterDue(f, x, new, Len(new) + 1)

LEMMA CounterSame ==
  ASSUME NEW b, NEW out, NEW i, NEW longer, NEW l, NEW pid, SameBefore(out, i, longer, l, pid)
  PROVE  NextCounter(b, longer, pid, l) = NextCounter(b, out, pid, i)
BY DEF SameBefore, NextCounter

LEMMA CountedOther ==
  ASSUME NEW b, NEW f, NEW g, NEW x, NEW new, Emits(f, g, x, new), NEW pid, pid # x,
         g.counter[pid] = f.counter[pid], CountedOn(b, f, pid)
  PROVE  CountedOn(b, g, pid)
<1>1. /\ On(g.packets, pid) = On(f.packets, pid) /\ SameOn(f, g, pid)
      /\ SameBefore(f.packets, Len(f.packets) + 1, g.packets, Len(g.packets) + 1, pid)
  BY OtherBefore, OldPlaces
<1>2. NextCounter(b, g.packets, pid, Len(g.packets) + 1) = NextCounter(b, f.packets, pid, Len(f.packets) + 1)
  BY <1>1, CounterSame
<1>3. \A i \in On(f.packets, pid) : NextCounter(b, g.packets, pid, i) = NextCounter(b, f.packets, pid, i)
  BY <1>1, CounterSame DEF SameOn
<1> QED
  BY <1>1, <1>2, <1>3 DEF CountedOn, SameOn

LEMMA CountedMore ==
  ASSUME NEW b, NEW f, NEW g, NEW x, NEW new, Emits(f, g, x, new),
         CountsOn(f, g, x, new), CountedOn(b, f, x)
  PROVE  CountedOn(b, g, x)
<1> DEFINE n == Len(f.packets)
           m == Len(new)
<1>1. n \in Nat /\ m \in Nat /\ DOMAIN new = 1 .. m /\ Len(g.packets) = n + m
  BY EmitPlaces DEF Behind
<1>2. /\ SameBefore(f.packets, n + 1, g.packets, n + 1, x) /\ SameOn(f, g, x)
      /\ On(g.packets, x) = On(f.packets, x) \cup Shifted(n, 1 .. m)
      /\ \A k \in 1 .. m : /\ g.packets[n + k] = new[k] /\ n + k # 0
                           /\ Previous(On(g.packets, x), n + k + 1) = n + k
  <2>1. SameOn(f, g, x)
    BY OldPlaces
  <2>2. /\ SameBefore(f.packets, n + 1, g.packets, n + 1, x)
        /\ On(g.packets, x) = On(f.packets, x) \cup NewPlaces(f, new)
        /\ \A k \in DOMAIN new : /\ g.packets[n + k] = new[k] /\ n + k # 0
                                 /\ Previous(On(g.packets, x), n + k + 1) = n + k
    BY NewBefore
  <2>3. NewPlaces(f, new) = Shifted(n, 1 .. m)
    BY DEF NewPlaces
  <2> HIDE DEF n, m
  <2> QED
    BY <1>1, <2>1, <2>2, <2>3
<1>3. NextCounter(b, g.packets, x, n + 1) = Successor(f.counter[x])
  BY <1>2, CounterSame DEF CountedOn
<1> HIDE DEF n, m
<1>4. ASSUME NEW k \in 1 .. m + 1
      PROVE  NextCounter(b, g.packets, x, n + k) = CounterDue(f, x, new, k)
  <2>1. CASE k = 1
    BY <1>3, <2>1 DEF CounterDue
  <2>2. CASE k # 1
    <3> DEFINE j == k - 1
    <3>1. j \in 1 .. m /\ n + k = n + j + 1
      BY <1>1, <1>4, <2>2
    <3>2. NextCounter(b, g.packets, x, n + j + 1) = (new[j].counter + new[j].count) % CounterMod
      BY <1>2, <3>1 DEF NextCounter
    <3> QED
      BY <2>2, <3>1, <3>2 DEF CounterDue
  <2> QED
    BY <2>1, <2>2
<1>5. ASSUME NEW i \in On(g.packets, x)
      PROVE  g.packets[i].counter = NextCounter(b, g.packets, x, i)
  <2>1. CASE i \in On(f.packets, x)
    BY <1>2, <2>1, CounterSame DEF CountedOn, SameOn
  <2>2. CASE i \notin On(f.packets, x)
    <3>1. PICK k \in 1 .. m : i = n + k
      BY <1>2, <2>2 DEF Shifted
    <3>2. k \in 1 .. m + 1
      BY <1>1
    <3> QED
      BY <1>1, <1>2, <1>4, <3>1, <3>2 DEF CountsOn
  <2> QED
    BY <2>1, <2>2
<1>6. Successor(g.counter[x]) = NextCounter(b, g.packets, x, Len(g.packets) + 1)
  <2>1. m + 1 \in 1 .. m + 1 /\ Len(g.packets) + 1 = n + (m + 1)
    BY <1>1
  <2> QED
    BY <1>4, <2>1 DEF CountsOn, m
<1> QED
  BY <1>5, <1>6 DEF CountedOn

-----------------------------------------------------------------------------
(* Versions.                                                               *)

LEMMA TableSame ==
  ASSUME NEW b, NEW out, NEW i, NEW longer, NEW l, NEW x, SameBefore(out, i, longer, l, x)
  PROVE  TableBefore(b, longer, x, l) = TableBefore(b, out, x, i)
BY DEF SameBefore, TableBefore

LEMMA VersionsOther ==
  ASSUME NEW b, NEW f, NEW g, NEW x, NEW new, Emits(f, g, x, new), NEW y, y # x,
         g.last[y] = f.last[y], VersionsOn(b, f, y)
  PROVE  VersionsOn(b, g, y)
<1>1. /\ On(g.packets, y) = On(f.packets, y) /\ SameOn(f, g, y)
      /\ SameBefore(f.packets, Len(f.packets) + 1, g.packets, Len(g.packets) + 1, y)
  BY OtherBefore, OldPlaces
<1>2. TableBefore(b, g.packets, y, Len(g.packets) + 1) = TableBefore(b, f.packets, y, Len(f.packets) + 1)
  BY <1>1, TableSame
<1>3. \A i \in On(f.packets, y) : TableBefore(b, g.packets, y, i) = TableBefore(b, f.packets, y, i)
  BY <1>1, TableSame DEF SameOn
<1> QED
  BY <1>1, <1>2, <1>3 DEF VersionsOn, SameOn

LEMMA VersionsMore ==
  ASSUME NEW b, NEW f, NEW g, NEW x, NEW q, Emits(f, g, x, <<q>>),
         q.table = g.last[x], ToldBy(g.last[x], f.last[x]), VersionsOn(b, f, x)
  PROVE  VersionsOn(b, g, x)
<1> DEFINE n == Len(f.packets)
<1>1. /\ n \in Nat /\ Len(g.packets) = n + 1
      /\ SameBefore(f.packets, n + 1, g.packets, n + 1, x) /\ SameOn(f, g, x)
      /\ On(g.packets, x) = On(f.packets, x) \cup {n + 1}
      /\ g.packets[n + 1] = q /\ Previous(On(g.packets, x), n + 1 + 1) = n + 1
  BY OneBefore, OldPlaces
<1>2. n + 1 # 0
  BY <1>1
<1>3. TableBefore(b, g.packets, x, n + 1) = f.last[x]
  BY <1>1, TableSame DEF VersionsOn
<1>4. TableBefore(b, g.packets, x, n + 1 + 1) = q.table
  BY <1>1, <1>2 DEF TableBefore
<1>5. ASSUME NEW i \in On(g.packets, x)
      PROVE  ToldBy(g.packets[i].table, TableBefore(b, g.packets, x, i))
  <2>1. CASE i \in On(f.packets, x)
    BY <1>1, <2>1, TableSame DEF VersionsOn, SameOn
  <2>2. CASE i = n + 1
    BY <1>1, <1>3, <2>2
  <2> QED
    BY <1>1, <2>1, <2>2
<1> QED
  BY <1>1, <1>4, <1>5 DEF VersionsOn

-----------------------------------------------------------------------------
(* The counters of captions.                                               *)

LEMMA TextSame ==
  ASSUME NEW b, NEW out, NEW i, NEW longer, NEW l, NEW x, SameBefore(out, i, longer, l, x)
  PROVE  CounterBefore(b, longer, x, l) = CounterBefore(b, out, x, i)
BY DEF SameBefore, CounterBefore

LEMMA TextKept ==
  ASSUME NEW b, NEW f, NEW g, NEW x, SameOn(f, g, x), NEW i \in On(f.packets, x)
  PROVE  KeptCounter(b, g.packets, x, i) <=> KeptCounter(b, f.packets, x, i)
<1>1. g.packets[i] = f.packets[i] /\ SameBefore(f.packets, i, g.packets, i, x)
  BY DEF SameOn
<1> QED
  BY <1>1 DEF KeptCounter, SameBefore

LEMMA TextOther ==
  ASSUME NEW b, NEW f, NEW g, NEW x, NEW new, Emits(f, g, x, new), NEW y, y # x,
         g.counter[y] = f.counter[y], TextCounted(b, f, y)
  PROVE  TextCounted(b, g, y)
<1>1. /\ On(g.packets, y) = On(f.packets, y) /\ SameOn(f, g, y)
      /\ SameBefore(f.packets, Len(f.packets) + 1, g.packets, Len(g.packets) + 1, y)
  BY OtherBefore, OldPlaces
<1>2. CounterBefore(b, g.packets, y, Len(g.packets) + 1) = CounterBefore(b, f.packets, y, Len(f.packets) + 1)
  BY <1>1, TextSame
<1>3. ASSUME NEW i \in On(f.packets, y)
      PROVE  /\ g.packets[i] = f.packets[i]
             /\ CounterBefore(b, g.packets, y, i) = CounterBefore(b, f.packets, y, i)
             /\ KeptCounter(b, g.packets, y, i) <=> KeptCounter(b, f.packets, y, i)
  <2>1. g.packets[i] = f.packets[i]
    BY <1>1 DEF SameOn
  <2>2. CounterBefore(b, g.packets, y, i) = CounterBefore(b, f.packets, y, i)
    BY <1>1, <1>3, TextSame DEF SameOn
  <2>3. KeptCounter(b, g.packets, y, i) <=> KeptCounter(b, f.packets, y, i)
    BY Zenon, <1>1, <1>3, TextKept
  <2> QED
    BY <2>1, <2>2, <2>3
<1> QED
  BY <1>1, <1>2, <1>3 DEF TextCounted

\* Nothing went out yet where the counters received are still followed.
Fresh(b, f) ==
  \A x \in TextSlots : f.counter[x] >= CounterMod =>
    b.counter[x] >= CounterMod /\ On(f.packets, x) = {}

TextDue(f, g, x, q) ==
  /\ \/ q.counter = Successor(f.counter[x] % CounterMod)
     \/ q.kind = "text" /\ q.counter = q.unit[1].counter /\ f.counter[x] >= CounterMod
  /\ g.counter[x] % CounterMod = q.counter

LEMMA TextMore ==
  ASSUME NEW b, NEW f, NEW g, NEW x \in TextSlots, NEW q, Emits(f, g, x, <<q>>),
         TextDue(f, g, x, q), TextCounted(b, f, x), Fresh(b, f)
  PROVE  TextCounted(b, g, x)
<1> DEFINE n == Len(f.packets)
<1>1. /\ n \in Nat /\ Len(g.packets) = n + 1
      /\ SameBefore(f.packets, n + 1, g.packets, n + 1, x) /\ SameOn(f, g, x)
      /\ On(g.packets, x) = On(f.packets, x) \cup {n + 1}
      /\ g.packets[n + 1] = q /\ Previous(On(g.packets, x), n + 1 + 1) = n + 1
  BY OneBefore, OldPlaces
<1>2. n + 1 # 0
  BY <1>1
<1>3. CounterBefore(b, g.packets, x, n + 1) = f.counter[x] % CounterMod
  BY <1>1, TextSame DEF TextCounted
<1>4. CounterBefore(b, g.packets, x, n + 1 + 1) = q.counter
  BY <1>1, <1>2 DEF CounterBefore
<1>5. ASSUME NEW i \in On(g.packets, x)
      PROVE  \/ g.packets[i].counter = Successor(CounterBefore(b, g.packets, x, i))
             \/ KeptCounter(b, g.packets, x, i)
  <2>1. CASE i \in On(f.packets, x)
    <3>1. g.packets[i] = f.packets[i]
      BY <1>1, <2>1 DEF SameOn
    <3>2. CounterBefore(b, g.packets, x, i) = CounterBefore(b, f.packets, x, i)
      BY <1>1, <2>1, TextSame DEF SameOn
    <3>3. KeptCounter(b, g.packets, x, i) <=> KeptCounter(b, f.packets, x, i)
      BY Zenon, <1>1, <2>1, TextKept
    <3> QED
      BY <2>1, <3>1, <3>2, <3>3 DEF TextCounted
  <2>2. CASE i = n + 1
    <3>1. CASE q.counter = Successor(f.counter[x] % CounterMod)
      BY <1>1, <1>3, <2>2, <3>1
    <3>2. CASE q.kind = "text" /\ q.counter = q.unit[1].counter /\ f.counter[x] >= CounterMod
      <4>1. b.counter[x] >= CounterMod /\ On(f.packets, x) = {}
        BY <3>2 DEF Fresh
      <4>2. Previous(On(f.packets, x), n + 1) = 0
        <5>1. {} \in SUBSET (1 .. n) /\ n + 1 \in Nat
          BY <1>1
        <5>2. Previous({}, n + 1) = 0
          BY <1>1, <5>1, PreviousOnly
        <5> QED
          BY <4>1, <5>2
      <4>3. Previous(On(g.packets, x), n + 1) = 0
        BY <1>1, <4>2 DEF SameBefore
      <4> QED
        BY <1>1, <2>2, <3>2, <4>1, <4>3 DEF KeptCounter
    <3> QED
      BY <3>1, <3>2 DEF TextDue
  <2> QED
    BY <1>1, <2>1, <2>2
<1> QED
  BY <1>1, <1>4, <1>5 DEF TextCounted, TextDue

-----------------------------------------------------------------------------
(* From one call to the next within a step: what has been sent so far is    *)
(* as it has to be for the filter b before the step.                       *)

Versions(f) == \A x \in {"PAT", "PMT"} : f.last[x].version \in 0 .. VersionMod - 1

Good(b, f) ==
  /\ \A x \in {"PAT", "PMT"} \cup AudioSlots : CountedOn(b, f, x)
  /\ \A x \in {"PAT", "PMT"} : VersionsOn(b, f, x)
  /\ \A x \in TextSlots : TextCounted(b, f, x)
  /\ Versions(f)

\* A call that sends nothing
Keeps(f, g) == g.packets = f.packets /\ g.counter = f.counter /\ g.last = f.last

\* A call that sends on one PID: counters and tables of the others stay.
Adds(f, g, x, new) ==
  /\ Emits(f, g, x, new)
  /\ \A y \in Counted : y # x => g.counter[y] = f.counter[y]
  /\ \A y \in {"PAT", "PMT"} : y # x => g.last[y] = f.last[y]

LEMMA GoodBegins ==
  ASSUME NEW b, NEW f, f.packets = << >>, f.counter = b.counter, f.last = b.last, Versions(b)
  PROVE  Good(b, f) /\ Fresh(b, f)
<1>1. \A x : On(f.packets, x) = {} /\ Previous(On(f.packets, x), Len(f.packets) + 1) = 0
  <2>1. Previous({}, 1) = 0
    <3>1. {} \in SUBSET (1 .. 0) /\ 0 \in Nat /\ 1 \in Nat
      OBVIOUS
    <3> QED
      BY <3>1, PreviousOnly
  <2>2. DOMAIN f.packets = {} /\ Len(f.packets) + 1 = 1
    OBVIOUS
  <2> QED
    BY <2>1, <2>2 DEF On
<1>2. \A x : CountedOn(b, f, x)
  BY <1>1 DEF CountedOn, NextCounter
<1>3. \A x : VersionsOn(b, f, x)
  BY <1>1 DEF VersionsOn, TableBefore
<1>4. \A x : TextCounted(b, f, x)
  BY <1>1 DEF TextCounted, CounterBefore
<1> QED
  BY <1>1, <1>2, <1>3, <1>4 DEF Good, Fresh, Versions

LEMMA GoodKeeps ==
  ASSUME NEW b, NEW f, NEW g, Good(b, f), Keeps(f, g)
  PROVE  Good(b, g) /\ (Fresh(b, f) => Fresh(b, g))
BY DEF Good, Fresh, Keeps, CountedOn, VersionsOn, TextCounted, Versions

LEMMA FreshAdds ==
  ASSUME NEW b, NEW f, NEW g, NEW x, NEW new, Adds(f, g, x, new), Fresh(b, f),
         x \in TextSlots => ~(g.counter[x] >= CounterMod)
  PROVE  Fresh(b, g)
<1>1. ASSUME NEW y \in TextSlots, g.counter[y] >= CounterMod
      PROVE  b.counter[y] >= CounterMod /\ On(g.packets, y) = {}
  <2>1. y # x /\ y \in Counted
    BY <1>1 DEF Counted
  <2>2. On(g.packets, y) = On(f.packets, y)
    BY <2>1, OtherBefore DEF Adds
  <2> QED
    BY <1>1, <2>1, <2>2 DEF Adds, Fresh
<1> QED
  BY <1>1 DEF Fresh

\* What is sent on x does not disturb the others.
LEMMA GoodOthers ==
  ASSUME NEW b, NEW f, NEW g, NEW x, NEW new, Good(b, f), Adds(f, g, x, new)
  PROVE  /\ \A y \in {"PAT", "PMT"} \cup AudioSlots : y # x => CountedOn(b, g, y)
         /\ \A y \in {"PAT", "PMT"} : y # x => VersionsOn(b, g, y) /\ g.last[y].version \in 0 .. VersionMod - 1
         /\ \A y \in TextSlots : y # x => TextCounted(b, g, y)
<1>1. Emits(f, g, x, new)
  BY DEF Adds
<1>2. \A y \in {"PAT", "PMT"} \cup AudioSlots : y # x => CountedOn(b, g, y)
  BY <1>1, CountedOther DEF Good, Adds, Counted
<1>3. \A y \in {"PAT", "PMT"} : y # x => VersionsOn(b, g, y)
  BY <1>1, VersionsOther DEF Good, Adds
<1>4. \A y \in TextSlots : y # x => TextCounted(b, g, y)
  BY <1>1, TextOther DEF Good, Adds, Counted
<1> QED
  BY <1>2, <1>3, <1>4 DEF Good, Versions, Adds

LEMMA GoodAudio ==
  ASSUME NEW b, NEW f, NEW g, NEW a \in AudioSlots, NEW new, Good(b, f), Fresh(b, f),
         Adds(f, g, a, new), CountsOn(f, g, a, new)
  PROVE  Good(b, g) /\ Fresh(b, g)
<1>1. a \notin {"PAT", "PMT"} /\ a \notin TextSlots
  BY DEF AudioSlots, TextSlots
<1>2. CountedOn(b, g, a)
  BY CountedMore DEF Good, Adds
<1>3. Fresh(b, g)
  BY <1>1, FreshAdds
<1> QED
  BY <1>1, <1>2, <1>3, GoodOthers DEF Good, Versions

LEMMA GoodTable ==
  ASSUME NEW b, NEW f, NEW g, NEW x \in {"PAT", "PMT"}, NEW q, Good(b, f), Fresh(b, f),
         Adds(f, g, x, <<q>>), CountsOn(f, g, x, <<q>>), q.table = g.last[x],
         ToldBy(g.last[x], f.last[x]), g.last[x].version \in 0 .. VersionMod - 1
  PROVE  Good(b, g) /\ Fresh(b, g)
<1> DEFINE new == <<q>>
<1>1. x \notin AudioSlots /\ x \notin TextSlots
  BY DEF AudioSlots, TextSlots
<1>2. VersionsOn(b, g, x)
  BY VersionsMore DEF Good, Adds
<1>3. Adds(f, g, x, new) /\ CountsOn(f, g, x, new)
  OBVIOUS
<1> HIDE DEF new
<1>4. CountedOn(b, g, x)
  BY <1>3, CountedMore DEF Good, Adds
<1>5. Fresh(b, g)
  BY <1>1, <1>3, FreshAdds
<1> QED
  BY <1>1, <1>2, <1>3, <1>4, <1>5, GoodOthers DEF Good, Versions

LEMMA GoodText ==
  ASSUME NEW b, NEW f, NEW g, NEW x \in TextSlots, NEW q, Good(b, f), Fresh(b, f),
         Adds(f, g, x, <<q>>), TextDue(f, g, x, q)
  PROVE  Good(b, g) /\ (~(g.counter[x] >= CounterMod) => Fresh(b, g))
<1> DEFINE new == <<q>>
<1>1. x \notin AudioSlots /\ x \notin {"PAT", "PMT"}
  BY DEF AudioSlots, TextSlots
<1>2. TextCounted(b, g, x)
  BY TextMore DEF Good, Adds
<1>3. Adds(f, g, x, new)
  OBVIOUS
<1> HIDE DEF new
<1>4. ~(g.counter[x] >= CounterMod) => Fresh(b, g)
  BY <1>3, FreshAdds
<1> QED
  BY <1>1, <1>2, <1>3, <1>4, GoodOthers DEF Good, Versions

\* A packet on a PID that the filter gives out no counters for
LEMMA GoodPassed ==
  ASSUME NEW b, NEW f, NEW g, NEW x, x \notin Counted, NEW new, Good(b, f), Fresh(b, f),
         Adds(f, g, x, new)
  PROVE  Good(b, g) /\ Fresh(b, g)
<1>1. x \notin {"PAT", "PMT"} /\ x \notin AudioSlots /\ x \notin TextSlots
  BY DEF Counted
<1>2. Fresh(b, g)
  BY <1>1, FreshAdds
<1> QED
  BY <1>1, <1>2, GoodOthers DEF Good, Versions

-----------------------------------------------------------------------------
(* How packets follow those sent before in the step.                       *)

\* More was sent, but nothing of some kinds.
Further(f, g, kinds) ==
  /\ Len(f.packets) \in Nat /\ DOMAIN f.packets = 1 .. Len(f.packets)
  /\ Len(g.packets) \in Nat /\ DOMAIN g.packets = 1 .. Len(g.packets)
  /\ Len(f.packets) <= Len(g.packets)
  /\ \A i \in 1 .. Len(f.packets) : g.packets[i] = f.packets[i]
  /\ \A i \in Len(f.packets) + 1 .. Len(g.packets) : g.packets[i].kind \notin kinds

Marked == {"silence", "management", "text"}

\* Nothing of these was sent, and the clocks stay.
Onward(f, g) == Further(f, g, Marked) /\ g.pts = f.pts /\ g.pcr = f.pcr /\ g.since = f.since

LEMMA FurtherSame ==
  ASSUME NEW f, NEW g, NEW kinds, Sequence(f.packets), g.packets = f.packets
  PROVE  Further(f, g, kinds)
<1> DEFINE s == f.packets
           S == ToSet(s)
<1>1. s \in Seq(S)
  BY DEF Sequence
<1> HIDE DEF S
<1>2. Len(s) \in Nat /\ DOMAIN s = 1 .. Len(s)
  BY <1>1
<1> QED
  BY <1>2 DEF Further

LEMMA FurtherOne ==
  ASSUME NEW f, NEW g, NEW x, NEW q, Emits(f, g, x, <<q>>), NEW kinds, q.kind \notin kinds
  PROVE  Further(f, g, kinds)
<1> DEFINE new == <<q>>
<1>1. DOMAIN new = {1} /\ new[1] = q /\ Len(new) = 1 /\ 1 .. Len(new) = {1}
  OBVIOUS
<1> HIDE DEF new
<1>2. Behind(f, g, new)
  BY EmitPlaces DEF new
<1> DEFINE n == Len(f.packets)
<1>3. /\ n \in Nat /\ DOMAIN f.packets = 1 .. n /\ Len(g.packets) = n + 1
      /\ DOMAIN g.packets = 1 .. n + 1
      /\ \A i \in 1 .. n : g.packets[i] = f.packets[i]
      /\ g.packets[n + 1] = q
  BY <1>1, <1>2 DEF Behind
<1> HIDE DEF n
<1> QED
  BY <1>3 DEF Further, n

LEMMA FurtherTwice ==
  ASSUME NEW f, NEW g, NEW h, NEW kinds, Further(f, g, kinds), Further(g, h, kinds)
  PROVE  Further(f, h, kinds)
<1> DEFINE n == Len(f.packets)
           m == Len(g.packets)
           l == Len(h.packets)
<1>1. /\ n \in Nat /\ DOMAIN f.packets = 1 .. n /\ m \in Nat /\ n <= m
      /\ l \in Nat /\ DOMAIN h.packets = 1 .. l /\ m <= l
      /\ \A i \in 1 .. n : g.packets[i] = f.packets[i]
      /\ \A i \in n + 1 .. m : g.packets[i].kind \notin kinds
      /\ \A i \in 1 .. m : h.packets[i] = g.packets[i]
      /\ \A i \in m + 1 .. l : h.packets[i].kind \notin kinds
  BY DEF Further
<1> HIDE DEF n, m, l
<1>2. \A i \in 1 .. n : h.packets[i] = f.packets[i]
  BY <1>1
<1>3. ASSUME NEW i \in n + 1 .. l
      PROVE  h.packets[i].kind \notin kinds
  <2>1. CASE i <= m
    <3>1. i \in 1 .. m /\ i \in n + 1 .. m
      BY <1>1, <2>1
    <3>2. g.packets[i].kind \notin kinds
      BY <1>1, <3>1
    <3> QED
      BY <1>1, <3>1, <3>2
  <2>2. CASE ~(i <= m)
    <3>1. i \in m + 1 .. l
      BY <1>1, <2>2
    <3> QED
      BY <1>1, <3>1
  <2> QED
    BY <2>1, <2>2
<1> QED
  BY <1>1, <1>2, <1>3 DEF Further, n, l

LEMMA OnwardTwice ==
  ASSUME NEW f, NEW g, NEW h, Onward(f, g), Onward(g, h)
  PROVE  Onward(f, h)
BY FurtherTwice DEF Onward

-----------------------------------------------------------------------------
(* The PES of audio.                                                       *)

LEMMA PesCount ==
  ASSUME NEW c \in Counters, NEW n \in Nat
  PROVE  Successor((c + n) % CounterMod) = (Successor(c) + n) % CounterMod
<1>1. c \in Nat /\ c + n \in Nat /\ c + 1 \in Nat
  BY CounterStays
<1>2. (((c + n) % CounterMod) + 1) % CounterMod = (c + n + 1) % CounterMod
  BY <1>1, CountOn
<1>3. (((c + 1) % CounterMod) + n) % CounterMod = (c + 1 + n) % CounterMod
  BY <1>1, CountOn
<1>4. c + n + 1 = c + 1 + n
  BY <1>1
<1> QED
  BY <1>2, <1>3, <1>4 DEF Successor

\* One packet that counts as n
LEMMA CountsOne ==
  ASSUME NEW f, NEW g, NEW x, NEW q, f.counter[x] \in Counters, q.count \in Nat,
         q.counter = Successor(f.counter[x]), g.counter[x] = (f.counter[x] + q.count) % CounterMod
  PROVE  CountsOn(f, g, x, <<q>>)
<1> DEFINE new == <<q>>
<1>1. DOMAIN new = {1} /\ new[1] = q /\ Len(new) = 1
  OBVIOUS
<1> HIDE DEF new
<1>2. CounterDue(f, x, new, 1) = q.counter
  BY DEF CounterDue
<1>3. CounterDue(f, x, new, 2) = (q.counter + q.count) % CounterMod
  BY <1>1 DEF CounterDue
<1>4. Successor(g.counter[x]) = (q.counter + q.count) % CounterMod
  BY PesCount
<1>5. Len(new) + 1 = 2
  BY <1>1
<1> QED
  BY <1>1, <1>2, <1>3, <1>4, <1>5 DEF CountsOn, new

PesPacket(f, a, kind, unit, n) ==
  [pid |-> a, kind |-> kind, counter |-> Successor(f.counter[a]), count |-> n, unit |-> unit]

LEMMA PesAdds ==
  ASSUME NEW f, State(f), NEW a \in AudioSlots, NEW kind, NEW unit, NEW n \in Nat,
         kind \notin Marked
  PROVE  /\ Adds(f, AddPes(f, a, kind, unit, n), a, <<PesPacket(f, a, kind, unit, n)>>)
         /\ CountsOn(f, AddPes(f, a, kind, unit, n), a, <<PesPacket(f, a, kind, unit, n)>>)
         /\ Onward(f, AddPes(f, a, kind, unit, n))
<1> DEFINE counter == (f.counter[a] + n) % CounterMod
           diff == IF f.pcr # NoTime THEN Past(unit[1].pts, f.pcr) ELSE f.diff[a]
           q == PesPacket(f, a, kind, unit, n)
           new == <<q>>
           g == AddPes(f, a, kind, unit, n)
<1>1. g = [f EXCEPT !.counter[a] = counter, !.diff[a] = diff, !.packets = f.packets \o new]
  BY DEF AddPes, PesPacket, Out, State, Shape, Fields
<1>2. /\ q.pid = a /\ q.kind = kind /\ q.counter = Successor(f.counter[a]) /\ q.count = n
  BY DEF PesPacket
<1> HIDE DEF diff, q, g
<1>3. /\ g.packets = f.packets \o new /\ g.counter = [f.counter EXCEPT ![a] = counter]
      /\ g.last = f.last /\ g.pts = f.pts /\ g.pcr = f.pcr /\ g.since = f.since
  BY <1>1 DEF State, Shape, Fields
<1>4. /\ g.counter[a] = counter /\ \A y \in Counted : y # a => g.counter[y] = f.counter[y]
  BY <1>3 DEF State, Shape, Counted
<1>5. f.counter[a] \in Counters
  BY DEF State, Ranges
<1>6. Sequence(new) /\ OnlyOn(new, a)
  <2>1. DOMAIN new = {1} /\ new[1] = q
    OBVIOUS
  <2> QED
    BY <1>2, <2>1, OneIs DEF OnlyOn
<1>7. CountsOn(f, g, a, new)
  BY <1>2, <1>4, <1>5, CountsOne
<1> HIDE DEF counter
<1>8. Emits(f, g, a, new)
  BY <1>3, <1>6 DEF Emits, State
<1>9. Onward(f, g)
  BY <1>2, <1>3, <1>8, FurtherOne DEF Onward
<1> HIDE DEF new
<1>10. Adds(f, g, a, new)
  BY <1>3, <1>4, <1>8 DEF Adds
<1> QED
  BY <1>7, <1>9, <1>10 DEF g, new, q

\* A call that sends PES of audio
SendsAudio(f, g) ==
  /\ State(g) /\ Onward(f, g)
  /\ \A b : Good(b, f) /\ Fresh(b, f) => Good(b, g) /\ Fresh(b, g)

LEMMA AudioTwice ==
  ASSUME NEW f, NEW g, NEW h, SendsAudio(f, g), SendsAudio(g, h)
  PROVE  SendsAudio(f, h)
BY OnwardTwice DEF SendsAudio

LEMMA AudioKeeps ==
  ASSUME NEW f, NEW g, State(f), State(g), Keeps(f, g), g.pts = f.pts, g.pcr = f.pcr, g.since = f.since
  PROVE  SendsAudio(f, g)
<1>1. Further(f, g, Marked)
  BY FurtherSame DEF State, Keeps
<1> QED
  BY <1>1, GoodKeeps DEF SendsAudio, Onward

LEMMA PesSends ==
  ASSUME NEW f, State(f), NEW a \in AudioSlots, NEW kind \in PesKinds, NEW unit, Collected(unit),
         NEW n \in Nat
  PROVE  SendsAudio(f, AddPes(f, a, kind, unit, n))
<1> DEFINE g == AddPes(f, a, kind, unit, n)
           new == <<PesPacket(f, a, kind, unit, n)>>
<1>1. Adds(f, g, a, new) /\ CountsOn(f, g, a, new) /\ Onward(f, g)
  BY PesAdds DEF PesKinds, Marked
<1>2. State(g)
  BY AddPesIs DEF SendsOne
<1> HIDE DEF g, new
<1>3. ASSUME NEW b, Good(b, f), Fresh(b, f)
      PROVE  Good(b, g) /\ Fresh(b, g)
  BY <1>1, <1>3, GoodAudio
<1> QED
  BY <1>1, <1>2, <1>3 DEF SendsAudio, g

LEMMA Audio1Sends ==
  ASSUME NEW f, State(f), Collected(f.unit["audio1"]), NEW g \in Audio1Pes(f)
  PROVE  SendsAudio(f, g)
<1> DEFINE unit == f.unit["audio1"]
           e == [f EXCEPT !.unit["audio1"] = << >>, !.dualMono = FALSE]
           d == [e EXCEPT !.dualMono = TRUE]
           copy == f.opt.mode["audio2"] = 3 /\ Pid(f, "audio2") = 0
           Sent(h, a) == {AddPes(h, a, "pes", unit, Len(unit))} \cup Stereo(h, a, unit, "audio1")
<1>1. /\ "audio1" \in AudioSlots /\ "audio2" \in AudioSlots
      /\ {"pes", "stereo", "left", "right"} = PesKinds
      /\ Len(unit) \in Nat /\ Len(unit) + 1 \in Nat
  BY DEF AudioSlots, PesKinds, Collected
<1>2. SendsAudio(f, e)
  <2>1. /\ DOMAIN e = Fields /\ e.unit = [f.unit EXCEPT !["audio1"] = << >>]
        /\ e.opt = f.opt /\ e.pat = f.pat /\ e.section = f.section /\ e.es = f.es
        /\ e.pcrPid = f.pcrPid /\ e.last = f.last /\ e.pcr = f.pcr /\ e.dualMono = FALSE
        /\ e.since = f.since /\ e.pts = f.pts /\ e.diff = f.diff /\ e.counter = f.counter
        /\ e.packets = f.packets
    BY DEF State, Shape, Fields
  <2> HIDE DEF e
  <2>2. State(e) /\ Keeps(f, e)
    BY <2>1 DEF State, Shape, Ranges, Keeps
  <2> QED
    BY <2>1, <2>2, AudioKeeps
<1>3. SendsAudio(e, d)
  <2>1. State(e)
    BY <1>2 DEF SendsAudio
  <2> HIDE DEF e
  <2>2. /\ DOMAIN d = Fields /\ d.unit = e.unit /\ d.opt = e.opt /\ d.pat = e.pat
        /\ d.section = e.section /\ d.es = e.es /\ d.pcrPid = e.pcrPid /\ d.last = e.last
        /\ d.pcr = e.pcr /\ d.dualMono = TRUE /\ d.since = e.since /\ d.pts = e.pts
        /\ d.diff = e.diff /\ d.counter = e.counter /\ d.packets = e.packets
    BY <2>1 DEF State, Shape, Fields
  <2> HIDE DEF d
  <2>3. State(d) /\ Keeps(e, d)
    BY <2>1, <2>2 DEF State, Shape, Ranges, Keeps
  <2> QED
    BY <2>1, <2>2, <2>3, AudioKeeps
<1>5. Audio1Pes(f) = DualMono(e, unit) \cup
                     UNION {IF copy THEN Sent(h, "audio2") ELSE {h} : h \in Sent(e, "audio1")}
  BY DEF Audio1Pes
<1>6. Collected(unit)
  OBVIOUS
<1> HIDE DEF unit, e, d
<1>7. ASSUME NEW h, SendsAudio(f, h), NEW a \in AudioSlots, NEW kind \in PesKinds, NEW n \in Nat
      PROVE  SendsAudio(f, AddPes(h, a, kind, unit, n))
  <2>1. State(h)
    BY <1>7 DEF SendsAudio
  <2>2. SendsAudio(h, AddPes(h, a, kind, unit, n))
    BY <1>6, <1>7, <2>1, PesSends
  <2> QED
    BY <1>7, <2>2, AudioTwice
<1>8. ASSUME NEW h, SendsAudio(f, h), NEW a \in AudioSlots, NEW k \in Sent(h, a)
      PROVE  SendsAudio(f, k)
  <2>1. k = AddPes(h, a, "pes", unit, Len(unit)) \/ k = AddPes(h, a, "stereo", unit, Len(unit) + 1)
    BY <1>8 DEF Stereo
  <2> QED
    BY <1>1, <1>7, <1>8, <2>1
<1>9. CASE g \in DualMono(e, unit)
  <2> DEFINE left == AddPes(d, "audio1", "left", unit, Len(unit))
  <2>1. g = left \/ g = AddPes(left, "audio2", "right", unit, Len(unit))
    BY <1>9 DEF DualMono, d
  <2>2. SendsAudio(f, d)
    BY <1>2, <1>3, AudioTwice
  <2>3. SendsAudio(f, left)
    BY <1>1, <1>7, <2>2
  <2> HIDE DEF left
  <2> QED
    BY <1>1, <1>7, <2>1, <2>3
<1>10. CASE g \notin DualMono(e, unit)
  <2>1. PICK h \in Sent(e, "audio1") : g \in IF copy THEN Sent(h, "audio2") ELSE {h}
    BY <1>5, <1>10
  <2>2. SendsAudio(f, h)
    BY <1>1, <1>2, <1>8
  <2> HIDE DEF Sent
  <2> QED
    BY <1>1, <1>8, <2>1, <2>2
<1> QED
  BY <1>9, <1>10

LEMMA Audio2Sends ==
  ASSUME NEW f, State(f), Collected(f.unit["audio2"]), NEW g \in Audio2Pes(f)
  PROVE  SendsAudio(f, g)
<1> DEFINE unit == f.unit["audio2"]
           e == [f EXCEPT !.unit["audio2"] = << >>]
<1>1. /\ "audio2" \in AudioSlots /\ {"pes", "stereo"} \subseteq PesKinds
      /\ Len(unit) \in Nat /\ Len(unit) + 1 \in Nat
  BY DEF AudioSlots, PesKinds, Collected
<1>2. SendsAudio(f, e)
  <2>1. /\ DOMAIN e = Fields /\ e.unit = [f.unit EXCEPT !["audio2"] = << >>]
        /\ e.opt = f.opt /\ e.pat = f.pat /\ e.section = f.section /\ e.es = f.es
        /\ e.pcrPid = f.pcrPid /\ e.last = f.last /\ e.pcr = f.pcr /\ e.dualMono = f.dualMono
        /\ e.since = f.since /\ e.pts = f.pts /\ e.diff = f.diff /\ e.counter = f.counter
        /\ e.packets = f.packets
    BY DEF State, Shape, Fields
  <2> HIDE DEF e
  <2>2. State(e) /\ Keeps(f, e)
    BY <2>1 DEF State, Shape, Ranges, Keeps
  <2> QED
    BY <2>1, <2>2, AudioKeeps
<1>3. Audio2Pes(f) = {AddPes(e, "audio2", "pes", unit, Len(unit))} \cup Stereo(e, "audio2", unit, "audio2")
  BY DEF Audio2Pes
<1>4. Collected(unit)
  OBVIOUS
<1> HIDE DEF unit, e
<1>5. g = AddPes(e, "audio2", "pes", unit, Len(unit)) \/ g = AddPes(e, "audio2", "stereo", unit, Len(unit) + 1)
  BY <1>3 DEF Stereo
<1>6. State(e)
  BY <1>2 DEF SendsAudio
<1>7. SendsAudio(e, g)
  BY <1>1, <1>4, <1>5, <1>6, PesSends
<1> QED
  BY <1>2, <1>7, AudioTwice

LEMMA AudioSends ==
  ASSUME NEW f, State(f), Collecting(f), NEW a \in AudioSlots, NEW p \in PacketSet,
         NEW g \in AddAudio(f, a, p)
  PROVE  SendsAudio(f, g)
<1> DEFINE unit == Accumulated(f.unit[a], p)
           e == [f EXCEPT !.unit[a] = unit]
<1>1. unit \in Seq(PacketSet)
  BY AccumulatedType DEF Collecting
<1>2. AddAudio(f, a, p) = IF ~Whole(e.unit[a]) THEN {e}
                          ELSE IF a = "audio1" THEN Audio1Pes(e) ELSE Audio2Pes(e)
  BY DEF AddAudio
<1> HIDE DEF unit
<1>3. SendsAudio(f, e) /\ e.unit[a] = unit
  <2>1. /\ DOMAIN e = Fields /\ e.unit = [f.unit EXCEPT ![a] = unit]
        /\ e.opt = f.opt /\ e.pat = f.pat /\ e.section = f.section /\ e.es = f.es
        /\ e.pcrPid = f.pcrPid /\ e.last = f.last /\ e.pcr = f.pcr /\ e.dualMono = f.dualMono
        /\ e.since = f.since /\ e.pts = f.pts /\ e.diff = f.diff /\ e.counter = f.counter
        /\ e.packets = f.packets
    BY DEF State, Shape, Fields
  <2> HIDE DEF e
  <2>2. State(e) /\ Keeps(f, e) /\ e.unit[a] = unit
    BY <2>1 DEF State, Shape, Ranges, Keeps
  <2> QED
    BY <2>1, <2>2, AudioKeeps
<1> HIDE DEF e
<1>4. State(e)
  BY <1>3 DEF SendsAudio
<1>5. CASE ~Whole(unit)
  BY <1>2, <1>3, <1>5
<1>6. CASE Whole(unit) /\ a = "audio1"
  <2>1. Collected(e.unit["audio1"]) /\ g \in Audio1Pes(e)
    BY <1>1, <1>2, <1>3, <1>6 DEF Collected, Whole
  <2>2. SendsAudio(e, g)
    BY <1>4, <2>1, Audio1Sends
  <2> QED
    BY <1>3, <2>2, AudioTwice
<1>7. CASE Whole(unit) /\ a = "audio2"
  <2>1. Collected(e.unit["audio2"]) /\ g \in Audio2Pes(e)
    BY <1>1, <1>2, <1>3, <1>7 DEF Collected, Whole
  <2>2. SendsAudio(e, g)
    BY <1>4, <2>1, Audio2Sends
  <2> QED
    BY <1>3, <2>2, AudioTwice
<1> QED
  BY <1>5, <1>6, <1>7 DEF AudioSlots

-----------------------------------------------------------------------------
(* A packet of a stream.                                                   *)

TextPacket(f, x, p) ==
  [pid |-> x, kind |-> "text",
   counter |-> (IF f.counter[x] >= CounterMod THEN Followed(p.counter)
                ELSE Successor(f.counter[x])) % CounterMod,
   count |-> 1, unit |-> <<p>>]

\* Captions go on with the counter sent, or keep theirs.
LEMMA TextAdds ==
  ASSUME NEW f, State(f), NEW x \in TextSlots, NEW p \in PacketSet
  PROVE  /\ Adds(f, AddText(f, x, p), x, <<TextPacket(f, x, p)>>)
         /\ TextDue(f, AddText(f, x, p), x, TextPacket(f, x, p))
         /\ AddText(f, x, p).pts = f.pts /\ AddText(f, x, p).pcr = f.pcr
         /\ AddText(f, x, p).since = [f.since EXCEPT ![x] = f.pcr]
<1> DEFINE counter == IF f.counter[x] >= CounterMod THEN Followed(p.counter)
                      ELSE Successor(f.counter[x])
           q == TextPacket(f, x, p)
           new == <<q>>
           g == AddText(f, x, p)
<1>1. g = [f EXCEPT !.since[x] = f.pcr, !.counter[x] = counter, !.packets = f.packets \o new]
  BY DEF AddText, TextPacket, Out, State, Shape, Fields
<1>2. /\ q.pid = x /\ q.kind = "text" /\ q.counter = counter % CounterMod /\ q.unit[1] = p
  BY DEF TextPacket
<1> HIDE DEF q, g
<1>3. /\ g.packets = f.packets \o new /\ g.counter = [f.counter EXCEPT ![x] = counter]
      /\ g.last = f.last /\ g.pts = f.pts /\ g.pcr = f.pcr /\ g.since = [f.since EXCEPT ![x] = f.pcr]
  BY <1>1 DEF State, Shape, Fields
<1>4. /\ g.counter[x] = counter /\ \A y \in Counted : y # x => g.counter[y] = f.counter[y]
  BY <1>3 DEF State, Shape, Counted
<1>5. f.counter[x] \in 0 .. Unset /\ p.counter \in Counters /\ f.counter[x] \in Nat
  BY Constants DEF State, Ranges, PacketSet, Unset
<1>6. Sequence(new) /\ OnlyOn(new, x)
  <2>1. DOMAIN new = {1} /\ new[1] = q
    OBVIOUS
  <2> QED
    BY <1>2, <2>1, OneIs DEF OnlyOn
<1>7. TextDue(f, g, x, q)
  <2>1. CASE f.counter[x] >= CounterMod
    <3>1. counter = 1 * CounterMod + p.counter
      BY <1>5, <2>1, Constants DEF Followed, Counters
    <3>2. counter % CounterMod = p.counter
      BY <1>5, <3>1, CounterUnique
    <3> QED
      BY <1>2, <1>4, <2>1, <3>2 DEF TextDue
  <2>2. CASE ~(f.counter[x] >= CounterMod)
    <3>1. f.counter[x] \in Counters
      BY <1>5, <2>2, Constants DEF Counters
    <3>2. counter = Successor(f.counter[x]) /\ Successor(f.counter[x]) \in Counters
      BY <1>5, <2>2, Constants DEF Successor, Counters
    <3>3. f.counter[x] % CounterMod = f.counter[x] /\ counter % CounterMod = counter
      BY <3>1, <3>2, CounterStays
    <3> QED
      BY <1>2, <1>4, <3>2, <3>3 DEF TextDue
  <2> QED
    BY <2>1, <2>2
<1> HIDE DEF counter
<1>8. Emits(f, g, x, new)
  BY <1>3, <1>6 DEF Emits, State
<1> HIDE DEF new
<1>9. Adds(f, g, x, new)
  BY <1>3, <1>4, <1>8 DEF Adds
<1> QED
  BY <1>3, <1>7, <1>9 DEF g, new, q

PassedPacket(pid, p) ==
  [pid |-> pid, kind |-> "packet", counter |-> p.counter, count |-> 1, unit |-> <<p>>]

LEMMA PassAdds ==
  ASSUME NEW f, State(f), NEW x, NEW p
  PROVE  Adds(f, Pass(f, x, p), x, <<PassedPacket(x, p)>>) /\ Onward(f, Pass(f, x, p))
<1> DEFINE q == PassedPacket(x, p)
           new == <<q>>
           g == Pass(f, x, p)
<1>1. g = [f EXCEPT !.packets = f.packets \o new]
  BY DEF Pass, PassedPacket, Out, State, Shape, Fields
<1>2. q.pid = x /\ q.kind \notin Marked
  BY DEF PassedPacket, Marked
<1> HIDE DEF q, g
<1>3. /\ g.packets = f.packets \o new /\ g.counter = f.counter
      /\ g.last = f.last /\ g.pts = f.pts /\ g.pcr = f.pcr /\ g.since = f.since
  BY <1>1 DEF State, Shape, Fields
<1>4. Sequence(new) /\ OnlyOn(new, x)
  <2>1. DOMAIN new = {1} /\ new[1] = q
    OBVIOUS
  <2> QED
    BY <1>2, <2>1, OneIs DEF OnlyOn
<1>5. Emits(f, g, x, new)
  BY <1>3, <1>4 DEF Emits, State
<1>6. Onward(f, g)
  BY <1>2, <1>3, <1>5, FurtherOne DEF Onward
<1> HIDE DEF new
<1>7. Adds(f, g, x, new)
  BY <1>3, <1>5 DEF Adds
<1> QED
  BY <1>6, <1>7 DEF g, new, q

KindsOn(out, x) == {out[i].kind : i \in On(out, x)}

\* Captions went out on x.
Spoken(f, g, x) ==
  /\ Further(f, g, {"silence", "management"})
  /\ KindsOn(g.packets, x) = KindsOn(f.packets, x) \cup {"text"}
  /\ \A y \in TextSlots : y # x => KindsOn(g.packets, y) = KindsOn(f.packets, y)
  /\ g.pts = f.pts /\ g.pcr = f.pcr /\ g.since = [f.since EXCEPT ![x] = f.pcr]

LEMMA KindsOther ==
  ASSUME NEW f, NEW g, NEW x, NEW new, Emits(f, g, x, new), NEW y, y # x
  PROVE  KindsOn(g.packets, y) = KindsOn(f.packets, y)
<1>1. On(g.packets, y) = On(f.packets, y) /\ SameOn(f, g, y)
  BY OtherBefore, OldPlaces
<1> QED
  BY <1>1 DEF KindsOn, SameOn

LEMMA KindsMore ==
  ASSUME NEW f, NEW g, NEW x, NEW q, Emits(f, g, x, <<q>>)
  PROVE  KindsOn(g.packets, x) = KindsOn(f.packets, x) \cup {q.kind}
<1> DEFINE n == Len(f.packets)
<1>1. /\ On(g.packets, x) = On(f.packets, x) \cup {n + 1} /\ g.packets[n + 1] = q
      /\ SameOn(f, g, x)
  BY OneBefore, OldPlaces
<1> QED
  BY <1>1 DEF KindsOn, SameOn

\* What a call that sends nothing of some kinds leaves of them
LEMMA KindsFurther ==
  ASSUME NEW f, NEW g, NEW kinds, Further(f, g, kinds), NEW k \in kinds, NEW x
  PROVE  k \in KindsOn(g.packets, x) <=> k \in KindsOn(f.packets, x)
<1> DEFINE n == Len(f.packets)
           m == Len(g.packets)
<1>1. /\ n \in Nat /\ DOMAIN f.packets = 1 .. n /\ m \in Nat /\ n <= m /\ DOMAIN g.packets = 1 .. m
      /\ \A i \in 1 .. n : g.packets[i] = f.packets[i]
      /\ \A i \in n + 1 .. m : g.packets[i].kind \notin kinds
  BY DEF Further
<1> HIDE DEF n, m
<1>2. ASSUME NEW i \in On(f.packets, x), f.packets[i].kind = k
      PROVE  i \in On(g.packets, x) /\ g.packets[i].kind = k
  <2>1. i \in 1 .. n /\ f.packets[i].pid = x
    BY <1>1, <1>2 DEF On
  <2>2. g.packets[i] = f.packets[i] /\ i \in 1 .. m
    BY <1>1, <2>1
  <2> QED
    BY <1>1, <1>2, <2>1, <2>2 DEF On
<1>3. ASSUME NEW i \in On(g.packets, x), g.packets[i].kind = k
      PROVE  i \in On(f.packets, x) /\ f.packets[i].kind = k
  <2>1. i \in 1 .. m /\ g.packets[i].pid = x
    BY <1>1, <1>3 DEF On
  <2>2. i \in 1 .. n
    <3>1. i \notin n + 1 .. m
      BY <1>1, <1>3
    <3> QED
      BY <1>1, <2>1, <3>1
  <2>3. g.packets[i] = f.packets[i]
    BY <1>1, <2>2
  <2> QED
    BY <1>1, <1>3, <2>1, <2>2, <2>3 DEF On
<1> QED
  BY <1>2, <1>3 DEF KindsOn

LEMMA TextSpoken ==
  ASSUME NEW f, State(f), NEW x \in TextSlots, NEW p \in PacketSet
  PROVE  Spoken(f, AddText(f, x, p), x)
<1> DEFINE g == AddText(f, x, p)
           q == TextPacket(f, x, p)
<1>1. /\ Adds(f, g, x, <<q>>) /\ g.pts = f.pts /\ g.pcr = f.pcr
      /\ g.since = [f.since EXCEPT ![x] = f.pcr]
  BY TextAdds
<1>2. q.kind = "text"
  BY DEF TextPacket
<1> HIDE DEF g, q
<1>3. Emits(f, g, x, <<q>>)
  BY <1>1 DEF Adds
<1>4. KindsOn(g.packets, x) = KindsOn(f.packets, x) \cup {"text"}
  BY <1>2, <1>3, KindsMore
<1>5. \A y \in TextSlots : y # x => KindsOn(g.packets, y) = KindsOn(f.packets, y)
  <2> DEFINE new == <<q>>
  <2>1. Emits(f, g, x, new)
    BY <1>3
  <2> HIDE DEF new
  <2> QED
    BY <2>1, KindsOther
<1>6. Further(f, g, {"silence", "management"})
  <2>1. q.kind \notin {"silence", "management"}
    BY <1>2
  <2> QED
    BY <1>3, <2>1, FurtherOne
<1> QED
  BY <1>1, <1>4, <1>5, <1>6 DEF Spoken, g

\* A packet of a stream is held, or sent on.
Dispatched(f, g) ==
  /\ Onward(f, g) \/ \E x \in TextSlots : Spoken(f, g, x)
  /\ \A b : Good(b, f) /\ Fresh(b, f) => Good(b, g)

LEMMA DispatchSends ==
  ASSUME NEW f, State(f), Collecting(f), NEW p \in PacketSet, NEW g \in Dispatch(f, p)
  PROVE  Dispatched(f, g)
<1> DEFINE on == FirstOfSlots(f, p.pid)
<1>1. CASE on \in AudioSlots
  <2>1. g \in AddAudio(f, on, p)
    BY <1>1 DEF Dispatch
  <2> HIDE DEF on
  <2>2. SendsAudio(f, g)
    BY <1>1, <2>1, AudioSends
  <2> QED
    BY <2>2 DEF SendsAudio, Dispatched
<1>2. CASE on \notin AudioSlots
  <2>1. g = IF on \in TextSlots THEN AddText(f, on, p)
            ELSE IF on = "video" THEN Pass(f, "video", p)
            ELSE IF p.pid \in LowPids THEN Pass(f, "low", p)
            ELSE IF NitRef(f.pat) # NoRef /\ p.pid = NitRef(f.pat).pid THEN Pass(f, "NIT", p)
            ELSE f
    BY <1>2 DEF Dispatch
  <2> HIDE DEF on
  <2>2. CASE on \in TextSlots
    <3>1. g = AddText(f, on, p)
      BY <2>1, <2>2
    <3> DEFINE q == TextPacket(f, on, p)
    <3>2. Adds(f, g, on, <<q>>) /\ TextDue(f, g, on, q) /\ Spoken(f, g, on)
      BY <2>2, <3>1, TextAdds, TextSpoken
    <3> HIDE DEF q
    <3>3. \A b : Good(b, f) /\ Fresh(b, f) => Good(b, g)
      BY <2>2, <3>2, GoodText
    <3> QED
      BY <2>2, <3>2, <3>3 DEF Dispatched
  <2>3. ASSUME NEW x, x \notin Counted, g = Pass(f, x, p)
        PROVE  Dispatched(f, g)
    <3> DEFINE new == <<PassedPacket(x, p)>>
    <3>1. Adds(f, g, x, new) /\ Onward(f, g)
      BY <2>3, PassAdds
    <3> HIDE DEF new
    <3>2. \A b : Good(b, f) /\ Fresh(b, f) => Good(b, g)
      BY <2>3, <3>1, GoodPassed
    <3> QED
      BY <3>1, <3>2 DEF Dispatched
  <2>4. CASE g = f
    <3>1. Onward(f, g)
      BY <2>4, FurtherSame DEF Onward, State
    <3> QED
      BY <2>4, <3>1 DEF Dispatched
  <2>5. "video" \notin Counted /\ "low" \notin Counted /\ "NIT" \notin Counted
    BY DEF Counted, AudioSlots, TextSlots
  <2> QED
    BY <2>1, <2>2, <2>3, <2>4, <2>5
<1> QED
  BY <1>1, <1>2

-----------------------------------------------------------------------------
(* Silence.                                                                *)

SilenceTarget(f, a) == Later(f.pcr, f.diff[a])
SilenceFrom(f, a)   == Resume(f.pts[a], SilenceTarget(f, a))
SilenceCount(f, a)  == Frames(SilenceFrom(f, a), SilenceTarget(f, a))

SilencePackets(f, a) ==
  [i \in 1 .. SilenceCount(f, a) |->
     [pid |-> a, kind |-> "silence", counter |-> (f.counter[a] + i) % CounterMod, count |-> 1,
      pts |-> Later(SilenceFrom(f, a), (i - 1) * Frame)]]

\* What frames of silence leave for slot a
Silenced(f, g, a) ==
  /\ g.pts = [f.pts EXCEPT ![a] = Later(SilenceFrom(f, a), SilenceCount(f, a) * Frame)]
  /\ g.pcr = f.pcr /\ g.since = f.since

LEMMA SilenceTimes ==
  ASSUME NEW f, State(f), NEW a \in AudioSlots, f.pcr \in Times, f.diff[a] \in Times
  PROVE  /\ SilenceTarget(f, a) \in Times /\ SilenceFrom(f, a) \in Times
         /\ SilenceCount(f, a) \in Nat
<1>1. SilenceTarget(f, a) \in Times
  <2>1. f.diff[a] \in Nat
    BY Constants DEF Times
  <2> QED
    BY <2>1, ClockIs DEF SilenceTarget
<1>2. SilenceFrom(f, a) \in Times
  BY <1>1 DEF State, Ranges, Resume, SilenceFrom
<1> QED
  BY <1>1, <1>2, FramesIn DEF SilenceCount

LEMMA SilencePacketsAre ==
  ASSUME NEW f, State(f), NEW a \in AudioSlots, SilenceCount(f, a) \in Nat
  PROVE  /\ Sequence(SilencePackets(f, a)) /\ OnlyOn(SilencePackets(f, a), a)
         /\ Len(SilencePackets(f, a)) = SilenceCount(f, a)
         /\ DOMAIN SilencePackets(f, a) = 1 .. SilenceCount(f, a)
         /\ \A k \in 1 .. SilenceCount(f, a) :
              /\ SilencePackets(f, a)[k].kind = "silence" /\ SilencePackets(f, a)[k].count = 1
              /\ SilencePackets(f, a)[k].counter = (f.counter[a] + k) % CounterMod
              /\ SilencePackets(f, a)[k].pts = Later(SilenceFrom(f, a), (k - 1) * Frame)
<1> DEFINE n == SilenceCount(f, a)
           new == SilencePackets(f, a)
<1>1. /\ DOMAIN new = 1 .. n
      /\ \A k \in 1 .. n : /\ new[k].kind = "silence" /\ new[k].count = 1 /\ new[k].pid = a
                           /\ new[k].counter = (f.counter[a] + k) % CounterMod
                           /\ new[k].pts = Later(SilenceFrom(f, a), (k - 1) * Frame)
  BY DEF SilencePackets
<1>2. new \in [1 .. n -> ToSet(new)]
  BY DEF ToSet, SilencePackets
<1> HIDE DEF new, n
<1>3. n \in Nat
  BY DEF n
<1>4. Sequence(new) /\ Len(new) = n
  <2>1. new \in Seq(ToSet(new))
    BY <1>2, <1>3
  <2> QED
    BY <1>1, <1>3, <2>1 DEF Sequence
<1>5. OnlyOn(new, a)
  BY <1>1 DEF OnlyOn
<1> QED
  BY <1>1, <1>4, <1>5 DEF new, n

LEMMA SilenceCounts ==
  ASSUME NEW f, State(f), NEW g, NEW a \in AudioSlots, SilenceCount(f, a) \in Nat,
         g.counter[a] = (f.counter[a] + SilenceCount(f, a)) % CounterMod
  PROVE  CountsOn(f, g, a, SilencePackets(f, a))
<1> DEFINE n == SilenceCount(f, a)
           new == SilencePackets(f, a)
           c == f.counter[a]
<1>1. n \in Nat /\ c \in Counters /\ c \in Nat /\ c % CounterMod = c
  BY CounterStays DEF State, Ranges
<1>2. /\ Len(new) = n /\ DOMAIN new = 1 .. n
      /\ \A k \in 1 .. n : new[k].count = 1 /\ new[k].counter = (c + k) % CounterMod
  BY SilencePacketsAre
<1>3. g.counter[a] = (c + n) % CounterMod
  OBVIOUS
<1> HIDE DEF new, n
<1>4. ASSUME NEW k \in 1 .. n + 1
      PROVE  CounterDue(f, a, new, k) = (c + k) % CounterMod
  <2>1. CASE k = 1
    BY <2>1 DEF CounterDue, Successor
  <2>2. CASE k # 1
    <3> DEFINE j == k - 1
    <3>1. j \in 1 .. n /\ c + j \in Nat /\ c + j + 1 = c + k
      BY <1>1, <1>4, <2>2
    <3>2. CounterDue(f, a, new, k) = (((c + j) % CounterMod) + 1) % CounterMod
      BY <1>2, <2>2, <3>1 DEF CounterDue
    <3> QED
      BY <3>1, <3>2, CountOn
  <2> QED
    BY <2>1, <2>2
<1>5. Successor(g.counter[a]) = (c + (n + 1)) % CounterMod
  <2>1. c + n \in Nat /\ c + n + 1 = c + (n + 1)
    BY <1>1
  <2>2. (((c + n) % CounterMod) + 1) % CounterMod = (c + n + 1) % CounterMod
    BY <2>1, CountOn
  <2> QED
    BY <1>3, <2>1, <2>2 DEF Successor
<1>6. \A k \in 1 .. n : k \in 1 .. n + 1
  BY <1>1
<1>7. n + 1 \in 1 .. n + 1
  BY <1>1
<1> HIDE DEF c
<1>8. \A k \in DOMAIN new : new[k].counter = CounterDue(f, a, new, k)
  BY <1>2, <1>4, <1>6
<1>9. Successor(g.counter[a]) = CounterDue(f, a, new, Len(new) + 1)
  BY <1>2, <1>4, <1>5, <1>7
<1> QED
  BY <1>8, <1>9 DEF CountsOn, new

LEMMA SilenceAdds ==
  ASSUME NEW f, State(f), NEW a \in AudioSlots, f.pcr \in Times, f.diff[a] \in Times
  PROVE  /\ Adds(f, InsertSilence(f, a), a, SilencePackets(f, a))
         /\ CountsOn(f, InsertSilence(f, a), a, SilencePackets(f, a))
         /\ Silenced(f, InsertSilence(f, a), a)
<1> DEFINE n == SilenceCount(f, a)
           new == SilencePackets(f, a)
           counter == (f.counter[a] + n) % CounterMod
           time == Later(SilenceFrom(f, a), n * Frame)
           g == InsertSilence(f, a)
<1>1. g = [f EXCEPT !.pts[a] = time, !.counter[a] = counter, !.packets = f.packets \o new]
  BY DEF InsertSilence, SilencePackets, SilenceCount, SilenceFrom, SilenceTarget, Out, State, Shape, Fields
<1>2. n \in Nat
  BY SilenceTimes
<1>3. Sequence(new) /\ OnlyOn(new, a)
  BY <1>2, SilencePacketsAre
<1> HIDE DEF time, new, g
<1>4. /\ g.packets = f.packets \o new /\ g.counter = [f.counter EXCEPT ![a] = counter]
      /\ g.pts = [f.pts EXCEPT ![a] = time]
      /\ g.last = f.last /\ g.pcr = f.pcr /\ g.since = f.since
  BY <1>1 DEF State, Shape, Fields
<1>5. /\ g.counter[a] = counter /\ \A y \in Counted : y # a => g.counter[y] = f.counter[y]
  BY <1>4 DEF State, Shape, Counted
<1>6. CountsOn(f, g, a, new)
  BY <1>2, <1>5, SilenceCounts DEF new
<1>7. Adds(f, g, a, new)
  BY <1>3, <1>4, <1>5 DEF Adds, Emits, State
<1> QED
  BY <1>4, <1>6, <1>7 DEF Silenced, g, new, time

-----------------------------------------------------------------------------
(* Management packets.                                                     *)

ManagementPacket(f, x) ==
  [pid |-> x, kind |-> "management", counter |-> (f.counter[x] + 1) % CounterMod, count |-> 1]

WatchedIn(f, x) ==
  /\ f.since[x] # NoTime /\ f.opt.insert[x]
  /\ Pid(f, x) # 0 \/ f.opt.mode[x] = 1

Overdue(f, x) == WatchedIn(f, x) /\ Absent(f.pcr, f.since[x])
Manages(f, x) == Overdue(f, x) /\ Plausible(f.pcr, f.since[x])

\* Since when a stream counts as silent after a PCR
SinceThen(f, x) ==
  IF ~WatchedIn(f, x) THEN f.pcr
  ELSE IF Overdue(f, x) THEN NextDue(f.pcr)
  ELSE f.since[x]

ManagedTimes(f, g, x) ==
  /\ g.since[x] = SinceThen(f, x) /\ \A y \in TextSlots : y # x => g.since[y] = f.since[y]
  /\ g.pts = f.pts /\ g.pcr = f.pcr

LEMMA ManageAdds ==
  ASSUME NEW f, State(f), NEW x \in TextSlots
  PROVE  /\ Manages(f, x) =>
              /\ Adds(f, Manage(f, x), x, <<ManagementPacket(f, x)>>)
              /\ TextDue(f, Manage(f, x), x, ManagementPacket(f, x))
              /\ ~(Manage(f, x).counter[x] >= CounterMod)
         /\ ~Manages(f, x) => Keeps(f, Manage(f, x))
         /\ ManagedTimes(f, Manage(f, x), x)
<1> DEFINE counter == (f.counter[x] + 1) % CounterMod
           q == ManagementPacket(f, x)
           new == <<q>>
           g == Manage(f, x)
           since == IF ~WatchedIn(f, x) THEN f.pcr ELSE NextDue(f.pcr)
<1>1. g = IF ~WatchedIn(f, x) THEN [f EXCEPT !.since[x] = f.pcr]
          ELSE IF ~Absent(f.pcr, f.since[x]) THEN f
          ELSE IF Plausible(f.pcr, f.since[x])
               THEN [f EXCEPT !.counter[x] = counter, !.packets = f.packets \o new,
                              !.since[x] = NextDue(f.pcr)]
               ELSE [f EXCEPT !.since[x] = NextDue(f.pcr)]
  BY DEF Manage, WatchedIn, ManagementPacket, Out, State, Shape, Fields
<1>2. /\ q.pid = x /\ q.kind = "management" /\ q.counter = counter
  BY DEF ManagementPacket
<1> HIDE DEF q, g
<1>3. ASSUME NEW t, g = [f EXCEPT !.since[x] = t], SinceThen(f, x) = t
      PROVE  Keeps(f, g) /\ ManagedTimes(f, g, x)
  <2>1. /\ g.since = [f.since EXCEPT ![x] = t] /\ g.packets = f.packets /\ g.counter = f.counter
        /\ g.last = f.last /\ g.pts = f.pts /\ g.pcr = f.pcr
    BY <1>3 DEF State, Shape, Fields
  <2> QED
    BY <1>3, <2>1 DEF Keeps, ManagedTimes, State, Shape
<1>4. ASSUME ~WatchedIn(f, x)
      PROVE  ~Manages(f, x) /\ Keeps(f, g) /\ ManagedTimes(f, g, x)
  BY <1>1, <1>3, <1>4 DEF Manages, Overdue, SinceThen
<1>5. ASSUME WatchedIn(f, x), ~Absent(f.pcr, f.since[x])
      PROVE  ~Manages(f, x) /\ Keeps(f, g) /\ ManagedTimes(f, g, x)
  BY <1>1, <1>5 DEF Manages, Overdue, SinceThen, Keeps, ManagedTimes
<1>6. ASSUME WatchedIn(f, x), Absent(f.pcr, f.since[x]), ~Plausible(f.pcr, f.since[x])
      PROVE  ~Manages(f, x) /\ Keeps(f, g) /\ ManagedTimes(f, g, x)
  BY <1>1, <1>3, <1>6 DEF Manages, Overdue, SinceThen
<1>7. ASSUME WatchedIn(f, x), Absent(f.pcr, f.since[x]), Plausible(f.pcr, f.since[x])
      PROVE  /\ Manages(f, x) /\ Adds(f, g, x, <<q>>) /\ TextDue(f, g, x, q)
             /\ ~(g.counter[x] >= CounterMod) /\ ManagedTimes(f, g, x)
  <2>1. /\ g.packets = f.packets \o new /\ g.counter = [f.counter EXCEPT ![x] = counter]
        /\ g.since = [f.since EXCEPT ![x] = NextDue(f.pcr)]
        /\ g.last = f.last /\ g.pts = f.pts /\ g.pcr = f.pcr
    BY <1>1, <1>7 DEF State, Shape, Fields
  <2>2. /\ g.counter[x] = counter /\ \A y \in Counted : y # x => g.counter[y] = f.counter[y]
    BY <2>1 DEF State, Shape, Counted
  <2>3. f.counter[x] \in Nat
    BY Constants DEF State, Ranges, Unset
  <2>4. counter \in Counters /\ counter = Successor(f.counter[x] % CounterMod)
    <3>1. ((f.counter[x] % CounterMod) + 1) % CounterMod = (f.counter[x] + 1) % CounterMod
      BY <2>3, CountOn
    <3>2. f.counter[x] + 1 \in Nat
      BY <2>3
    <3> QED
      BY <3>1, <3>2, CounterIn DEF Successor
  <2> HIDE DEF counter
  <2>5. counter % CounterMod = counter /\ ~(counter >= CounterMod)
    BY <2>4, CounterStays, Constants DEF Counters
  <2>6. TextDue(f, g, x, q)
    BY <1>2, <2>2, <2>4, <2>5 DEF TextDue
  <2>7. Sequence(new) /\ OnlyOn(new, x)
    <3>1. DOMAIN new = {1} /\ new[1] = q
      OBVIOUS
    <3> QED
      BY <1>2, <3>1, OneIs DEF OnlyOn
  <2> HIDE DEF new
  <2>8. Adds(f, g, x, new)
    BY <2>1, <2>2, <2>7 DEF Adds, Emits, State
  <2>9. ManagedTimes(f, g, x)
    BY <1>7, <2>1 DEF ManagedTimes, SinceThen, Overdue, State, Shape
  <2>10. Manages(f, x)
    BY <1>7 DEF Manages, Overdue
  <2> QED
    BY <2>2, <2>5, <2>6, <2>8, <2>9, <2>10 DEF new
<1> QED
  BY <1>4, <1>5, <1>6, <1>7 DEF g, new, q

LEMMA ManageGood ==
  ASSUME NEW f, State(f), NEW x \in TextSlots, NEW b, Good(b, f), Fresh(b, f)
  PROVE  Good(b, Manage(f, x)) /\ Fresh(b, Manage(f, x))
<1> DEFINE g == Manage(f, x)
           q == ManagementPacket(f, x)
<1>1. /\ Manages(f, x) => Adds(f, g, x, <<q>>) /\ TextDue(f, g, x, q) /\ ~(g.counter[x] >= CounterMod)
      /\ ~Manages(f, x) => Keeps(f, g)
  BY ManageAdds
<1> HIDE DEF g, q
<1>2. CASE Manages(f, x)
  BY <1>1, <1>2, GoodText DEF g
<1>3. CASE ~Manages(f, x)
  BY <1>1, <1>3, GoodKeeps DEF g
<1> QED
  BY <1>2, <1>3

LEMMA SilenceGood ==
  ASSUME NEW f, State(f), NEW a \in AudioSlots, f.pcr \in Times, f.diff[a] \in Times,
         NEW b, Good(b, f), Fresh(b, f)
  PROVE  Good(b, InsertSilence(f, a)) /\ Fresh(b, InsertSilence(f, a))
<1> DEFINE g == InsertSilence(f, a)
           new == SilencePackets(f, a)
<1>1. Adds(f, g, a, new) /\ CountsOn(f, g, a, new)
  BY SilenceAdds
<1> HIDE DEF g, new
<1> QED
  BY <1>1, GoodAudio DEF g

-----------------------------------------------------------------------------
(* A PCR.                                                                  *)

PcrPacket == [pid |-> "PCR", kind |-> "pcr", counter |-> 0, count |-> 0]

Alone(f, p) == ~\E x \in Slots : Pid(f, x) = p.pid

PcrTaken(f, p) ==
  [(IF Alone(f, p) THEN Out(f, <<PcrPacket>>) ELSE f) EXCEPT !.pcr = p.pcr]

LEMMA TakenIs ==
  ASSUME NEW f, State(f), NEW p \in PacketSet, p.pcr \in Times
  PROVE  /\ State(PcrTaken(f, p)) /\ Same(f, PcrTaken(f, p)) /\ PcrTaken(f, p).pcr = p.pcr
         /\ PcrTaken(f, p).pts = f.pts /\ PcrTaken(f, p).diff = f.diff
         /\ PcrTaken(f, p).since = f.since /\ PcrTaken(f, p).dualMono = f.dualMono
         /\ \/ Keeps(f, PcrTaken(f, p))
            \/ Adds(f, PcrTaken(f, p), "PCR", <<PcrPacket>>)
<1> DEFINE new == <<PcrPacket>>
           g == PcrTaken(f, p)
           sent == IF Alone(f, p) THEN f.packets \o new ELSE f.packets
<1>1. g = IF Alone(f, p) THEN [f EXCEPT !.packets = f.packets \o new, !.pcr = p.pcr]
          ELSE [f EXCEPT !.pcr = p.pcr]
  BY DEF PcrTaken, Out, State, Shape, Fields
<1>2. PcrPacket.pid = "PCR"
  BY DEF PcrPacket
<1> HIDE DEF g
<1>3. /\ DOMAIN g = Fields /\ g.pcr = p.pcr /\ g.packets = sent
      /\ g.opt = f.opt /\ g.pat = f.pat /\ g.section = f.section /\ g.es = f.es
      /\ g.pcrPid = f.pcrPid /\ g.last = f.last /\ g.unit = f.unit /\ g.dualMono = f.dualMono
      /\ g.since = f.since /\ g.pts = f.pts /\ g.diff = f.diff /\ g.counter = f.counter
  <2>1. CASE Alone(f, p)
    BY <1>1, <2>1 DEF State, Shape, Fields
  <2>2. CASE ~Alone(f, p)
    BY <1>1, <2>2 DEF State, Shape, Fields
  <2> QED
    BY <2>1, <2>2
<1>4. Sequence(new) /\ OnlyOn(new, "PCR")
  <2>1. DOMAIN new = {1} /\ new[1] = PcrPacket
    OBVIOUS
  <2> QED
    BY <1>2, <2>1, OneIs DEF OnlyOn
<1> HIDE DEF new
<1>5. Sequence(sent)
  BY <1>4, JoinIs DEF State
<1>6. Shape(g) /\ Ranges(g)
  BY <1>3 DEF State, Shape, Ranges
<1>7. CASE Alone(f, p)
  <2>1. Adds(f, g, "PCR", new)
    BY <1>3, <1>4, <1>7 DEF Adds, Emits, State
  <2> QED
    BY <1>3, <1>5, <1>6, <2>1 DEF State, Same, SameTables, g, new
<1>8. CASE ~Alone(f, p)
  <2>1. Keeps(f, g)
    BY <1>3, <1>8 DEF Keeps
  <2> QED
    BY <1>3, <1>5, <1>6, <2>1 DEF State, Same, SameTables, g
<1> QED
  BY <1>7, <1>8

LEMMA TakenGood ==
  ASSUME NEW f, State(f), NEW p \in PacketSet, p.pcr \in Times, NEW b, Good(b, f), Fresh(b, f)
  PROVE  Good(b, PcrTaken(f, p)) /\ Fresh(b, PcrTaken(f, p))
<1> DEFINE g == PcrTaken(f, p)
           new == <<PcrPacket>>
<1>1. Keeps(f, g) \/ Adds(f, g, "PCR", new)
  BY TakenIs
<1>2. "PCR" \notin Counted
  BY DEF Counted, AudioSlots, TextSlots
<1> HIDE DEF g, new
<1> QED
  BY <1>1, <1>2, GoodKeeps, GoodPassed DEF g

\* The second audio starts from the distance measured on the first.
Measured(f) == IF f.diff["audio2"] < 0 THEN f.diff["audio1"] ELSE f.diff["audio2"]
Begun2(f)   == [f EXCEPT !.diff["audio2"] = Measured(f)]

LEMMA BegunIs ==
  ASSUME NEW f, State(f)
  PROVE  /\ State(Begun2(f)) /\ Same(f, Begun2(f)) /\ Begun2(f).diff["audio2"] = Measured(f)
         /\ Measured(f) \in Times
         /\ Begun2(f).pcr = f.pcr /\ Begun2(f).pts = f.pts /\ Begun2(f).since = f.since
         /\ Keeps(f, Begun2(f))
         /\ Silence2(f) = IF NeedsSilence(f, "audio2") THEN InsertSilence(Begun2(f), "audio2") ELSE f
<1> DEFINE diff == Measured(f)
           h == Begun2(f)
<1>1. "audio2" \in AudioSlots /\ diff \in Times
  BY DEF State, Ranges, AudioSlots, Times, Measured
<1>2. Silence2(f) = IF NeedsSilence(f, "audio2") THEN InsertSilence(h, "audio2") ELSE f
  BY <1>1 DEF Silence2, State, Shape, Begun2, Measured
<1>3. /\ DOMAIN h = Fields /\ h.diff = [f.diff EXCEPT !["audio2"] = diff]
      /\ h.opt = f.opt /\ h.pat = f.pat /\ h.section = f.section /\ h.es = f.es
      /\ h.pcrPid = f.pcrPid /\ h.last = f.last /\ h.unit = f.unit /\ h.pcr = f.pcr
      /\ h.dualMono = f.dualMono /\ h.since = f.since /\ h.pts = f.pts
      /\ h.counter = f.counter /\ h.packets = f.packets
  BY DEF Begun2, State, Shape, Fields
<1> HIDE DEF h, diff
<1>4. Shape(h)
  BY <1>3 DEF State, Shape
<1>5. /\ h.diff["audio2"] = diff /\ h.diff["audio1"] = f.diff["audio1"]
      /\ AudioSlots = {"audio1", "audio2"}
  BY <1>1, <1>3 DEF State, Shape, AudioSlots
<1>6. Ranges(h)
  BY <1>1, <1>3, <1>5 DEF State, Ranges
<1> QED
  BY <1>1, <1>2, <1>3, <1>4, <1>5, <1>6 DEF State, Same, SameTables, Keeps, h, diff

LEMMA Silence1Good ==
  ASSUME NEW f, State(f), f.pcr \in Times, NEW b, Good(b, f), Fresh(b, f)
  PROVE  Good(b, Silence1(f)) /\ Fresh(b, Silence1(f))
<1>1. "audio1" \in AudioSlots /\ f.diff["audio1"] \in Times
  BY DEF State, Ranges, AudioSlots
<1> QED
  BY <1>1, SilenceGood DEF Silence1

LEMMA Silence2Good ==
  ASSUME NEW f, State(f), f.pcr \in Times, NEW b, Good(b, f), Fresh(b, f)
  PROVE  Good(b, Silence2(f)) /\ Fresh(b, Silence2(f))
<1> DEFINE h == Begun2(f)
<1>1. "audio2" \in AudioSlots
  BY DEF AudioSlots
<1>2. /\ State(h) /\ h.pcr \in Times /\ h.diff["audio2"] \in Times /\ Keeps(f, h)
      /\ Silence2(f) = IF NeedsSilence(f, "audio2") THEN InsertSilence(h, "audio2") ELSE f
  BY BegunIs
<1> HIDE DEF h
<1>3. Good(b, h) /\ Fresh(b, h)
  BY <1>2, GoodKeeps
<1>4. Good(b, InsertSilence(h, "audio2")) /\ Fresh(b, InsertSilence(h, "audio2"))
  BY <1>1, <1>2, <1>3, SilenceGood
<1> QED
  BY <1>2, <1>4

\* What a PCR goes through
Stage1(f, p) == Silence1(PcrTaken(f, p))
Stage2(f, p) == Silence2(Stage1(f, p))
Stage3(f, p) == Manage(Stage2(f, p), "caption")
Stage4(f, p) == Manage(Stage3(f, p), "superimpose")

Reached(f, p, g) == State(g) /\ Same(f, g) /\ g.pcr = p.pcr /\ g.pcr \in Times

LEMMA StagesAre ==
  ASSUME NEW f, State(f), NEW p \in PacketSet, p.pcr \in Times
  PROVE  /\ AddPcr(f, p) = Stage4(f, p)
         /\ Reached(f, p, PcrTaken(f, p))
         /\ Reached(f, p, Stage1(f, p)) /\ Reached(f, p, Stage2(f, p))
         /\ Reached(f, p, Stage3(f, p)) /\ Reached(f, p, Stage4(f, p))
<1>1. AddPcr(f, p) = Stage4(f, p)
  BY DEF AddPcr, Stage4, Stage3, Stage2, Stage1, PcrTaken, PcrPacket, Alone
<1>2. Reached(f, p, PcrTaken(f, p))
  BY TakenIs DEF Reached
<1>3. ASSUME NEW g, NEW h, Reached(f, p, g), Inserts(g, h)
      PROVE  Reached(f, p, h)
  BY <1>3 DEF Reached, Inserts, Same, SameTables
<1>4. \A g : Reached(f, p, g) => State(g) /\ g.pcr \in Times
  BY DEF Reached
<1>5. "caption" \in TextSlots /\ "superimpose" \in TextSlots
  BY DEF TextSlots
<1>6. Reached(f, p, Stage1(f, p))
  BY <1>2, <1>3, <1>4, Silence1Is DEF Stage1
<1>7. Reached(f, p, Stage2(f, p))
  BY <1>3, <1>4, <1>6, Silence2Is DEF Stage2
<1>8. Reached(f, p, Stage3(f, p))
  BY <1>3, <1>4, <1>5, <1>7, ManageIs DEF Stage3
<1>9. Reached(f, p, Stage4(f, p))
  BY <1>3, <1>4, <1>5, <1>8, ManageIs DEF Stage4
<1> QED
  BY <1>1, <1>2, <1>6, <1>7, <1>8, <1>9

LEMMA PcrGood ==
  ASSUME NEW f, State(f), NEW p \in PacketSet, p.pcr \in Times, NEW b, Good(b, f), Fresh(b, f)
  PROVE  State(AddPcr(f, p)) /\ Good(b, AddPcr(f, p)) /\ Fresh(b, AddPcr(f, p))
<1>1. /\ AddPcr(f, p) = Stage4(f, p)
      /\ Reached(f, p, PcrTaken(f, p))
      /\ Reached(f, p, Stage1(f, p)) /\ Reached(f, p, Stage2(f, p))
      /\ Reached(f, p, Stage3(f, p)) /\ Reached(f, p, Stage4(f, p))
  BY StagesAre
<1>2. \A g : Reached(f, p, g) => State(g) /\ g.pcr \in Times
  BY DEF Reached
<1>3. "caption" \in TextSlots /\ "superimpose" \in TextSlots
  BY DEF TextSlots
<1>4. Good(b, PcrTaken(f, p)) /\ Fresh(b, PcrTaken(f, p))
  BY TakenGood
<1>5. Good(b, Stage1(f, p)) /\ Fresh(b, Stage1(f, p))
  BY <1>1, <1>2, <1>4, Silence1Good DEF Stage1
<1>6. Good(b, Stage2(f, p)) /\ Fresh(b, Stage2(f, p))
  BY <1>1, <1>2, <1>5, Silence2Good DEF Stage2
<1>7. Good(b, Stage3(f, p)) /\ Fresh(b, Stage3(f, p))
  BY <1>1, <1>2, <1>3, <1>6, ManageGood DEF Stage3
<1>8. Good(b, Stage4(f, p)) /\ Fresh(b, Stage4(f, p))
  BY <1>1, <1>2, <1>3, <1>7, ManageGood DEF Stage4
<1> QED
  BY <1>1, <1>2, <1>8

-----------------------------------------------------------------------------
(* Tables.                                                                 *)

\* A packet with tables: nothing else goes out, and silence at most starts anew.
Tabled(f, g) ==
  /\ Further(f, g, Marked) /\ g.since = f.since /\ g.diff = f.diff /\ g.pcr \in {f.pcr, NoTime}
  /\ \A a \in AudioSlots : g.pts[a] \in {f.pts[a], NoTime}
  /\ \A b : Good(b, f) /\ Fresh(b, f) => Good(b, g) /\ Fresh(b, g)

LEMMA TabledTwice ==
  ASSUME NEW f, NEW g, NEW h, Tabled(f, g), Tabled(g, h)
  PROVE  Tabled(f, h)
<1>1. Further(f, h, Marked)
  BY FurtherTwice DEF Tabled
<1> QED
  BY <1>1 DEF Tabled

LEMMA TabledKeeps ==
  ASSUME NEW f, NEW g, State(f), Keeps(f, g), g.since = f.since, g.diff = f.diff,
         g.pcr \in {f.pcr, NoTime},
         \A a \in AudioSlots : g.pts[a] \in {f.pts[a], NoTime}
  PROVE  Tabled(f, g)
<1>1. Further(f, g, Marked)
  BY FurtherSame DEF State, Keeps
<1> QED
  BY <1>1, GoodKeeps DEF Tabled

LEMMA VersionGoesOn ==
  ASSUME NEW v \in 0 .. VersionMod - 1
  PROVE  (v + 1) % VersionMod \in 0 .. VersionMod - 1 /\ (v + 1) % VersionMod # v
<1>1. VersionMod \in Nat \ {0} /\ VersionMod >= 2
  BY VersionAssumption
<1> DEFINE x == v + 1
           r == x % VersionMod
<1>2. x \in 0 .. 2 * VersionMod - 1 /\ x = v + 1
  BY <1>1
<1>3. \A y \in 0 .. 2 * VersionMod - 1 :
        y % VersionMod = IF y < VersionMod THEN y ELSE y - VersionMod
  BY ONLY <1>1, ModIs
<1> HIDE DEF x
<1>4. r = IF x < VersionMod THEN x ELSE x - VersionMod
  BY ONLY <1>2, <1>3
<1> HIDE DEF r
<1>5. r \in 0 .. VersionMod - 1 /\ r # v
  BY <1>1, <1>2, <1>4
<1> QED
  BY <1>5 DEF x, r

LEMMA PublishTold ==
  ASSUME NEW last, NEW content, last.version \in 0 .. VersionMod - 1
  PROVE  /\ ToldBy(Publish(last, content), last)
         /\ Publish(last, content).version \in 0 .. VersionMod - 1
<1> DEFINE v == last.version
           next == (v + 1) % VersionMod
           table == [version |-> next, content |-> content]
<1>1. VersionMod \in Nat \ {0} /\ VersionMod >= 2 /\ v \in 0 .. VersionMod - 1
  BY VersionAssumption
<1>2. next \in 0 .. VersionMod - 1 /\ next # v
  BY ONLY <1>1, VersionGoesOn
<1>3. table.version = next
  OBVIOUS
<1>4. Publish(last, content) = IF last.content = content THEN last ELSE table
  BY DEF Publish
<1> HIDE DEF next, table
<1>5. CASE last.content = content
  BY <1>1, <1>4, <1>5 DEF ToldBy
<1>6. CASE last.content # content
  <2>1. table # last
    BY <1>2, <1>3
  <2> QED
    BY <1>2, <1>3, <1>4, <1>6, <2>1 DEF ToldBy
<1> QED
  BY <1>5, <1>6

\* A table that goes out
SendsTable(f, g, x, q, content) ==
  /\ q.pid = x /\ q.kind = "table" /\ q.count \in Nat /\ q.counter = Successor(f.counter[x])
  /\ q.table = Publish(f.last[x], content)
  /\ g.packets = Append(f.packets, q) /\ g.last = [f.last EXCEPT ![x] = q.table]
  /\ g.counter = [f.counter EXCEPT ![x] = (f.counter[x] + q.count) % CounterMod]
  /\ g.since = f.since /\ g.diff = f.diff /\ g.pts = f.pts /\ g.pcr = f.pcr

LEMMA AppendJoins ==
  ASSUME NEW s, Sequence(s), NEW q
  PROVE  Append(s, q) = s \o <<q>>
<1> DEFINE S == ToSet(s) \cup {q}
<1>1. s \in Seq(S) /\ q \in S
  BY DEF Sequence
<1> HIDE DEF S
<1> QED
  BY <1>1

LEMMA TableSends ==
  ASSUME NEW f, State(f), NEW g, NEW x \in {"PAT", "PMT"}, NEW q, NEW content,
         SendsTable(f, g, x, q, content)
  PROVE  Tabled(f, g)
<1> USE DEF SendsTable
<1> DEFINE new == <<q>>
           n == q.count
<1>1. Sequence(f.packets) /\ x \in Counted /\ f.counter[x] \in Counters
  BY DEF State, Ranges, Counted
<1>2. Append(f.packets, q) = f.packets \o new
  <2>1. Sequence(f.packets)
    BY <1>1
  <2> QED
    BY ONLY <2>1, AppendJoins
<1>3. Sequence(new) /\ OnlyOn(new, x)
  <2>1. DOMAIN new = {1} /\ new[1] = q
    OBVIOUS
  <2> QED
    BY <2>1, OneIs DEF OnlyOn
<1>4. /\ g.last[x] = q.table /\ \A y \in {"PAT", "PMT"} : y # x => g.last[y] = f.last[y]
      /\ g.counter[x] = (f.counter[x] + n) % CounterMod
      /\ \A y \in Counted : y # x => g.counter[y] = f.counter[y]
  BY <1>1 DEF State, Shape, Counted
<1>5. CountsOn(f, g, x, <<q>>)
  BY <1>1, <1>4, CountsOne
<1> HIDE DEF new
<1>6. Adds(f, g, x, new)
  BY <1>1, <1>2, <1>3, <1>4 DEF Adds, Emits
<1>7. Adds(f, g, x, <<q>>) /\ Emits(f, g, x, <<q>>)
  BY <1>6 DEF new, Adds
<1>8. Further(f, g, Marked)
  <2>1. q.kind \notin Marked
    BY DEF Marked
  <2> QED
    BY <1>7, <2>1, FurtherOne
<1>9. ASSUME NEW b, Good(b, f), Fresh(b, f)
      PROVE  Good(b, g) /\ Fresh(b, g)
  <2>1. f.last[x].version \in 0 .. VersionMod - 1
    BY <1>9 DEF Good, Versions
  <2>2. ToldBy(g.last[x], f.last[x]) /\ g.last[x].version \in 0 .. VersionMod - 1
    BY <1>4, <2>1, PublishTold
  <2>3. q.table = g.last[x]
    BY <1>4
  <2> HIDE DEF SendsTable
  <2> QED
    BY <1>5, <1>7, <1>9, <2>2, <2>3, GoodTable
<1> QED
  BY <1>8, <1>9 DEF Tabled

LEMMA AddPatTabled ==
  ASSUME NEW f, State(f)
  PROVE  Tabled(f, AddPat(f))
<1> DEFINE content == [program |-> TargetRef(f.opt, f.pat).program,
                       nit     |-> NitRef(f.pat) # NoRef]
           q == [pid |-> "PAT", kind |-> "table", counter |-> Successor(f.counter["PAT"]),
                 count |-> 1, table |-> Publish(f.last["PAT"], content)]
           g == AddPat(f)
<1>1. g = [f EXCEPT !.last["PAT"] = Publish(f.last["PAT"], content),
                    !.counter["PAT"] = Successor(f.counter["PAT"]),
                    !.packets = Append(f.packets, q)]
  BY DEF AddPat, State, Shape, Fields
<1>2. /\ q.pid = "PAT" /\ q.kind = "table" /\ q.count = 1
      /\ q.counter = Successor(f.counter["PAT"]) /\ q.table = Publish(f.last["PAT"], content)
  OBVIOUS
<1> HIDE DEF q, g, content
<1>3. /\ g.last = [f.last EXCEPT !["PAT"] = Publish(f.last["PAT"], content)]
      /\ g.counter = [f.counter EXCEPT !["PAT"] = Successor(f.counter["PAT"])]
      /\ g.packets = Append(f.packets, q)
      /\ g.since = f.since /\ g.diff = f.diff /\ g.pts = f.pts /\ g.pcr = f.pcr
  BY <1>1 DEF State, Shape, Fields
<1>4. Successor(f.counter["PAT"]) = (f.counter["PAT"] + 1) % CounterMod
  BY DEF Successor
<1>5. SendsTable(f, g, "PAT", q, content)
  BY <1>2, <1>3, <1>4 DEF SendsTable
<1> QED
  BY <1>5, TableSends DEF g

LEMMA AnnounceTabled ==
  ASSUME NEW f, State(f), NEW s \in Sections
  PROVE  Tabled(f, Announce(f, s))
<1> DEFINE content == [program |-> s.program, parts |-> s.parts, pcr |-> PcrSlot(f),
                       streams |-> [x \in Listed(f) |-> Entry(f, x)]]
           q == [pid |-> "PMT", kind |-> "table", counter |-> Successor(f.counter["PMT"]),
                 count |-> s.parts, table |-> Publish(f.last["PMT"], content)]
           n == s.parts
           g == Announce(f, s)
<1>1. g = [f EXCEPT !.last["PMT"] = Publish(f.last["PMT"], content),
                    !.counter["PMT"] = (f.counter["PMT"] + n) % CounterMod,
                    !.packets = Append(f.packets, q)]
  BY DEF Announce, State, Shape, Fields
<1>2. /\ q.pid = "PMT" /\ q.kind = "table" /\ q.count = n /\ n \in Nat
      /\ q.counter = Successor(f.counter["PMT"]) /\ q.table = Publish(f.last["PMT"], content)
  BY SectionAssumption
<1> HIDE DEF q, g, content, n
<1>3. /\ g.last = [f.last EXCEPT !["PMT"] = Publish(f.last["PMT"], content)]
      /\ g.counter = [f.counter EXCEPT !["PMT"] = (f.counter["PMT"] + n) % CounterMod]
      /\ g.packets = Append(f.packets, q)
      /\ g.since = f.since /\ g.diff = f.diff /\ g.pts = f.pts /\ g.pcr = f.pcr
  BY <1>1 DEF State, Shape, Fields
<1>4. SendsTable(f, g, "PMT", q, content)
  BY <1>2, <1>3 DEF SendsTable
<1> QED
  BY <1>4, TableSends DEF g

LEMMA AddPmtTabled ==
  ASSUME NEW f, State(f), NEW s \in Sections
  PROVE  Tabled(f, AddPmt(f, s))
<1> DEFINE g == [f EXCEPT !.pcrPid = s.pcrPid,
                          !.pcr = IF s.pcrPid = NullPid THEN NoTime ELSE f.pcr]
           h == Select(g, s)
<1>1. AddPmt(f, s) = IF s.fits THEN Announce(h, s) ELSE g
  BY DEF AddPmt, State, Shape, Fields
<1>2. /\ DOMAIN g = Fields /\ g.pcrPid = s.pcrPid
      /\ g.pcr = (IF s.pcrPid = NullPid THEN NoTime ELSE f.pcr)
      /\ g.opt = f.opt /\ g.pat = f.pat /\ g.section = f.section /\ g.last = f.last
      /\ g.es = f.es /\ g.dualMono = f.dualMono
      /\ g.since = f.since /\ g.pts = f.pts /\ g.diff = f.diff
      /\ g.counter = f.counter /\ g.unit = f.unit /\ g.packets = f.packets
  BY DEF State, Shape, Fields
<1> HIDE DEF g
<1>3. State(g)
  <2>1. Shape(g) /\ Ranges(g)
    BY <1>2 DEF State, Shape, Ranges
  <2> QED
    BY <1>2, <2>1 DEF State
<1>4. Tabled(f, g)
  BY <1>2, TabledKeeps DEF Keeps
<1>5. State(h)
  BY <1>3, SelectIs
<1>6. /\ h.packets = g.packets /\ h.counter = g.counter /\ h.last = g.last
      /\ h.since = g.since /\ h.diff = g.diff /\ h.pcr = g.pcr
      /\ h.pts = [a \in AudioSlots |->
                    IF Selection(g.opt, s)[a].pid # Pid(g, a) THEN NoTime ELSE g.pts[a]]
  BY <1>3 DEF Select, State, Shape, Fields
<1> HIDE DEF h
<1>7. Tabled(g, h)
  BY <1>3, <1>6, TabledKeeps DEF Keeps
<1>8. Tabled(f, Announce(h, s))
  BY <1>4, <1>5, <1>7, AnnounceTabled, TabledTwice
<1> QED
  BY <1>1, <1>4, <1>8

LEMMA ExtractedTabled ==
  ASSUME NEW f, State(f), NEW s \in Sections \cup {NoSection}
  PROVE  Tabled(f, Extracted(f, s))
<1> DEFINE g == [f EXCEPT !.section = s]
<1>1. Extracted(f, s) = IF s = NoSection THEN g ELSE AddPmt(g, s)
  BY DEF Extracted
<1>2. /\ DOMAIN g = Fields /\ g.section = s
      /\ g.opt = f.opt /\ g.pat = f.pat /\ g.last = f.last /\ g.pcrPid = f.pcrPid
      /\ g.es = f.es /\ g.dualMono = f.dualMono /\ g.pcr = f.pcr
      /\ g.since = f.since /\ g.pts = f.pts /\ g.diff = f.diff
      /\ g.counter = f.counter /\ g.unit = f.unit /\ g.packets = f.packets
  BY DEF State, Shape, Fields
<1> HIDE DEF g
<1>3. State(g)
  <2>1. Shape(g) /\ Ranges(g)
    BY <1>2 DEF State, Shape, Ranges
  <2> QED
    BY <1>2, <2>1 DEF State
<1>4. Tabled(f, g)
  BY <1>2, TabledKeeps DEF Keeps
<1>5. s # NoSection => Tabled(f, AddPmt(g, s))
  BY <1>3, <1>4, AddPmtTabled, TabledTwice
<1> QED
  BY <1>1, <1>4, <1>5

-----------------------------------------------------------------------------
(* Steps.                                                                  *)

ClearedFields ==
  /\ Cleared.packets = << >> /\ Cleared.counter = filter.counter /\ Cleared.last = filter.last
  /\ Cleared.since = filter.since /\ Cleared.diff = filter.diff /\ Cleared.pts = filter.pts
  /\ Cleared.opt = filter.opt /\ Cleared.es = filter.es /\ Cleared.pcr = filter.pcr
  /\ Cleared.dualMono = filter.dualMono /\ Cleared.unit = filter.unit

LEMMA ClearedHolds ==
  ASSUME State(filter)
  PROVE  State(Cleared) /\ ClearedFields
<1>1. ClearedFields
  BY DEF Cleared, ClearedFields, State, Shape, Fields
<1> QED
  BY <1>1, ClearedIs

LEMMA PatTabled ==
  ASSUME State(filter), PatPacket
  PROVE  Tabled(Cleared, filter')
<1>1. PICK pat \in Pats \cup {filter.pat}, unitStart \in BOOLEAN :
        filter' = LET f == [Cleared EXCEPT !.pat = pat]
                  IN  IF ~HasTarget(f) THEN Deselect(f) ELSE IF unitStart THEN AddPat(f) ELSE f
  BY DEF PatPacket
<1>2. State(Cleared)
  BY ClearedIs
<1> DEFINE f == [Cleared EXCEPT !.pat = pat]
           d == Deselect(f)
<1>3. /\ DOMAIN f = Fields /\ f.pat = pat /\ f.packets = Cleared.packets
      /\ f.opt = Cleared.opt /\ f.section = Cleared.section /\ f.last = Cleared.last
      /\ f.es = Cleared.es /\ f.pcrPid = Cleared.pcrPid
      /\ f.pcr = Cleared.pcr /\ f.dualMono = Cleared.dualMono
      /\ f.since = Cleared.since /\ f.pts = Cleared.pts /\ f.diff = Cleared.diff
      /\ f.counter = Cleared.counter /\ f.unit = Cleared.unit
  BY <1>2 DEF State, Shape, Fields
<1>4. filter' = IF ~HasTarget(f) THEN d ELSE IF unitStart THEN AddPat(f) ELSE f
  BY <1>1
<1> HIDE DEF f
<1>5. pat \in Pats \cup {<< >>}
  BY DEF State, Ranges
<1>6. State(f)
  <2>1. Shape(f) /\ Ranges(f)
    BY <1>2, <1>3, <1>5 DEF State, Shape, Ranges
  <2> QED
    BY <1>2, <1>3, <2>1 DEF State
<1>7. Tabled(Cleared, f)
  BY <1>2, <1>3, TabledKeeps DEF Keeps
<1>8. Tabled(Cleared, AddPat(f))
  BY <1>6, <1>7, AddPatTabled, TabledTwice
<1>9. Tabled(Cleared, d)
  <2>1. /\ d.packets = f.packets /\ d.counter = f.counter /\ d.last = f.last
        /\ d.since = f.since /\ d.diff = f.diff /\ d.pts = f.pts /\ d.pcr = NoTime
    BY <1>6 DEF Deselect, State, Shape, Fields
  <2> HIDE DEF d
  <2>2. Tabled(f, d)
    BY <1>6, <2>1, TabledKeeps DEF Keeps
  <2> QED
    BY <1>7, <2>2, TabledTwice
<1> HIDE DEF d
<1> QED
  BY <1>4, <1>7, <1>8, <1>9

LEMMA PmtTabled ==
  ASSUME State(filter), TablesOK(filter), PmtPacket
  PROVE  Tabled(Cleared, filter')
<1>1. State(Cleared) /\ Same(filter, Cleared) /\ OnlyTables(Cleared.packets)
  BY ClearedIs, NoneIs DEF OnlyTables
<1>2. TablesOK(Cleared) /\ HasTarget(Cleared)
  BY <1>1, SameTablesOK DEF PmtPacket, Same, SameTables, HasTarget
<1>3. PICK first \in Sections \cup {filter.section, NoSection} :
        \/ filter' = Extracted(Cleared, first)
        \/ \E second \in Sections \cup {NoSection} :
             filter' = Extracted(Extracted(Cleared, first), second)
  BY DEF PmtPacket
<1>4. first \in Sections \cup {NoSection}
  BY <1>3 DEF State, Ranges
<1> DEFINE f == Extracted(Cleared, first)
<1>5. TablesSent(Cleared, f) /\ Tabled(Cleared, f)
  BY <1>1, <1>2, <1>4, ExtractedIs, ExtractedTabled
<1> HIDE DEF f
<1>6. State(f)
  BY <1>5 DEF TablesSent
<1>7. ASSUME NEW second \in Sections \cup {NoSection}
      PROVE  Tabled(Cleared, Extracted(f, second))
  BY <1>5, <1>6, ExtractedTabled, TabledTwice
<1> QED
  BY <1>3, <1>5, <1>7 DEF f

\* The filter when a packet has been looked at for its PCR
AfterPcr(p) == IF p.pid = filter.pcrPid /\ p.pcr # NoTime THEN AddPcr(Cleared, p) ELSE Cleared

LEMMA StreamSends ==
  ASSUME State(filter), Collecting(filter), NEW p \in PacketSet, StreamPacket(p)
  PROVE  \/ ~HasTarget(filter) /\ Tabled(Cleared, filter')
         \/ HasTarget(filter) /\ State(AfterPcr(p)) /\ Dispatched(AfterPcr(p), filter')
<1>1. State(Cleared) /\ ClearedFields /\ Same(filter, Cleared)
  BY ClearedHolds, ClearedIs
<1>2. CASE ~HasTarget(filter)
  <2>1. filter' = Cleared
    BY <1>2 DEF StreamPacket
  <2>2. Tabled(Cleared, Cleared)
    BY <1>1, TabledKeeps DEF Keeps
  <2> QED
    BY <1>2, <2>1, <2>2
<1>3. CASE HasTarget(filter)
  <2> DEFINE f == AfterPcr(p)
  <2>1. filter' \in Dispatch(f, p)
    BY <1>3 DEF StreamPacket, AfterPcr
  <2>2. State(f) /\ Collecting(f)
    <3>1. CASE p.pid = filter.pcrPid /\ p.pcr # NoTime
      <4>1. p.pcr \in Times
        BY <3>1 DEF PacketSet
      <4>2. Reached(Cleared, p, Stage4(Cleared, p)) /\ AddPcr(Cleared, p) = Stage4(Cleared, p)
        BY <1>1, <4>1, StagesAre
      <4> QED
        BY <1>1, <3>1, <4>2 DEF Reached, AfterPcr, Same, Collecting
    <3>2. CASE ~(p.pid = filter.pcrPid /\ p.pcr # NoTime)
      BY <1>1, <3>2 DEF AfterPcr, Same, Collecting
    <3> QED
      BY <3>1, <3>2
  <2> HIDE DEF f
  <2>3. Dispatched(f, filter')
    BY <2>1, <2>2, DispatchSends
  <2> QED
    BY <1>3, <2>2, <2>3 DEF f
<1> QED
  BY <1>2, <1>3

LEMMA StreamGood ==
  ASSUME State(filter), Collecting(filter), Versions(filter), NEW p \in PacketSet, StreamPacket(p)
  PROVE  Good(filter, filter')
<1>1. State(Cleared) /\ ClearedFields
  BY ClearedHolds
<1>2. Good(filter, Cleared) /\ Fresh(filter, Cleared)
  BY <1>1, GoodBegins DEF ClearedFields
<1>3. CASE Tabled(Cleared, filter')
  BY <1>2, <1>3 DEF Tabled
<1>4. CASE Dispatched(AfterPcr(p), filter')
  <2>1. Good(filter, AfterPcr(p)) /\ Fresh(filter, AfterPcr(p))
    <3>1. CASE p.pid = filter.pcrPid /\ p.pcr # NoTime
      <4>1. p.pcr \in Times
        BY <3>1 DEF PacketSet
      <4> QED
        BY <1>1, <1>2, <3>1, <4>1, PcrGood DEF AfterPcr
    <3>2. CASE ~(p.pid = filter.pcrPid /\ p.pcr # NoTime)
      BY <1>2, <3>2 DEF AfterPcr
    <3> QED
      BY <3>1, <3>2
  <2> QED
    BY <1>4, <2>1 DEF Dispatched
<1> QED
  BY <1>3, <1>4, StreamSends

\* Which packets the steps of the filter take
LEMMA StepIs ==
  ASSUME Inv, Next
  PROVE  \/ Tabled(Cleared, filter') /\ clock' = clock
         \/ \E p \in PacketSet : StreamPacket(p) /\ (clock' # clock => p.pcr = clock' /\ p.pid = filter.pcrPid)
<1>1. State(filter) /\ TablesOK(filter) /\ SourceOK /\ clock \in Times
  BY DEF Inv
<1>2. CASE PatPacket
  BY <1>1, <1>2, PatTabled DEF PatPacket
<1>3. CASE PmtPacket
  BY <1>1, <1>3, PmtTabled DEF PmtPacket
<1>4. ASSUME NEW pid \in Pids, Receive(pid)
      PROVE  \E p \in PacketSet : StreamPacket(p) /\ (clock' # clock => p.pcr = clock' /\ p.pid = filter.pcrPid)
  <2>1. PICK p \in Following(pid) : \E pt \in Timed(p) : clock' = pt[2] /\ StreamPacket(pt[1])
    BY <1>4 DEF Receive
  <2>2. PICK pt \in Timed(p) : clock' = pt[2] /\ StreamPacket(pt[1])
    BY <2>1
  <2>3. p \in PacketSet
    BY <1>1, FollowingIs
  <2>4. pt[1] \in PacketSet
    BY <1>1, <2>3, TimedIs
  <2>5. clock' # clock => pt[1].pcr = clock' /\ pt[1].pid = filter.pcrPid
    <3>1. CASE pt = <<p, clock>>
      <4>1. pt[2] = clock
        BY <3>1
      <4> QED
        BY <2>2, <4>1
    <3>2. ASSUME NEW d \in IF p.pid = filter.pcrPid THEN Steps ELSE {},
                 pt = <<[p EXCEPT !.pcr = Later(clock, d)], Later(clock, d)>>
          PROVE  pt[1].pcr = pt[2] /\ pt[1].pid = filter.pcrPid
      <4>1. pt[1] = [p EXCEPT !.pcr = Later(clock, d)] /\ pt[2] = Later(clock, d) /\ p.pid = filter.pcrPid
        BY <3>2
      <4>2. [p EXCEPT !.pcr = Later(clock, d)].pcr = Later(clock, d)
        BY <2>3 DEF PacketSet
      <4>3. [p EXCEPT !.pcr = Later(clock, d)].pid = p.pid
        BY <2>3 DEF PacketSet
      <4> QED
        BY <4>1, <4>2, <4>3
    <3>3. \/ pt = <<p, clock>>
          \/ \E d \in IF p.pid = filter.pcrPid THEN Steps ELSE {} :
               pt = <<[p EXCEPT !.pcr = Later(clock, d)], Later(clock, d)>>
      BY DEF Timed
    <3> QED
      BY <2>2, <3>1, <3>2, <3>3
  <2> QED
    BY <2>2, <2>4, <2>5
<1>5. ASSUME NEW pid \in Pids, Lose(pid)
      PROVE  Tabled(Cleared, filter') /\ clock' = clock
  <2>1. State(Cleared) /\ ClearedFields
    BY <1>1, ClearedHolds
  <2>2. Tabled(Cleared, Cleared)
    BY <2>1, TabledKeeps DEF Keeps
  <2> QED
    BY <1>5, <2>2 DEF Lose
<1>6. ASSUME NEW pid \in Pids, Again(pid)
      PROVE  \E p \in PacketSet : StreamPacket(p) /\ (clock' # clock => p.pcr = clock' /\ p.pid = filter.pcrPid)
  <2>1. PICK p \in OnceMore(source[pid].last) : StreamPacket(p)
    BY <1>6 DEF Again, OnceMore
  <2>2. p \in PacketSet
    BY <1>1, AgainIs
  <2>3. clock' = clock
    BY <1>6 DEF Again
  <2> QED
    BY <2>1, <2>2, <2>3
<1> QED
  BY <1>2, <1>3, <1>4, <1>5, <1>6 DEF Next

LEMMA GoodStep ==
  ASSUME Inv, Versions(filter), Next
  PROVE  Good(filter, filter')
<1>1. State(filter) /\ Collecting(filter)
  BY DEF Inv
<1>2. CASE Tabled(Cleared, filter')
  <2>1. State(Cleared) /\ ClearedFields
    BY <1>1, ClearedHolds
  <2>2. Good(filter, Cleared) /\ Fresh(filter, Cleared)
    BY <2>1, GoodBegins DEF ClearedFields
  <2> QED
    BY <1>2, <2>2 DEF Tabled
<1>3. ASSUME NEW p \in PacketSet, StreamPacket(p)
      PROVE  Good(filter, filter')
  BY <1>1, <1>3, StreamGood
<1> QED
  BY <1>2, <1>3, StepIs

CountInv == Inv /\ Versions(filter)

LEMMA CountAlways ==
  Spec => []CountInv /\ [][Good(filter, filter')]_vars
<1>1. Init => CountInv
  <2>1. ASSUME Init
        PROVE  Versions(filter)
    <3>1. filter.last = [x \in {"PAT", "PMT"} |-> NoTable]
      BY <2>1 DEF Init
    <3> QED
      BY <3>1, VersionAssumption DEF Versions, NoTable
  <2> QED
    BY <2>1, InvInit DEF CountInv
<1>2. CountInv /\ [Next]_vars => CountInv' /\ [Good(filter, filter')]_vars
  <2>1. ASSUME CountInv, Next
        PROVE  CountInv' /\ Good(filter, filter')
    <3>1. Good(filter, filter') /\ Inv'
      BY <2>1, GoodStep, InvStep DEF CountInv
    <3> QED
      BY <3>1 DEF Good, CountInv, Versions
  <2>2. ASSUME CountInv, UNCHANGED vars
        PROVE  CountInv'
    BY <2>2, InvUnchanged DEF CountInv, Versions, vars
  <2> QED
    BY <2>1, <2>2
<1> QED
  BY <1>1, <1>2, PTL DEF Spec

\* On every PID whose counters the filter gives out no counter is skipped and none used
\* twice, for every number of packets that a table or a PES asks for and any order of
\* silence, audio, its copy and the halves of a dual mono.
THEOREM CountersGoOn == Spec => CountersContiguous
<1>1. [Good(filter, filter')]_vars =>
        [\A pid \in {"PAT", "PMT"} \cup AudioSlots : CountedOn(filter, filter', pid)]_vars
  BY DEF Good
<1> QED
  BY <1>1, CountAlways, PTL DEF CountersContiguous

\* The version of a table sent tells whether it is the one sent before, and a receiver
\* that goes by it has the table sent last.
THEOREM VersionsAreTold == Spec => VersionsTell
<1>1. [Good(filter, filter')]_vars => [\A x \in {"PAT", "PMT"} : VersionsOn(filter, filter', x)]_vars
  BY DEF Good
<1> QED
  BY <1>1, CountAlways, PTL DEF VersionsTell

LEMMA HistoryImplements == HSpec => Spec
<1>1. HInit => Init
  BY DEF HInit
<1>2. [HNext]_hvars => [Next]_vars
  BY DEF HNext, hvars, vars
<1> QED
  BY <1>1, <1>2, PTL DEF HSpec, Spec

\* On a stream of captions the counters go on without gap through received and inserted
\* packets, from the first one inserted on.
THEOREM TextGoesOn == HSpec => TextContiguous
<1>1. CountInv /\ [HNext]_hvars => [\A x \in TextSlots : TextCounted(filter, filter', x)]_hvars
  <2>1. ASSUME CountInv, HNext
        PROVE  Good(filter, filter')
    BY <2>1, GoodStep DEF CountInv, HNext
  <2> QED
    BY <2>1 DEF Good
<1> QED
  BY <1>1, HistoryImplements, CountAlways, PTL DEF TextContiguous, HSpec

-----------------------------------------------------------------------------
(* How far silence goes.                                                   *)

LEMMA LaterTwice ==
  ASSUME NEW t \in Nat, NEW c \in Nat, NEW d \in Nat
  PROVE  Later(Later(t, c), d) = Later(t, c + d)
<1>1. PtsMod \in Nat \ {0} /\ t + c \in Nat
  BY Constants
<1>2. (((t + c) % PtsMod) + d) % PtsMod = (t + c + d) % PtsMod
  BY <1>1, RemainderOn
<1>3. t + c + d = t + (c + d)
  OBVIOUS
<1> QED
  BY <1>2, <1>3 DEF Later

LEMMA LaterNone ==
  ASSUME NEW t \in Times
  PROVE  Later(t, 0) = t
BY Constants DEF Later, Times

\* One more frame
LEMMA FrameOn ==
  ASSUME NEW t \in Times, NEW k \in Nat
  PROVE  Later(Later(t, k * Frame), Frame) = Later(t, (k + 1) * Frame)
<1>1. t \in Nat /\ Frame \in Nat
  BY Constants DEF Times
<1>2. k * Frame \in Nat /\ k * Frame + Frame = (k + 1) * Frame
  BY <1>1
<1> QED
  BY <1>1, <1>2, LaterTwice

\* The gap either way round
LEMMA GapIs ==
  ASSUME NEW t \in Times, NEW s \in Times
  PROVE  /\ Past(t, s) \in 0 .. PtsMod - 1
         /\ Past(t, s) = 0 => Past(s, t) = 0
         /\ Past(t, s) # 0 => Past(s, t) = PtsMod - Past(t, s)
<1>1. PtsMod \in Nat \ {0} /\ t \in 0 .. PtsMod - 1 /\ s \in 0 .. PtsMod - 1
  BY Constants DEF Times
<1>2. \A x \in 0 .. 2 * PtsMod - 1 : x % PtsMod = IF x < PtsMod THEN x ELSE x - PtsMod
  BY <1>1, ModIs
<1>3. PtsMod + t - s \in 0 .. 2 * PtsMod - 1 /\ PtsMod + s - t \in 0 .. 2 * PtsMod - 1
  BY <1>1
<1>4. /\ Past(t, s) = IF PtsMod + t - s < PtsMod THEN PtsMod + t - s ELSE t - s
      /\ Past(s, t) = IF PtsMod + s - t < PtsMod THEN PtsMod + s - t ELSE s - t
  BY <1>1, <1>2, <1>3 DEF Past
<1> QED
  BY <1>1, <1>4

\* Where silence goes on, and that it ends near the target
FromIs(pts, target, from) ==
  \/ from = pts /\ pts \in Times
       /\ (Past(target, pts) <= Accept \/ Past(target, pts) >= PtsMod - Accept)
  \/ from = target /\ (pts = NoTime \/ Past(target, pts) \in Accept + 1 .. PtsMod - Accept - 1)

LEMMA ResumeIs ==
  ASSUME NEW pts \in Times \cup {NoTime}, NEW target \in Times
  PROVE  FromIs(pts, target, Resume(pts, target))
<1>1. CASE pts = NoTime
  BY <1>1 DEF Resume, FromIs
<1>2. CASE pts \in Times
  <2>1. Past(target, pts) \in 0 .. PtsMod - 1 /\ PtsMod \in Nat /\ Accept \in Nat /\ pts # NoTime
    <3>1. Past(target, pts) \in 0 .. PtsMod - 1
      BY <1>2, GapIs
    <3> QED
      BY <1>2, <3>1, Constants DEF Times, NoTime
  <2>2. CASE Accept < Past(target, pts) /\ Past(target, pts) < PtsMod - Accept
    BY <2>1, <2>2 DEF Resume, FromIs
  <2>3. CASE ~(Accept < Past(target, pts) /\ Past(target, pts) < PtsMod - Accept)
    BY <1>2, <2>1, <2>3 DEF Resume, FromIs
  <2> QED
    BY <2>2, <2>3
<1> QED
  BY <1>1, <1>2

LEMMA NoneAtTarget ==
  ASSUME NEW target \in Times
  PROVE  Frames(target, target) = 0
<1> DEFINE n == Frames(target, target)
<1>1. n \in Nat /\ Ends(target, target, n)
  BY FramesIn
<1> HIDE DEF n
<1>2. Past(target, target) = 0
  <2>1. Past(target, target) \in 0 .. PtsMod - 1 /\ PtsMod \in Nat
    BY GapIs, Constants
  <2>2. Past(target, target) # 0 => Past(target, target) = PtsMod - Past(target, target)
    BY GapIs
  <2>3. (PtsMod + target - target) % PtsMod = 0
    <3>1. PtsMod \in Nat \ {0} /\ target \in Nat
      BY Constants DEF Times
    <3>2. PtsMod + target - target = PtsMod
      BY <3>1
    <3> QED
      BY <3>1, <3>2
  <2> QED
    BY <2>3 DEF Past
<1>3. /\ PtsMod \in Nat /\ Frame \in Nat \ {0} /\ Accept \in Nat /\ 2 * Accept + Frame < PtsMod
  BY Constants
<1>4. Past(target, Later(target, Frame)) = PtsMod - Frame
  BY <1>2, <1>3, MovedOn
<1>5. ~Fits(target, target)
  BY <1>3, <1>4 DEF Fits
<1>6. CASE n # 0
  <2>1. 0 \in 0 .. n - 1
    BY <1>1, <1>6
  <2>2. Fits(Later(target, 0 * Frame), target)
    BY <1>1, <2>1 DEF Ends
  <2>3. 0 * Frame = 0
    BY <1>3
  <2> QED
    BY <1>5, <2>2, <2>3, LaterNone
<1> QED
  BY <1>6 DEF n

LEMMA EndsCaughtUp ==
  ASSUME NEW pts \in Times \cup {NoTime}, NEW target \in Times, NEW from \in Times,
         FromIs(pts, target, from), NEW n \in Nat, Ends(from, target, n), from = target => n = 0
  PROVE  CaughtUp(Later(from, n * Frame), target)
<1> DEFINE time == Later(from, n * Frame)
           gap == Past(target, time)
<1>1. /\ PtsMod \in Nat /\ Frame \in Nat \ {0} /\ Accept \in Nat /\ 2 * Accept + Frame < PtsMod
  BY Constants
<1>2. time \in Times
  <2>1. n * Frame \in Nat
    BY <1>1
  <2> QED
    BY <2>1, ClockIs
<1>3. ~(Past(target, Later(time, Frame)) <= Accept)
  BY DEF Ends, Fits
<1>4. n = 0 => time = from
  <2>1. 0 * Frame = 0
    BY <1>1
  <2> QED
    BY <2>1, LaterNone
<1>5. n # 0 => gap <= Accept
  <2> SUFFICES ASSUME n # 0
               PROVE  gap <= Accept
    OBVIOUS
  <2> DEFINE k == n - 1
  <2>1. k \in Nat /\ k \in 0 .. n - 1 /\ k + 1 = n
    OBVIOUS
  <2>2. Past(target, Later(Later(from, k * Frame), Frame)) <= Accept
    BY <2>1 DEF Ends, Fits
  <2>3. Later(Later(from, k * Frame), Frame) = time
    BY <2>1, FrameOn
  <2> QED
    BY <2>2, <2>3
<1> HIDE DEF time
<1>6. gap \in 0 .. PtsMod - 1 /\ (gap # 0 => Past(time, target) = PtsMod - gap)
  BY <1>2, GapIs
<1>7. time # NoTime
  BY <1>2 DEF Times, NoTime
<1>8. CASE gap < Frame
  BY <1>7, <1>8 DEF CaughtUp, time
<1>9. CASE ~(gap < Frame)
  <2>1. Past(target, Later(time, Frame)) = gap - Frame
    BY <1>1, <1>2, <1>6, <1>9, MovedOn
  <2>2. gap > Accept + Frame
    BY <1>1, <1>3, <1>6, <2>1
  <2>3. n = 0 /\ time = from
    BY <1>1, <1>4, <1>5, <1>6, <2>2
  <2>4. CASE from = target
    <3>1. gap = 0
      <4>1. Past(target, target) = 0
        BY Constants DEF Past, Times
      <4> QED
        BY <2>3, <2>4, <4>1
    <3> QED
      BY <1>1, <2>2, <3>1
  <2>5. CASE from # target
    <3>1. gap <= Accept \/ gap >= PtsMod - Accept
      BY <2>3, <2>5 DEF FromIs
    <3>2. Past(time, target) <= Accept
      BY <1>1, <1>6, <2>2, <3>1
    <3> QED
      BY <1>7, <3>2 DEF CaughtUp, time
  <2> QED
    BY <2>4, <2>5
<1> HIDE DEF gap
<1> QED
  BY <1>8, <1>9

-----------------------------------------------------------------------------
(* Silence without gaps.                                                   *)

Silent(out, a) == {i \in On(out, a) : out[i].kind = "silence"}

\* Gapless, with the time to be reached
GapFree(b, g, a, target) ==
  /\ \A i \in Silent(g.packets, a) :
       /\ g.packets[i].pts = NextPts(b, g.packets, Silent(g.packets, a), a, i)
       /\ Past(target, Later(g.packets[i].pts, Frame)) <= Accept
  /\ \/ g.pts[a] = NextPts(b, g.packets, Silent(g.packets, a), a, Len(g.packets) + 1)
     \/ Silent(g.packets, a) = {} /\ g.pts[a] = NoTime
     \/ Silent(g.packets, a) = {} /\ g.pts[a] = target
          /\ (b.pts[a] = NoTime \/ Past(target, b.pts[a]) \in Accept + 1 .. PtsMod - Accept - 1)

\* No silence is added.
SilenceSame(f, g, a) ==
  /\ Len(f.packets) \in Nat /\ Len(g.packets) \in Nat /\ Len(f.packets) <= Len(g.packets)
  /\ Silent(f.packets, a) \in SUBSET (1 .. Len(f.packets))
  /\ Silent(g.packets, a) = Silent(f.packets, a)
  /\ \A i \in 1 .. Len(f.packets) : g.packets[i] = f.packets[i]
  /\ g.pts[a] = f.pts[a]

LEMMA GapFreeSame ==
  ASSUME NEW b, NEW f, NEW g, NEW a, NEW target, GapFree(b, f, a, target), SilenceSame(f, g, a)
  PROVE  GapFree(b, g, a, target)
<1> DEFINE n == Len(f.packets)
           m == Len(g.packets)
           S == Silent(f.packets, a)
<1>1. /\ n \in Nat /\ m \in Nat /\ n <= m /\ S \in SUBSET (1 .. n) /\ Silent(g.packets, a) = S
      /\ \A i \in 1 .. n : g.packets[i] = f.packets[i]
      /\ g.pts[a] = f.pts[a]
  BY DEF SilenceSame
<1>2. /\ \A i \in S : /\ f.packets[i].pts = NextPts(b, f.packets, S, a, i)
                      /\ Past(target, Later(f.packets[i].pts, Frame)) <= Accept
      /\ \/ f.pts[a] = NextPts(b, f.packets, S, a, n + 1)
         \/ S = {} /\ f.pts[a] = NoTime
         \/ S = {} /\ f.pts[a] = target
              /\ (b.pts[a] = NoTime \/ Past(target, b.pts[a]) \in Accept + 1 .. PtsMod - Accept - 1)
  BY DEF GapFree
<1> HIDE DEF n, m, S
<1>3. ASSUME NEW i \in Nat
      PROVE  NextPts(b, g.packets, S, a, i) = NextPts(b, f.packets, S, a, i)
  <2> DEFINE j == Previous(S, i)
  <2>1. j # 0 => j \in S
    BY <1>1, PreviousIs
  <2> HIDE DEF j
  <2>2. j # 0 => g.packets[j] = f.packets[j]
    BY <1>1, <2>1
  <2> QED
    BY <2>2 DEF NextPts, j
<1>4. NextPts(b, g.packets, S, a, m + 1) = NextPts(b, f.packets, S, a, n + 1)
  <2>1. m + 1 \in Nat /\ m + 1 > n /\ n + 1 \in Nat
    BY <1>1
  <2>2. Previous(S, m + 1) = Previous(S, n + 1)
    BY <1>1, <2>1, PlaceBehind
  <2>3. NextPts(b, g.packets, S, a, m + 1) = NextPts(b, g.packets, S, a, n + 1)
    BY <2>2 DEF NextPts
  <2> QED
    BY <1>3, <2>1, <2>3
<1>5. \A i \in S : g.packets[i] = f.packets[i] /\ i \in Nat
  <2>1. \A i \in 1 .. n : g.packets[i] = f.packets[i] /\ i \in Nat
    BY <1>1
  <2> QED
    BY <1>1, <2>1
<1>6. \A i \in S : /\ g.packets[i].pts = NextPts(b, g.packets, S, a, i)
                   /\ Past(target, Later(g.packets[i].pts, Frame)) <= Accept
  BY <1>2, <1>3, <1>5
<1> QED
  BY <1>1, <1>2, <1>4, <1>6 DEF GapFree, m

LEMMA GapFreeNone ==
  ASSUME NEW b, NEW g, NEW a, NEW target, Len(g.packets) \in Nat, Silent(g.packets, a) = {},
         g.pts[a] \in {b.pts[a], NoTime}
  PROVE  GapFree(b, g, a, target)
<1>1. {} \in SUBSET (1 .. 0) /\ 0 \in Nat /\ Len(g.packets) + 1 \in Nat
  OBVIOUS
<1>2. Previous({}, Len(g.packets) + 1) = 0
  BY <1>1, PreviousOnly
<1>3. NextPts(b, g.packets, {}, a, Len(g.packets) + 1) = b.pts[a]
  BY <1>2 DEF NextPts
<1> QED
  BY <1>3 DEF GapFree

LEMMA SilentIn ==
  ASSUME NEW f, Sequence(f.packets), NEW a
  PROVE  /\ Len(f.packets) \in Nat /\ DOMAIN f.packets = 1 .. Len(f.packets)
         /\ Silent(f.packets, a) \in SUBSET (1 .. Len(f.packets))
<1> DEFINE s == f.packets
           S == ToSet(s)
<1>1. s \in Seq(S)
  BY DEF Sequence
<1> HIDE DEF S
<1>2. Len(s) \in Nat /\ DOMAIN s = 1 .. Len(s)
  BY <1>1
<1> QED
  BY <1>2 DEF Silent, On

LEMMA SilenceFurther ==
  ASSUME NEW f, NEW g, NEW kinds, Further(f, g, kinds), "silence" \in kinds, NEW a,
         g.pts[a] = f.pts[a]
  PROVE  SilenceSame(f, g, a)
<1> DEFINE n == Len(f.packets)
           m == Len(g.packets)
<1>1. /\ n \in Nat /\ DOMAIN f.packets = 1 .. n /\ m \in Nat /\ n <= m /\ DOMAIN g.packets = 1 .. m
      /\ \A i \in 1 .. n : g.packets[i] = f.packets[i]
      /\ \A i \in n + 1 .. m : g.packets[i].kind \notin kinds
  BY DEF Further
<1> HIDE DEF n, m
<1>2. ASSUME NEW i \in Silent(f.packets, a)
      PROVE  i \in 1 .. n /\ i \in Silent(g.packets, a)
  <2>1. i \in 1 .. n /\ f.packets[i].pid = a /\ f.packets[i].kind = "silence"
    BY <1>1, <1>2 DEF Silent, On
  <2>2. i \in 1 .. m /\ g.packets[i] = f.packets[i]
    BY <1>1, <2>1
  <2> QED
    BY <1>1, <2>1, <2>2 DEF Silent, On
<1>3. ASSUME NEW i \in Silent(g.packets, a)
      PROVE  i \in Silent(f.packets, a)
  <2>1. i \in 1 .. m /\ g.packets[i].pid = a /\ g.packets[i].kind = "silence"
    BY <1>1, <1>3 DEF Silent, On
  <2>2. i \notin n + 1 .. m
    BY <1>1, <2>1
  <2>3. i \in 1 .. n
    BY <1>1, <2>1, <2>2
  <2>4. g.packets[i] = f.packets[i]
    BY <1>1, <2>3
  <2> QED
    BY <1>1, <2>1, <2>3, <2>4 DEF Silent, On
<1>4. Silent(g.packets, a) = Silent(f.packets, a) /\ Silent(f.packets, a) \in SUBSET (1 .. n)
  BY <1>2, <1>3
<1> QED
  BY <1>1, <1>4 DEF SilenceSame, n, m

LEMMA SilenceElsewhere ==
  ASSUME NEW f, NEW g, NEW x, NEW new, Emits(f, g, x, new), NEW a, a # x,
         g.pts[a] = f.pts[a]
  PROVE  SilenceSame(f, g, a)
<1>1. On(g.packets, a) = On(f.packets, a) /\ SameOn(f, g, a) /\ Behind(f, g, new)
  BY OtherBefore, OldPlaces, EmitPlaces
<1>2. Silent(g.packets, a) = Silent(f.packets, a)
  BY <1>1 DEF Silent, SameOn
<1>3. Silent(f.packets, a) \in SUBSET (1 .. Len(f.packets))
  BY SilentIn DEF Emits
<1> DEFINE n == Len(f.packets)
           m == Len(new)
<1>4. /\ n \in Nat /\ m \in Nat /\ Len(g.packets) = n + m
      /\ \A i \in 1 .. n : g.packets[i] = f.packets[i]
  BY <1>1 DEF Behind
<1> HIDE DEF n, m
<1>5. n <= n + m /\ n + m \in Nat
  BY <1>4
<1> QED
  BY <1>2, <1>3, <1>4, <1>5 DEF SilenceSame, n

\* Frames of silence follow where the time has been reached, and end at the target.
LEMMA SilenceFills ==
  ASSUME NEW f, State(f), NEW a \in AudioSlots, f.pcr \in Times, f.diff[a] \in Times,
         NEW b, b.pts[a] = f.pts[a], Silent(f.packets, a) = {}
  PROVE  /\ GapFree(b, InsertSilence(f, a), a, SilenceTarget(f, a))
         /\ CaughtUp(InsertSilence(f, a).pts[a], SilenceTarget(f, a))
<1> DEFINE target == SilenceTarget(f, a)
           from == SilenceFrom(f, a)
           n == SilenceCount(f, a)
           new == SilencePackets(f, a)
           g == InsertSilence(f, a)
           l == Len(f.packets)
<1>1. target \in Times /\ from \in Times /\ n \in Nat
  BY SilenceTimes
<1>2. Ends(from, target, n)
  BY <1>1, FramesIn DEF SilenceCount
<1>3. FromIs(f.pts[a], target, from) /\ f.pts[a] \in Times \cup {NoTime}
  <2>1. f.pts[a] \in Times \cup {NoTime}
    BY DEF State, Ranges
  <2> QED
    BY <1>1, <2>1, ResumeIs DEF SilenceFrom
<1>4. from = target => n = 0
  BY <1>1, NoneAtTarget DEF SilenceCount
<1>5. Adds(f, g, a, new) /\ Silenced(f, g, a)
  BY SilenceAdds
<1>6. g.pts[a] = Later(from, n * Frame)
  BY <1>5 DEF Silenced, State, Shape
<1>7. /\ Len(new) = n /\ DOMAIN new = 1 .. n
      /\ \A k \in 1 .. n : new[k].kind = "silence" /\ new[k].pts = Later(from, (k - 1) * Frame)
  BY <1>1, SilencePacketsAre
<1>8. Behind(f, g, new) /\ Places(f, g, new, a, NewPlaces(f, new))
  BY <1>5, EmitPlaces DEF Adds
<1>9. /\ l \in Nat /\ Len(g.packets) = l + n /\ DOMAIN g.packets = 1 .. l + n
      /\ \A i \in 1 .. l : g.packets[i] = f.packets[i]
      /\ \A k \in 1 .. n : g.packets[l + k] = new[k]
      /\ On(f.packets, a) \in SUBSET (1 .. l)
      /\ On(g.packets, a) = On(f.packets, a) \cup Shifted(l, 1 .. n)
  BY <1>7, <1>8 DEF Behind, Places, NewPlaces
<1> HIDE DEF target, from, n, new, g, l
<1>10. CaughtUp(g.pts[a], target)
  BY <1>1, <1>2, <1>3, <1>4, <1>6, EndsCaughtUp
<1> DEFINE S == Silent(g.packets, a)
<1>11. S = Shifted(l, 1 .. n)
  <2>1. ASSUME NEW i \in S
        PROVE  i \in Shifted(l, 1 .. n)
    <3>1. i \in On(g.packets, a) /\ g.packets[i].kind = "silence"
      BY <2>1 DEF Silent
    <3>2. CASE i \in On(f.packets, a)
      <4>1. i \in 1 .. l
        BY <1>9, <3>2
      <4>2. g.packets[i] = f.packets[i]
        BY <1>9, <4>1
      <4>3. i \in Silent(f.packets, a)
        BY <3>1, <3>2, <4>2 DEF Silent
      <4> QED
        BY <4>3
    <3> QED
      BY <1>9, <3>1, <3>2
  <2>2. ASSUME NEW i \in Shifted(l, 1 .. n)
        PROVE  i \in S
    <3>1. PICK k \in 1 .. n : i = l + k
      BY <2>2 DEF Shifted
    <3>2. g.packets[i].kind = "silence" /\ i \in On(g.packets, a)
      BY <1>7, <1>9, <3>1 DEF Shifted
    <3> QED
      BY <3>2 DEF Silent
  <2> QED
    BY <2>1, <2>2
<1> HIDE DEF S
<1>12. S \in SUBSET (1 .. l + n)
  BY <1>1, <1>9, <1>11 DEF Shifted
<1>13. CASE from = target /\ (f.pts[a] = NoTime \/ Past(target, f.pts[a]) \in Accept + 1 .. PtsMod - Accept - 1)
  <2>1. n = 0
    BY <1>4, <1>13
  <2>2. S = {}
    BY <1>11, <2>1 DEF Shifted
  <2>3. g.pts[a] = target
    <3>1. 0 * Frame = 0
      BY Constants
    <3> QED
      BY <1>1, <1>6, <1>13, <2>1, <3>1, LaterNone
  <2> QED
    BY <1>10, <1>13, <2>2, <2>3 DEF GapFree, S, g, target
<1>14. CASE from = f.pts[a]
  <2>1. ASSUME NEW k \in 1 .. n + 1
        PROVE  NextPts(b, g.packets, S, a, l + k) = Later(from, (k - 1) * Frame)
    <3>1. CASE k = 1
      <4>1. \A i \in S : ~(i < l + 1)
        BY <1>1, <1>9, <1>11 DEF Shifted
      <4>2. l + n \in Nat /\ l + 1 \in Nat
        BY <1>1, <1>9
      <4>3. Previous(S, l + 1) = 0
        BY <1>12, <4>1, <4>2, PreviousOnly
      <4>4. NextPts(b, g.packets, S, a, l + 1) = from
        BY <1>14, <4>3 DEF NextPts
      <4>5. (1 - 1) * Frame = 0
        BY Constants
      <4> QED
        BY <1>1, <3>1, <4>4, <4>5, LaterNone
    <3>2. CASE k # 1
      <4> DEFINE h == k - 1
                 j == l + h
      <4>1. h \in 1 .. n /\ h - 1 \in Nat /\ (h - 1) + 1 = h /\ j + 1 = l + k /\ j \in Nat /\ j # 0
        BY <1>1, <1>9, <2>1, <3>2
      <4>2. j \in S
        BY <1>11, <4>1 DEF Shifted
      <4>3. g.packets[j].pts = Later(from, (h - 1) * Frame)
        BY <1>7, <1>9, <4>1
      <4> HIDE DEF j, h
      <4>4. Previous(S, j + 1) = j
        <5>1. l + n \in Nat
          BY <1>1, <1>9
        <5> QED
          BY <1>12, <4>2, <5>1, PlaceNext
      <4>5. NextPts(b, g.packets, S, a, j + 1) = Later(g.packets[j].pts, Frame)
        BY <4>1, <4>4 DEF NextPts
      <4>6. Later(Later(from, (h - 1) * Frame), Frame) = Later(from, h * Frame)
        BY <1>1, <4>1, FrameOn
      <4> QED
        BY <4>1, <4>3, <4>5, <4>6 DEF h
    <3> QED
      BY <3>1, <3>2
  <2>2. ASSUME NEW i \in S
        PROVE  /\ g.packets[i].pts = NextPts(b, g.packets, S, a, i)
               /\ Past(target, Later(g.packets[i].pts, Frame)) <= Accept
    <3>1. PICK k \in 1 .. n : i = l + k
      BY <1>11, <2>2 DEF Shifted
    <3>2. k \in 1 .. n + 1 /\ k - 1 \in 0 .. n - 1
      BY <1>1, <3>1
    <3>3. g.packets[i].pts = Later(from, (k - 1) * Frame)
      BY <1>7, <1>9, <3>1
    <3>4. Fits(Later(from, (k - 1) * Frame), target)
      BY <1>2, <3>2 DEF Ends
    <3> QED
      BY <2>1, <3>1, <3>2, <3>3, <3>4 DEF Fits
  <2>3. g.pts[a] = NextPts(b, g.packets, S, a, Len(g.packets) + 1)
    <3>1. n + 1 \in 1 .. n + 1 /\ (n + 1) - 1 = n /\ l + (n + 1) = Len(g.packets) + 1
      BY <1>1, <1>9
    <3>2. NextPts(b, g.packets, S, a, l + (n + 1)) = Later(from, ((n + 1) - 1) * Frame)
      BY <2>1, <3>1
    <3> QED
      BY <1>6, <3>1, <3>2
  <2> QED
    BY <1>10, <2>2, <2>3 DEF GapFree, S, g, target
<1> QED
  BY <1>3, <1>13, <1>14 DEF FromIs

LEMMA SilenceKept ==
  ASSUME NEW f, NEW g, Sequence(f.packets), g.packets = f.packets, NEW a, g.pts[a] = f.pts[a]
  PROVE  SilenceSame(f, g, a)
<1>1. Further(f, g, {"silence"}) /\ "silence" \in {"silence"}
  BY FurtherSame
<1> QED
  BY <1>1, SilenceFurther

LEMMA ManageSilent ==
  ASSUME NEW f, State(f), NEW x \in TextSlots, NEW a \in AudioSlots
  PROVE  SilenceSame(f, Manage(f, x), a)
<1> DEFINE g == Manage(f, x)
           new == <<ManagementPacket(f, x)>>
<1>1. /\ Manages(f, x) => Adds(f, g, x, new)
      /\ ~Manages(f, x) => Keeps(f, g)
      /\ ManagedTimes(f, g, x)
  BY ManageAdds
<1>2. a # x
  BY DEF AudioSlots, TextSlots
<1> HIDE DEF g, new
<1>3. g.pts[a] = f.pts[a]
  BY <1>1 DEF ManagedTimes
<1>4. CASE Manages(f, x)
  <2>1. Emits(f, g, x, new)
    BY <1>1, <1>4 DEF Adds
  <2>2. SilenceSame(f, g, a)
    BY <1>2, <1>3, <2>1, SilenceElsewhere
  <2> QED
    BY <2>2 DEF g
<1>5. CASE ~Manages(f, x)
  <2>1. Sequence(f.packets) /\ g.packets = f.packets
    BY <1>1, <1>5 DEF Keeps, State
  <2>2. SilenceSame(f, g, a)
    BY <1>3, <2>1, SilenceKept
  <2> QED
    BY <2>2 DEF g
<1> QED
  BY <1>4, <1>5

LEMMA InsertElsewhere ==
  ASSUME NEW f, State(f), NEW a \in AudioSlots, f.pcr \in Times, f.diff[a] \in Times,
         NEW c \in AudioSlots, c # a
  PROVE  SilenceSame(f, InsertSilence(f, a), c)
<1> DEFINE g == InsertSilence(f, a)
           new == SilencePackets(f, a)
<1>1. Adds(f, g, a, new) /\ Silenced(f, g, a)
  BY SilenceAdds
<1> HIDE DEF g, new
<1>2. g.pts[c] = f.pts[c]
  BY <1>1 DEF Silenced, State, Shape
<1>3. Emits(f, g, a, new)
  BY <1>1 DEF Adds
<1>4. SilenceSame(f, g, c)
  BY <1>2, <1>3, SilenceElsewhere
<1> QED
  BY <1>4 DEF g

LEMMA InsertKeeps ==
  ASSUME NEW f, State(f), NEW a
  PROVE  /\ InsertSilence(f, a).dualMono = f.dualMono /\ InsertSilence(f, a).diff = f.diff
         /\ InsertSilence(f, a).since = f.since
BY DEF InsertSilence, Out, State, Shape, Fields

\* The time that silence has to reach, for the PCR that comes
TargetAt(b, pcr, a) == Later(pcr, IF b.diff[a] < 0 THEN b.diff["audio1"] ELSE b.diff[a])

\* What a PCR makes of silence
FilledTo(b, g, a, target) ==
  GapFree(b, g, a, target) /\ (NeedsSilence(b, a) => CaughtUp(g.pts[a], target))

LEMMA FilledSame ==
  ASSUME NEW b, NEW f, NEW g, NEW a, NEW target, FilledTo(b, f, a, target), SilenceSame(f, g, a)
  PROVE  FilledTo(b, g, a, target)
<1>1. GapFree(b, g, a, target)
  BY GapFreeSame DEF FilledTo
<1>2. g.pts[a] = f.pts[a]
  BY DEF SilenceSame
<1> QED
  BY <1>1, <1>2 DEF FilledTo

LEMMA Stage1Filled ==
  ASSUME NEW f, State(f), NEW p, NEW g, Reached(f, p, g), g.diff = f.diff, g.dualMono = f.dualMono,
         \A a \in AudioSlots : g.pts[a] = f.pts[a] /\ Silent(g.packets, a) = {}
  PROVE  /\ FilledTo(f, Silence1(g), "audio1", TargetAt(f, p.pcr, "audio1"))
         /\ SilenceSame(g, Silence1(g), "audio2")
         /\ Silence1(g).diff = f.diff /\ Silence1(g).dualMono = f.dualMono
<1>1. "audio1" \in AudioSlots /\ "audio2" \in AudioSlots
  BY DEF AudioSlots
<1>2. State(g) /\ Same(f, g) /\ g.pcr = p.pcr /\ g.pcr \in Times /\ g.diff["audio1"] \in Times
  BY <1>1 DEF Reached, State, Ranges
<1>3. NeedsSilence(g, "audio1") <=> NeedsSilence(f, "audio1")
  BY <1>2 DEF NeedsSilence, Same, SameTables, Pid
<1>4. SilenceTarget(g, "audio1") = TargetAt(f, p.pcr, "audio1")
  <2>1. ~(f.diff["audio1"] < 0)
    BY <1>2 DEF Times
  <2> QED
    BY <1>2, <2>1 DEF SilenceTarget, TargetAt
<1>5. CASE NeedsSilence(g, "audio1")
  <2> DEFINE h == InsertSilence(g, "audio1")
  <2>1. Silence1(g) = h
    BY <1>5 DEF Silence1
  <2>2. h.diff = g.diff /\ h.dualMono = g.dualMono
    BY <1>2, InsertKeeps
  <2>3. SilenceSame(g, h, "audio2")
    BY <1>1, <1>2, InsertElsewhere
  <2>4. GapFree(f, h, "audio1", SilenceTarget(g, "audio1")) /\ CaughtUp(h.pts["audio1"], SilenceTarget(g, "audio1"))
    BY <1>1, <1>2, SilenceFills
  <2> HIDE DEF h
  <2> QED
    BY <1>4, <2>1, <2>2, <2>3, <2>4 DEF FilledTo
<1>6. CASE ~NeedsSilence(g, "audio1")
  <2>1. Silence1(g) = g
    BY <1>6 DEF Silence1
  <2>2. Len(g.packets) \in Nat /\ SilenceSame(g, g, "audio2")
    BY <1>2, SilentIn, SilenceKept DEF State
  <2>3. GapFree(f, g, "audio1", TargetAt(f, p.pcr, "audio1"))
    BY <1>1, <2>2, GapFreeNone
  <2> QED
    BY <1>3, <1>6, <2>1, <2>2, <2>3 DEF FilledTo
<1> QED
  BY <1>5, <1>6

LEMMA Stage2Filled ==
  ASSUME NEW f, State(f), NEW p, NEW g, Reached(f, p, g), g.diff = f.diff, g.dualMono = f.dualMono,
         g.pts["audio2"] = f.pts["audio2"], Silent(g.packets, "audio2") = {}
  PROVE  /\ FilledTo(f, Silence2(g), "audio2", TargetAt(f, p.pcr, "audio2"))
         /\ SilenceSame(g, Silence2(g), "audio1")
<1> DEFINE h == Begun2(g)
<1>1. "audio1" \in AudioSlots /\ "audio2" \in AudioSlots /\ "audio1" # "audio2"
  BY DEF AudioSlots
<1>2. State(g) /\ Same(f, g) /\ g.pcr = p.pcr /\ g.pcr \in Times /\ Len(g.packets) \in Nat
  BY SilentIn DEF Reached, State
<1>3. NeedsSilence(g, "audio2") <=> NeedsSilence(f, "audio2")
  BY <1>2 DEF NeedsSilence, Same, SameTables, Pid
<1>4. /\ State(h) /\ Same(g, h) /\ h.diff["audio2"] = Measured(g) /\ Measured(g) \in Times
      /\ h.pcr = g.pcr /\ h.pts = g.pts /\ Keeps(g, h)
      /\ Silence2(g) = IF NeedsSilence(g, "audio2") THEN InsertSilence(h, "audio2") ELSE g
  BY <1>2, BegunIs
<1> HIDE DEF h
<1>5. SilenceTarget(h, "audio2") = TargetAt(f, p.pcr, "audio2")
  BY <1>2, <1>4 DEF SilenceTarget, TargetAt, Measured
<1>6. CASE NeedsSilence(g, "audio2")
  <2> DEFINE s == InsertSilence(h, "audio2")
  <2>1. h.packets = g.packets /\ Sequence(g.packets)
    BY <1>2, <1>4 DEF Keeps, State
  <2>2. SilenceSame(h, s, "audio1")
    BY <1>1, <1>2, <1>4, InsertElsewhere
  <2>3. SilenceSame(g, s, "audio1")
    BY <1>4, <2>1, <2>2 DEF SilenceSame
  <2>4. GapFree(f, s, "audio2", SilenceTarget(h, "audio2")) /\ CaughtUp(s.pts["audio2"], SilenceTarget(h, "audio2"))
    BY <1>1, <1>2, <1>4, <2>1, SilenceFills
  <2> HIDE DEF s
  <2> QED
    BY <1>4, <1>5, <1>6, <2>3, <2>4 DEF FilledTo, s
<1>7. CASE ~NeedsSilence(g, "audio2")
  <2>1. SilenceSame(g, g, "audio1")
    BY <1>2, SilenceKept DEF State
  <2>2. GapFree(f, g, "audio2", TargetAt(f, p.pcr, "audio2"))
    BY <1>1, <1>2, GapFreeNone
  <2> QED
    BY <1>3, <1>4, <1>7, <2>1, <2>2 DEF FilledTo
<1> QED
  BY <1>6, <1>7

LEMMA PcrFilled ==
  ASSUME NEW f, State(f), f.packets = << >>, NEW p \in PacketSet, p.pcr \in Times,
         NEW a \in AudioSlots
  PROVE  FilledTo(f, AddPcr(f, p), a, TargetAt(f, p.pcr, a)) /\ AddPcr(f, p).pcr = p.pcr
<1> DEFINE g0 == PcrTaken(f, p)
           g1 == Stage1(f, p)
           g2 == Stage2(f, p)
           g3 == Stage3(f, p)
           g4 == Stage4(f, p)
<1>1. /\ AddPcr(f, p) = g4 /\ Reached(f, p, g0) /\ Reached(f, p, g1) /\ Reached(f, p, g2)
      /\ Reached(f, p, g3) /\ Reached(f, p, g4)
  BY StagesAre
<1>2. /\ g0.pts = f.pts /\ g0.diff = f.diff /\ g0.dualMono = f.dualMono
      /\ Keeps(f, g0) \/ Adds(f, g0, "PCR", <<PcrPacket>>)
  BY TakenIs
<1>3. /\ g1 = Silence1(g0) /\ g2 = Silence2(g1)
      /\ g3 = Manage(g2, "caption") /\ g4 = Manage(g3, "superimpose")
  BY DEF Stage1, Stage2, Stage3, Stage4
<1> HIDE DEF g0, g1, g2, g3, g4
<1>4. "audio1" \in AudioSlots /\ "audio2" \in AudioSlots /\ AudioSlots = {"audio1", "audio2"}
      /\ "caption" \in TextSlots /\ "superimpose" \in TextSlots
  BY DEF AudioSlots, TextSlots
<1>5. ASSUME NEW c \in AudioSlots
      PROVE  g0.pts[c] = f.pts[c] /\ Silent(g0.packets, c) = {}
  <2>1. Silent(f.packets, c) = {}
    BY DEF Silent, On
  <2>2. SilenceSame(f, g0, c)
    <3>1. CASE Keeps(f, g0)
      <4>1. Sequence(f.packets) /\ g0.packets = f.packets
        BY <3>1 DEF Keeps, State
      <4> QED
        BY <1>2, <4>1, SilenceKept
    <3>2. CASE Adds(f, g0, "PCR", <<PcrPacket>>)
      <4> DEFINE new == <<PcrPacket>>
      <4>1. Emits(f, g0, "PCR", new) /\ c # "PCR"
        BY <3>2 DEF Adds, AudioSlots
      <4> HIDE DEF new
      <4> QED
        BY <1>2, <4>1, SilenceElsewhere
    <3> QED
      BY <1>2, <3>1, <3>2
  <2> QED
    BY <1>2, <2>1, <2>2 DEF SilenceSame
<1>6. /\ FilledTo(f, g1, "audio1", TargetAt(f, p.pcr, "audio1")) /\ SilenceSame(g0, g1, "audio2")
      /\ g1.diff = f.diff /\ g1.dualMono = f.dualMono
  BY <1>1, <1>2, <1>3, <1>5, Stage1Filled
<1>7. /\ FilledTo(f, g2, "audio2", TargetAt(f, p.pcr, "audio2")) /\ SilenceSame(g1, g2, "audio1")
  <2>1. g1.pts["audio2"] = f.pts["audio2"] /\ Silent(g1.packets, "audio2") = {}
    BY <1>4, <1>5, <1>6 DEF SilenceSame
  <2> QED
    BY <1>1, <1>3, <1>6, <2>1, Stage2Filled
<1>8. FilledTo(f, g2, a, TargetAt(f, p.pcr, a))
  BY <1>4, <1>6, <1>7, FilledSame
<1>9. SilenceSame(g2, g3, a) /\ SilenceSame(g3, g4, a)
  <2>1. State(g2) /\ State(g3)
    BY <1>1 DEF Reached
  <2> QED
    BY <1>3, <1>4, <2>1, ManageSilent
<1>10. FilledTo(f, g4, a, TargetAt(f, p.pcr, a))
  <2>1. FilledTo(f, g3, a, TargetAt(f, p.pcr, a))
    BY <1>8, <1>9, FilledSame
  <2> QED
    BY <1>9, <2>1, FilledSame
<1> QED
  BY <1>1, <1>10 DEF Reached

LEMMA NoSilence ==
  ASSUME NEW f, NEW g, NEW kinds, Further(f, g, kinds), "silence" \in kinds, f.packets = << >>, NEW a
  PROVE  Silent(g.packets, a) = {} /\ Len(g.packets) \in Nat
<1>1. Len(f.packets) = 0
  OBVIOUS
<1> DEFINE n == Len(f.packets)
           m == Len(g.packets)
<1>2. /\ m \in Nat /\ DOMAIN g.packets = 1 .. m
      /\ \A i \in n + 1 .. m : g.packets[i].kind \notin kinds
  BY DEF Further
<1> HIDE DEF n, m
<1>3. \A i \in 1 .. m : g.packets[i].kind \notin kinds
  BY <1>1, <1>2 DEF n
<1> QED
  BY <1>2, <1>3 DEF Silent, On, m

LEMMA DispatchedSilent ==
  ASSUME NEW f, NEW g, Dispatched(f, g), NEW a
  PROVE  SilenceSame(f, g, a) /\ g.pcr = f.pcr
<1>1. CASE Onward(f, g)
  <2>1. Further(f, g, Marked) /\ "silence" \in Marked /\ g.pts = f.pts /\ g.pcr = f.pcr
    BY <1>1 DEF Onward, Marked
  <2> QED
    BY <2>1, SilenceFurther
<1>2. ASSUME NEW x \in TextSlots, Spoken(f, g, x)
      PROVE  SilenceSame(f, g, a) /\ g.pcr = f.pcr
  <2>1. /\ Further(f, g, {"silence", "management"}) /\ "silence" \in {"silence", "management"}
        /\ g.pts = f.pts /\ g.pcr = f.pcr
    BY <1>2 DEF Spoken
  <2> QED
    BY <2>1, SilenceFurther
<1> QED
  BY <1>1, <1>2 DEF Dispatched

\* A packet of a stream while the program is in the PAT
LEMMA StreamFilled ==
  ASSUME State(filter), NEW p \in PacketSet, Dispatched(AfterPcr(p), filter'), NEW a \in AudioSlots
  PROVE  /\ Gapless(filter, filter', a)
         /\ (p.pid = filter.pcrPid /\ p.pcr # NoTime) =>
              FilledTo(filter, filter', a, Target(filter, filter', a))
<1> DEFINE f == AfterPcr(p)
           g == filter'
<1>1. State(Cleared) /\ ClearedFields
  BY ClearedHolds
<1>2. SilenceSame(f, g, a) /\ g.pcr = f.pcr
  BY DispatchedSilent
<1>3. Target(filter, g, a) = TargetAt(Cleared, g.pcr, a)
  BY <1>1 DEF Target, TargetAt, ClearedFields
<1>4. ASSUME NEW t
      PROVE  FilledTo(Cleared, g, a, t) => FilledTo(filter, g, a, t)
  BY <1>1 DEF FilledTo, GapFree, NextPts, NeedsSilence, Pid, ClearedFields
<1>5. FilledTo(filter, g, a, Target(filter, g, a)) => Gapless(filter, g, a)
  BY DEF FilledTo, GapFree, Gapless, Silent
<1>6. CASE p.pid = filter.pcrPid /\ p.pcr # NoTime
  <2>1. p.pcr \in Times /\ f = AddPcr(Cleared, p)
    BY <1>6 DEF PacketSet, AfterPcr
  <2>2. FilledTo(Cleared, f, a, TargetAt(Cleared, p.pcr, a)) /\ f.pcr = p.pcr
    BY <1>1, <2>1, PcrFilled DEF ClearedFields
  <2> HIDE DEF f, g
  <2>3. FilledTo(Cleared, g, a, TargetAt(Cleared, p.pcr, a))
    BY <1>2, <2>2, FilledSame
  <2>4. FilledTo(filter, g, a, Target(filter, g, a))
    BY <1>2, <1>3, <1>4, <2>2, <2>3
  <2> QED
    BY <1>5, <2>4 DEF g
<1>7. CASE ~(p.pid = filter.pcrPid /\ p.pcr # NoTime)
  <2>1. f = Cleared
    BY <1>7 DEF AfterPcr
  <2>2. Silent(f.packets, a) = {} /\ f.pts[a] = filter.pts[a]
    BY <1>1, <2>1 DEF Silent, On, ClearedFields
  <2>3. Silent(g.packets, a) = {} /\ g.pts[a] = filter.pts[a] /\ Len(g.packets) \in Nat
    BY <1>2, <2>2 DEF SilenceSame
  <2>4. GapFree(filter, g, a, Target(filter, g, a))
    BY <2>3, GapFreeNone
  <2>5. Gapless(filter, g, a)
    BY <2>4 DEF GapFree, Gapless, Silent
  <2> QED
    BY <1>7, <2>5
<1> QED
  BY <1>6, <1>7

LEMMA TabledSilent ==
  ASSUME State(filter), Tabled(Cleared, filter'), NEW a \in AudioSlots
  PROVE  Gapless(filter, filter', a)
<1>1. ClearedFields
  BY ClearedHolds
<1>2. Further(Cleared, filter', Marked) /\ "silence" \in Marked /\ Cleared.packets = << >>
  BY <1>1 DEF Tabled, Marked, ClearedFields
<1>3. Silent(filter'.packets, a) = {} /\ Len(filter'.packets) \in Nat
  BY <1>2, NoSilence
<1>4. filter'.pts[a] \in {filter.pts[a], NoTime}
  BY <1>1 DEF Tabled, ClearedFields
<1>5. GapFree(filter, filter', a, Target(filter, filter', a))
  BY <1>3, <1>4, GapFreeNone
<1> QED
  BY <1>5 DEF GapFree, Gapless, Silent

LEMMA GaplessStep ==
  ASSUME Inv, Next
  PROVE  \A a \in AudioSlots : Gapless(filter, filter', a)
<1>1. State(filter) /\ Collecting(filter)
  BY DEF Inv
<1>2. CASE Tabled(Cleared, filter')
  BY <1>1, <1>2, TabledSilent
<1>3. ASSUME NEW p \in PacketSet, StreamPacket(p)
      PROVE  \A a \in AudioSlots : Gapless(filter, filter', a)
  <2>1. CASE Tabled(Cleared, filter')
    BY <1>1, <2>1, TabledSilent
  <2>2. CASE Dispatched(AfterPcr(p), filter')
    BY <1>1, <2>2, StreamFilled
  <2> QED
    BY <1>1, <1>3, <2>1, <2>2, StreamSends
<1> QED
  BY <1>2, <1>3, StepIs

\* Without the program in the PAT no PID is taken for that of the PCR.
Unasked == HasTarget(filter) \/ filter.pcrPid = 0

LEMMA UnaskedStep ==
  ASSUME Inv, Unasked, Next
  PROVE  Unasked'
<1>1. State(filter) /\ Collecting(filter) /\ TablesOK(filter) /\ SourceOK /\ clock \in Times
      /\ Distinct(filter) /\ Selected(filter)
  BY DEF Inv, TablesOK
<1>2. ASSUME SameTables(filter, filter')
      PROVE  Unasked'
  BY <1>2 DEF SameTables, Unasked, HasTarget
<1>3. CASE PatPacket
  <2>1. PICK pat \in Pats \cup {filter.pat}, unitStart \in BOOLEAN :
          filter' = LET f == [Cleared EXCEPT !.pat = pat]
                    IN  IF ~HasTarget(f) THEN Deselect(f) ELSE IF unitStart THEN AddPat(f) ELSE f
    BY <1>3 DEF PatPacket
  <2> DEFINE f == [Cleared EXCEPT !.pat = pat]
             d == Deselect(f)
             s == AddPat(f)
  <2>2. filter' = IF ~HasTarget(f) THEN d ELSE IF unitStart THEN s ELSE f
    BY <2>1
  <2>3. DOMAIN Cleared = Fields
    BY <1>1 DEF Cleared, State, Shape
  <2>4. DOMAIN f = Fields
    BY <2>3
  <2> HIDE DEF f
  <2>5. d.pcrPid = 0 /\ s.opt = f.opt /\ s.pat = f.pat
    BY <2>4 DEF Deselect, AddPat, Fields
  <2> HIDE DEF d, s
  <2>6. HasTarget(f) => HasTarget(s)
    BY <2>5 DEF HasTarget
  <2>7. filter' = d \/ (HasTarget(f) /\ filter' = s) \/ (HasTarget(f) /\ filter' = f)
    BY <2>2
  <2>8. filter'.pcrPid = 0 \/ HasTarget(filter')
    BY <2>5, <2>6, <2>7
  <2> QED
    BY <2>8 DEF Unasked, HasTarget
<1>4. CASE PmtPacket
  <2>1. State(Cleared) /\ Same(filter, Cleared) /\ OnlyTables(Cleared.packets)
    BY <1>1, ClearedIs, NoneIs DEF OnlyTables
  <2>2. TablesOK(Cleared) /\ HasTarget(Cleared)
    BY <1>1, <1>4, <2>1, SameTablesOK DEF PmtPacket, Same, SameTables, HasTarget
  <2>3. PICK first \in Sections \cup {filter.section, NoSection} :
          \/ filter' = Extracted(Cleared, first)
          \/ \E second \in Sections \cup {NoSection} :
               filter' = Extracted(Extracted(Cleared, first), second)
    BY <1>4 DEF PmtPacket
  <2>4. first \in Sections \cup {NoSection}
    BY <1>1, <2>3 DEF State, Ranges
  <2> DEFINE f == Extracted(Cleared, first)
  <2>5. TablesSent(Cleared, f) /\ HasTarget(f)
    BY <2>1, <2>2, <2>4, ExtractedIs
  <2> HIDE DEF f
  <2>6. \A second \in Sections \cup {NoSection} : HasTarget(Extracted(f, second))
    BY <2>5, ExtractedIs DEF TablesSent
  <2>7. HasTarget(filter')
    BY <2>3, <2>5, <2>6 DEF f
  <2> QED
    BY <2>7 DEF Unasked, HasTarget
<1>5. ASSUME NEW p \in PacketSet, StreamPacket(p)
      PROVE  Unasked'
  BY <1>1, <1>2, <1>5, StreamIs
<1>6. ASSUME NEW pid \in Pids, Receive(pid)
      PROVE  Unasked'
  BY <1>1, <1>5, <1>6, ReceiveIs
<1>7. ASSUME NEW pid \in Pids, Lose(pid)
      PROVE  Unasked'
  BY <1>2, <1>7, LoseIs DEF Same
<1>8. ASSUME NEW pid \in Pids, Again(pid)
      PROVE  Unasked'
  <2>1. PICK p \in OnceMore(source[pid].last) : StreamPacket(p)
    BY <1>8 DEF Again, OnceMore
  <2>2. p \in PacketSet
    BY <1>1, <2>1, AgainIs
  <2> QED
    BY <1>5, <2>1, <2>2
<1> QED
  BY <1>3, <1>4, <1>6, <1>7, <1>8 DEF Next

\* Whenever the clock moves on, a PCR has come with the program in the PAT.
LEMMA TickIs ==
  ASSUME Inv, Unasked, Next, clock' # clock
  PROVE  \E p \in PacketSet : /\ p.pid = filter.pcrPid /\ p.pcr = clock' /\ p.pcr # NoTime
                              /\ State(AfterPcr(p)) /\ Dispatched(AfterPcr(p), filter')
<1>1. PICK p \in PacketSet : StreamPacket(p) /\ p.pcr = clock' /\ p.pid = filter.pcrPid
  BY StepIs
<1>2. p.pcr # NoTime
  <2>1. clock' \in Times
    BY InvStep DEF Inv
  <2> QED
    BY <1>1, <2>1, Constants DEF Times, NoTime
<1>3. p.pid # 0
  BY Constants DEF PacketSet
<1>4. HasTarget(filter)
  BY <1>1, <1>3 DEF Unasked
<1>5. State(AfterPcr(p)) /\ Dispatched(AfterPcr(p), filter')
  BY <1>1, <1>4, StreamSends DEF Inv
<1> QED
  BY <1>1, <1>2, <1>5

LEMMA CaughtStep ==
  ASSUME Inv, Unasked, Next, clock' # clock, NEW a \in AudioSlots, NeedsSilence(filter, a)
  PROVE  CaughtUp(filter'.pts[a], Target(filter, filter', a))
<1>1. State(filter)
  BY DEF Inv
<1>2. PICK p \in PacketSet : /\ p.pid = filter.pcrPid /\ p.pcr # NoTime
                             /\ Dispatched(AfterPcr(p), filter')
  BY TickIs
<1>3. FilledTo(filter, filter', a, Target(filter, filter', a))
  BY <1>1, <1>2, StreamFilled
<1> QED
  BY <1>3 DEF FilledTo

UnaskedInv == Inv /\ Unasked

LEMMA UnaskedInit ==
  ASSUME Init
  PROVE  UnaskedInv
<1>1. filter.pcrPid = 0
  BY DEF Init
<1> QED
  BY <1>1, InvInit DEF UnaskedInv, Unasked

LEMMA UnaskedNext ==
  ASSUME UnaskedInv, [Next]_vars
  PROVE  UnaskedInv'
<1>1. CASE Next
  BY <1>1, InvStep, UnaskedStep DEF UnaskedInv
<1>2. CASE UNCHANGED vars
  BY <1>2, InvUnchanged DEF UnaskedInv, Unasked, HasTarget, vars
<1> QED
  BY <1>1, <1>2

\* Frames of silence follow each other without gap and overlap, in a step and from one PCR to
\* the next, and none ends past the time of the PCR, for any clock and any frame.
THEOREM SilenceFollows == Spec => SilenceGapless
<1>1. Inv /\ [Next]_vars => [\A a \in AudioSlots : Gapless(filter, filter', a)]_vars
  BY GaplessStep
<1> QED
  BY <1>1, InvAlways, PTL DEF SilenceGapless, Spec

\* Once the clock has moved on, silence for an absent audio has caught up with it, also when
\* the clock wrapped or jumped.
THEOREM SilenceCatchesUp == Spec => SilenceKeepsUp
<1>1. UnaskedInv /\ [Next]_vars =>
        [clock' # clock =>
           \A a \in AudioSlots : NeedsSilence(filter, a) =>
             CaughtUp(filter'.pts[a], Target(filter, filter', a))]_vars
  BY CaughtStep DEF UnaskedInv
<1> QED
  BY <1>1, UnaskedInit, UnaskedNext, PTL DEF SilenceKeepsUp, Spec

-----------------------------------------------------------------------------
(* What a PCR makes of captions.                                           *)

WatchedAt(f, x)     == f.since[x] # NoTime /\ f.opt.insert[x] /\ (Pid(f, x) # 0 \/ f.opt.mode[x] = 1)
ManagesAt(f, t, x)  == WatchedAt(f, x) /\ Absent(t, f.since[x]) /\ Plausible(t, f.since[x])
SinceAt(f, t, x) ==
  IF ~WatchedAt(f, x) THEN t ELSE IF Absent(t, f.since[x]) THEN NextDue(t) ELSE f.since[x]

\* Nothing happens to the captions on x.
TextStill(f, g, x) ==
  /\ KindsOn(g.packets, x) = KindsOn(f.packets, x) /\ g.since[x] = f.since[x]
  /\ g.opt = f.opt /\ g.es = f.es

LEMMA StillTwice ==
  ASSUME NEW f, NEW g, NEW h, NEW x, TextStill(f, g, x), TextStill(g, h, x)
  PROVE  TextStill(f, h, x)
BY DEF TextStill

LEMMA ElsewhereStill ==
  ASSUME NEW f, NEW g, NEW x, NEW y, x # y, NEW new, Adds(f, g, y, new) \/ Keeps(f, g),
         g.since[x] = f.since[x], Same(f, g)
  PROVE  TextStill(f, g, x)
<1>1. KindsOn(g.packets, x) = KindsOn(f.packets, x)
  <2>1. CASE Adds(f, g, y, new)
    BY <2>1, KindsOther DEF Adds
  <2>2. CASE Keeps(f, g)
    BY <2>2 DEF Keeps
  <2> QED
    BY <2>1, <2>2
<1> QED
  BY <1>1 DEF TextStill, Same, SameTables

LEMMA InsertStill ==
  ASSUME NEW f, State(f), NEW a \in AudioSlots, f.pcr \in Times, f.diff[a] \in Times,
         NEW x \in TextSlots, Same(f, InsertSilence(f, a))
  PROVE  TextStill(f, InsertSilence(f, a), x)
<1> DEFINE g == InsertSilence(f, a)
           new == SilencePackets(f, a)
<1>1. Adds(f, g, a, new) /\ g.since = f.since /\ x # a
  BY SilenceAdds, InsertKeeps DEF AudioSlots, TextSlots
<1> HIDE DEF g, new
<1>2. Adds(f, g, a, new) \/ Keeps(f, g)
  BY <1>1
<1>3. Same(f, g) /\ g.since[x] = f.since[x]
  BY <1>1 DEF g
<1>4. TextStill(f, g, x)
  BY <1>1, <1>2, <1>3, ElsewhereStill
<1> QED
  BY <1>4 DEF g

LEMMA SilenceStill ==
  ASSUME NEW f, State(f), f.pcr \in Times, NEW x \in TextSlots
  PROVE  TextStill(f, Silence1(f), x) /\ TextStill(f, Silence2(f), x)
<1>1. "audio1" \in AudioSlots /\ "audio2" \in AudioSlots /\ f.diff["audio1"] \in Times
  BY DEF State, Ranges, AudioSlots
<1>2. TextStill(f, f, x)
  BY DEF TextStill
<1>3. TextStill(f, Silence1(f), x)
  <2>1. Same(f, Silence1(f))
    BY Silence1Is DEF Inserts
  <2>2. NeedsSilence(f, "audio1") => TextStill(f, InsertSilence(f, "audio1"), x)
    BY <1>1, <2>1, InsertStill DEF Silence1
  <2> QED
    BY <1>2, <2>2 DEF Silence1
<1>4. TextStill(f, Silence2(f), x)
  <2> DEFINE h == Begun2(f)
             s == InsertSilence(h, "audio2")
  <2>1. /\ State(h) /\ Same(f, h) /\ h.pcr \in Times /\ h.diff["audio2"] \in Times
        /\ h.since = f.since /\ Keeps(f, h)
        /\ Silence2(f) = IF NeedsSilence(f, "audio2") THEN s ELSE f
    BY BegunIs
  <2>2. Same(f, Silence2(f))
    BY Silence2Is DEF Inserts
  <2> HIDE DEF h
  <2>3. TextStill(f, h, x)
    BY <2>1 DEF TextStill, Keeps, Same, SameTables
  <2>4. NeedsSilence(f, "audio2") => Same(h, s)
    BY <2>1, <2>2 DEF Same, SameTables
  <2>5. NeedsSilence(f, "audio2") => TextStill(h, s, x)
    BY <1>1, <2>1, <2>4, InsertStill
  <2> HIDE DEF s
  <2>6. NeedsSilence(f, "audio2") => TextStill(f, s, x)
    BY <2>3, <2>5, StillTwice
  <2> QED
    BY <1>2, <2>1, <2>6
<1> QED
  BY <1>3, <1>4

LEMMA ManageStill ==
  ASSUME NEW f, State(f), f.pcr \in Times, NEW y \in TextSlots, NEW x \in TextSlots, x # y
  PROVE  TextStill(f, Manage(f, y), x)
<1> DEFINE g == Manage(f, y)
           new == <<ManagementPacket(f, y)>>
<1>1. /\ Manages(f, y) => Adds(f, g, y, new)
      /\ ~Manages(f, y) => Keeps(f, g)
      /\ ManagedTimes(f, g, y)
  BY ManageAdds
<1>5. Same(f, g)
  <2>1. Inserts(f, Manage(f, y))
    BY ManageIs
  <2> QED
    BY <2>1 DEF Inserts
<1> HIDE DEF g, new
<1>2. Adds(f, g, y, new) \/ Keeps(f, g)
  BY <1>1
<1>3. g.since[x] = f.since[x]
  BY <1>1 DEF ManagedTimes
<1>4. TextStill(f, g, x)
  BY <1>2, <1>3, <1>5, ElsewhereStill
<1> QED
  BY <1>4 DEF g

\* What the PCR at t does to the captions on x
TextManaged(f, g, t, x) ==
  /\ KindsOn(g.packets, x) = IF ManagesAt(f, t, x) THEN {"management"} ELSE {}
  /\ g.since[x] = SinceAt(f, t, x)

LEMMA ManageHere ==
  ASSUME NEW f, State(f), NEW x \in TextSlots, KindsOn(f.packets, x) = {}
  PROVE  TextManaged(f, Manage(f, x), f.pcr, x)
<1> DEFINE g == Manage(f, x)
           q == ManagementPacket(f, x)
<1>1. /\ Manages(f, x) => Adds(f, g, x, <<q>>)
      /\ ~Manages(f, x) => Keeps(f, g)
      /\ ManagedTimes(f, g, x)
  BY ManageAdds
<1>2. q.kind = "management"
  BY DEF ManagementPacket
<1>3. /\ WatchedAt(f, x) <=> WatchedIn(f, x)
      /\ ManagesAt(f, f.pcr, x) <=> Manages(f, x)
      /\ SinceAt(f, f.pcr, x) = SinceThen(f, x)
  BY DEF WatchedAt, WatchedIn, ManagesAt, Manages, Overdue, SinceAt, SinceThen
<1> HIDE DEF g, q
<1>4. g.since[x] = SinceAt(f, f.pcr, x)
  BY <1>1, <1>3 DEF ManagedTimes
<1>5. CASE Manages(f, x)
  <2>1. KindsOn(g.packets, x) = KindsOn(f.packets, x) \cup {"management"}
    BY <1>1, <1>2, <1>5, KindsMore DEF Adds
  <2> QED
    BY <1>3, <1>4, <1>5, <2>1 DEF TextManaged, g
<1>6. CASE ~Manages(f, x)
  <2>1. KindsOn(g.packets, x) = {}
    BY <1>1, <1>6 DEF Keeps
  <2> QED
    BY <1>3, <1>4, <1>6, <2>1 DEF TextManaged, g
<1> QED
  BY <1>5, <1>6

LEMMA ManagedBefore ==
  ASSUME NEW f, NEW g, NEW h, NEW t, NEW x, TextStill(f, g, x), TextManaged(g, h, t, x)
  PROVE  TextManaged(f, h, t, x)
BY DEF TextStill, TextManaged, ManagesAt, SinceAt, WatchedAt, Pid

LEMMA ManagedAfter ==
  ASSUME NEW f, NEW g, NEW h, NEW t, NEW x, TextManaged(f, g, t, x), TextStill(g, h, x)
  PROVE  TextManaged(f, h, t, x)
BY DEF TextStill, TextManaged

LEMMA PcrManaged ==
  ASSUME NEW f, State(f), f.packets = << >>, NEW p \in PacketSet, p.pcr \in Times,
         NEW x \in TextSlots
  PROVE  TextManaged(f, AddPcr(f, p), p.pcr, x) /\ AddPcr(f, p).pcr = p.pcr
<1> DEFINE g0 == PcrTaken(f, p)
           g1 == Stage1(f, p)
           g2 == Stage2(f, p)
           g3 == Stage3(f, p)
           g4 == Stage4(f, p)
           new == <<PcrPacket>>
<1>1. /\ AddPcr(f, p) = g4 /\ Reached(f, p, g0) /\ Reached(f, p, g1) /\ Reached(f, p, g2)
      /\ Reached(f, p, g3) /\ Reached(f, p, g4)
  BY StagesAre
<1>2. g0.since = f.since /\ (Keeps(f, g0) \/ Adds(f, g0, "PCR", new)) /\ Same(f, g0)
  BY TakenIs
<1>3. /\ g1 = Silence1(g0) /\ g2 = Silence2(g1)
      /\ g3 = Manage(g2, "caption") /\ g4 = Manage(g3, "superimpose")
  BY DEF Stage1, Stage2, Stage3, Stage4
<1>4. KindsOn(f.packets, x) = {}
  BY DEF KindsOn, On
<1> HIDE DEF g0, g1, g2, g3, g4, new
<1>5. "caption" \in TextSlots /\ "superimpose" \in TextSlots /\ TextSlots = {"caption", "superimpose"}
      /\ x # "PCR"
  BY DEF TextSlots
<1>6. \A g \in {g0, g1, g2, g3, g4} : State(g) /\ g.pcr = p.pcr /\ g.pcr \in Times
  BY <1>1 DEF Reached
<1>7. TextStill(f, g0, x)
  BY <1>2, <1>5, ElsewhereStill
<1>8. TextStill(g0, g1, x) /\ TextStill(g1, g2, x)
  BY <1>3, <1>6, SilenceStill
<1>9. TextStill(f, g2, x)
  BY <1>7, <1>8, StillTwice
<1>10. KindsOn(g2.packets, x) = {}
  BY <1>4, <1>9 DEF TextStill
<1>11. CASE x = "caption"
  <2>1. TextManaged(g2, g3, p.pcr, x)
    BY <1>3, <1>6, <1>10, <1>11, ManageHere
  <2>2. TextStill(g3, g4, x)
    BY <1>3, <1>5, <1>6, <1>11, ManageStill
  <2> QED
    BY <1>1, <1>6, <1>9, <2>1, <2>2, ManagedBefore, ManagedAfter
<1>12. CASE x = "superimpose"
  <2>1. TextStill(g2, g3, x)
    BY <1>3, <1>5, <1>6, <1>12, ManageStill
  <2>2. TextStill(f, g3, x) /\ KindsOn(g3.packets, x) = {}
    BY <1>9, <1>10, <2>1, StillTwice DEF TextStill
  <2>3. TextManaged(g3, g4, p.pcr, x)
    BY <1>3, <1>6, <1>12, <2>2, ManageHere
  <2> QED
    BY <1>1, <1>6, <2>2, <2>3, ManagedBefore
<1> QED
  BY <1>5, <1>11, <1>12

-----------------------------------------------------------------------------
(* The clock, and since when captions are silent.                          *)

LEMMA StepsAre ==
  /\ \A d \in Steps : d \in 1 .. PtsMod - 1 /\ (d < Absence \/ (d >= 2 * Absence /\ d + 2 * Absence < PtsMod))
  /\ Absence \in Nat \ {0} /\ Interval \in Nat \ {0} /\ Interval < Absence /\ 2 * Absence < PtsMod
  /\ PtsMod \in Nat \ {0} /\ Steps \subseteq Nat
<1>1. /\ Absence \in Nat \ {0} /\ Interval \in Nat \ {0} /\ Interval < Absence /\ 2 * Absence < PtsMod
      /\ PtsMod \in Nat \ {0} /\ Steps \subseteq Nat
  BY Constants, ClockAssumption
<1>2. ASSUME NEW d \in Steps
      PROVE  d \in 1 .. PtsMod - 1 /\ (d < Absence \/ (d >= 2 * Absence /\ d + 2 * Absence < PtsMod))
  BY <1>1, StepAssumption
<1> QED
  BY <1>1, <1>2

LEMMA PastIs ==
  ASSUME NEW t \in Times, NEW s \in Times
  PROVE  \/ t < s /\ Past(t, s) = PtsMod + t - s
         \/ t >= s /\ Past(t, s) = t - s
<1>1. PtsMod \in Nat \ {0} /\ t \in 0 .. PtsMod - 1 /\ s \in 0 .. PtsMod - 1
  BY Constants DEF Times
<1>2. \A x \in 0 .. 2 * PtsMod - 1 : x % PtsMod = IF x < PtsMod THEN x ELSE x - PtsMod
  BY <1>1, ModIs
<1> DEFINE sum == PtsMod + t - s
<1>3. sum \in 0 .. 2 * PtsMod - 1 /\ Past(t, s) = sum % PtsMod
  BY <1>1 DEF Past
<1>4. (sum < PtsMod <=> t < s) /\ sum - PtsMod = t - s
  BY <1>1
<1>5. Past(t, s) = IF sum < PtsMod THEN sum ELSE sum - PtsMod
  BY <1>2, <1>3
<1> QED
  BY <1>1, <1>4, <1>5

LEMMA PastOn ==
  ASSUME NEW t \in Times, NEW s \in Times, NEW d \in Nat, Past(t, s) + d < PtsMod
  PROVE  Past(Later(t, d), s) = Past(t, s) + d
<1>1. PtsMod \in Nat \ {0} /\ t \in 0 .. PtsMod - 1 /\ s \in 0 .. PtsMod - 1
  BY Constants DEF Times
<1>2. \A x \in 0 .. 2 * PtsMod - 1 : x % PtsMod = IF x < PtsMod THEN x ELSE x - PtsMod
  BY <1>1, ModIs
<1>3. (t < s /\ Past(t, s) = PtsMod + t - s) \/ (t >= s /\ Past(t, s) = t - s)
  BY PastIs
<1> DEFINE later == Later(t, d)
<1>4. later = (IF t + d < PtsMod THEN t + d ELSE t + d - PtsMod) /\ later \in 0 .. PtsMod - 1
  <2>1. t + d \in 0 .. 2 * PtsMod - 1
    BY <1>1, <1>3
  <2> QED
    BY <1>1, <1>2, <2>1 DEF Later
<1> HIDE DEF later
<1>5. (later < s /\ Past(later, s) = PtsMod + later - s) \/ (later >= s /\ Past(later, s) = later - s)
  <2>1. later \in Times
    BY <1>4 DEF Times
  <2> QED
    BY <2>1, PastIs
<1> QED
  BY <1>1, <1>3, <1>4, <1>5 DEF later

LEMMA PastSelf ==
  ASSUME NEW t \in Times
  PROVE  Past(t, t) = 0
BY Constants DEF Past, Times

LEMMA Moves ==
  ASSUME NEW t \in Times, NEW d \in Steps
  PROVE  Later(t, d) \in Times /\ Past(Later(t, d), t) = d /\ Later(t, d) # t
<1>1. d \in Nat /\ d # 0 /\ d < PtsMod
  BY StepsAre
<1>2. Past(t, t) = 0
  BY PastSelf
<1>3. Past(Later(t, d), t) = d
  BY <1>1, <1>2, PastOn
<1> QED
  BY <1>1, <1>2, <1>3, ClockIs

LEMMA DueIs ==
  ASSUME NEW t \in Times
  PROVE  NextDue(t) \in Times /\ Past(t, NextDue(t)) = Interval /\ NextDue(t) # NoTime
<1>1. Interval \in 1 .. PtsMod - 1 /\ Interval \in Times /\ PtsMod \in Nat
  <2>1. Interval \in Nat \ {0} /\ Interval < Absence /\ 2 * Absence < PtsMod /\ Absence \in Nat /\ PtsMod \in Nat
    BY StepsAre
  <2> QED
    BY <2>1, Constants
<1>2. NextDue(t) \in Times
  BY <1>1, ClockIs DEF NextDue
<1>3. Past(t, Past(t, Interval)) = Interval
  <2>1. PtsMod \in Nat \ {0} /\ t \in 0 .. PtsMod - 1 /\ Interval \in 0 .. PtsMod - 1
    BY <1>1 DEF Times
  <2> DEFINE due == Past(t, Interval)
  <2>2. (t < Interval /\ due = PtsMod + t - Interval) \/ (t >= Interval /\ due = t - Interval)
    BY <1>1, PastIs
  <2>3. due \in Times
    BY <2>1, <2>2 DEF Times
  <2> HIDE DEF due
  <2>4. (t < due /\ Past(t, due) = PtsMod + t - due) \/ (t >= due /\ Past(t, due) = t - due)
    BY <2>3, PastIs
  <2> QED
    BY <1>1, <2>1, <2>2, <2>3, <2>4 DEF due
<1>4. NextDue(t) # NoTime
  BY <1>2, <1>1 DEF Times, NoTime
<1> QED
  BY <1>2, <1>3, <1>4 DEF NextDue

\* The packets that may come once more have no PCR.
Untimed == \A pid \in Pids : source[pid].last.pcr = NoTime

LEMMA TimedCases ==
  ASSUME NEW p, p.pcr = NoTime, NEW pt \in Timed(p)
  PROVE  \/ pt[1].pcr = NoTime /\ pt[2] = clock
         \/ \E d \in Steps : pt[2] = Later(clock, d)
<1>1. CASE pt = <<p, clock>>
  <2>1. pt[1] = p /\ pt[2] = clock
    BY <1>1
  <2> QED
    BY <2>1
<1>2. ASSUME NEW d \in IF p.pid = filter.pcrPid THEN Steps ELSE {},
             pt = <<[p EXCEPT !.pcr = Later(clock, d)], Later(clock, d)>>
      PROVE  \E e \in Steps : pt[2] = Later(clock, e)
  <2>1. pt[2] = Later(clock, d) /\ d \in Steps
    BY <1>2
  <2> QED
    BY <2>1
<1> QED
  BY <1>1, <1>2 DEF Timed

LEMMA ReceiveTimed ==
  ASSUME Inv, NEW pid \in Pids, Receive(pid)
  PROVE  \E p \in Following(pid), q \in PacketSet :
           /\ p.pcr = NoTime /\ StreamPacket(q)
           /\ source' = [source EXCEPT ![pid] = [last |-> p, lost |-> 0]]
           /\ \/ q.pcr = NoTime /\ clock' = clock
              \/ \E d \in Steps : clock' = Later(clock, d)
<1>0. SourceOK /\ clock \in Times
  BY DEF Inv
<1>1. PICK p \in Following(pid) : \E pt \in Timed(p) :
        /\ clock' = pt[2]
        /\ source' = [source EXCEPT ![pid] = [last |-> [p EXCEPT !.pcr = NoTime], lost |-> 0]]
        /\ StreamPacket(pt[1])
  BY DEF Receive
<1>2. p \in PacketSet /\ p.pcr = NoTime
  BY <1>0, FollowingIs
<1>3. [p EXCEPT !.pcr = NoTime] = p
  BY <1>2 DEF PacketSet
<1>4. PICK pt \in Timed(p) :
        /\ clock' = pt[2] /\ StreamPacket(pt[1])
        /\ source' = [source EXCEPT ![pid] = [last |-> p, lost |-> 0]]
  BY <1>1, <1>3
<1>5. pt[1] \in PacketSet
  BY <1>0, <1>2, TimedIs
<1>6. \/ pt[1].pcr = NoTime /\ pt[2] = clock
      \/ \E d \in Steps : pt[2] = Later(clock, d)
  BY <1>2, TimedCases
<1> QED
  BY <1>2, <1>4, <1>5, <1>6

LEMMA UntimedSource ==
  ASSUME Untimed, SourceOK, NEW pid \in Pids, NEW p, p.pcr = NoTime, NEW lost,
         source' = [source EXCEPT ![pid] = [last |-> p, lost |-> lost]]
  PROVE  Untimed'
<1>1. source'[pid].last = p /\ \A x \in Pids : x # pid => source'[x] = source[x]
  BY DEF SourceOK
<1> QED
  BY <1>1 DEF Untimed

\* The clock moves on by one of the steps; when it does not, no packet has a PCR.
LEMMA ClockStep ==
  ASSUME Inv, Untimed, Next
  PROVE  /\ Untimed'
         /\ \/ \E d \in Steps : clock' = Later(clock, d)
            \/ clock' = clock /\ Tabled(Cleared, filter')
            \/ clock' = clock /\ \E p \in PacketSet : StreamPacket(p) /\ p.pcr = NoTime
<1>1. State(filter) /\ TablesOK(filter) /\ SourceOK /\ clock \in Times
  BY DEF Inv
<1>2. ASSUME UNCHANGED <<clock, source>>
      PROVE  Untimed'
  BY <1>2 DEF Untimed
<1>3. CASE PatPacket
  BY <1>1, <1>2, <1>3, PatTabled DEF PatPacket
<1>4. CASE PmtPacket
  BY <1>1, <1>2, <1>4, PmtTabled DEF PmtPacket
<1>5. ASSUME NEW pid \in Pids, Receive(pid)
      PROVE  /\ Untimed'
             /\ \/ \E d \in Steps : clock' = Later(clock, d)
                \/ clock' = clock /\ \E p \in PacketSet : StreamPacket(p) /\ p.pcr = NoTime
  <2>1. PICK p \in Following(pid), q \in PacketSet :
           /\ p.pcr = NoTime /\ StreamPacket(q)
           /\ source' = [source EXCEPT ![pid] = [last |-> p, lost |-> 0]]
           /\ \/ q.pcr = NoTime /\ clock' = clock
              \/ \E d \in Steps : clock' = Later(clock, d)
    BY <1>5, ReceiveTimed
  <2>2. Untimed'
    BY <1>1, <2>1, UntimedSource
  <2> QED
    BY <2>1, <2>2
<1>6. ASSUME NEW pid \in Pids, Lose(pid)
      PROVE  Untimed' /\ clock' = clock /\ Tabled(Cleared, filter')
  <2>1. State(Cleared) /\ ClearedFields
    BY <1>1, ClearedHolds
  <2>2. Tabled(Cleared, Cleared)
    BY <2>1, TabledKeeps DEF Keeps
  <2>3. PICK p \in Following(pid) :
          source' = [source EXCEPT ![pid] = [last |-> p, lost |-> source[pid].lost + 1]]
    BY <1>6, LoseIs
  <2>4. p.pcr = NoTime
    BY <1>1, FollowingIs
  <2>5. Untimed'
    BY <1>1, <2>3, <2>4, UntimedSource
  <2> QED
    BY <1>6, <2>2, <2>5 DEF Lose
<1>7. ASSUME NEW pid \in Pids, Again(pid)
      PROVE  Untimed' /\ clock' = clock /\ \E p \in PacketSet : StreamPacket(p) /\ p.pcr = NoTime
  <2>1. PICK p \in OnceMore(source[pid].last) : StreamPacket(p)
    BY <1>7 DEF Again, OnceMore
  <2>2. p \in PacketSet /\ source[pid].last \in PacketSet /\ source[pid].last.pcr = NoTime
    BY <1>1, <2>1, AgainIs DEF SourceOK, Untimed
  <2>3. p.pcr = NoTime
    <3>1. [source[pid].last EXCEPT !.payload = FALSE, !.start = FALSE].pcr = source[pid].last.pcr
      BY <2>2 DEF PacketSet
    <3> QED
      BY <2>1, <2>2, <3>1 DEF OnceMore
  <2>4. clock' = clock /\ source' = source
    BY <1>7 DEF Again
  <2> QED
    BY <1>2, <2>1, <2>2, <2>3, <2>4
<1> QED
  BY <1>3, <1>4, <1>5, <1>6, <1>7 DEF Next

-----------------------------------------------------------------------------
(* What a step does to captions.                                           *)

LEMMA KindsAre ==
  ASSUME NEW x
  PROVE  Kinds(x) = KindsOn(filter'.packets, x)
BY DEF Kinds, KindsOn, On

LEMMA NoneMarked ==
  ASSUME NEW f, NEW g, NEW kinds, Further(f, g, kinds), f.packets = << >>, NEW k \in kinds, NEW x
  PROVE  k \notin KindsOn(g.packets, x)
<1>1. KindsOn(f.packets, x) = {}
  BY DEF KindsOn, On
<1> QED
  BY <1>1, KindsFurther

\* The call that takes the packet on either sends captions on x or leaves them alone.
TextTaken(f, g, x) ==
  /\ g.pcr = f.pcr
  /\ ("management" \in KindsOn(g.packets, x)) = ("management" \in KindsOn(f.packets, x))
  /\ \/ /\ ("text" \in KindsOn(g.packets, x)) = ("text" \in KindsOn(f.packets, x))
        /\ g.since[x] = f.since[x]
     \/ "text" \in KindsOn(g.packets, x) /\ g.since[x] = f.pcr

LEMMA DispatchedTaken ==
  ASSUME NEW f, State(f), NEW g, Dispatched(f, g), NEW x \in TextSlots
  PROVE  TextTaken(f, g, x)
<1>1. CASE Onward(f, g)
  <2>1. Further(f, g, Marked) /\ "text" \in Marked /\ "management" \in Marked
    BY <1>1 DEF Onward, Marked
  <2>2. /\ "text" \in KindsOn(g.packets, x) <=> "text" \in KindsOn(f.packets, x)
        /\ "management" \in KindsOn(g.packets, x) <=> "management" \in KindsOn(f.packets, x)
    BY <2>1, KindsFurther
  <2> QED
    BY <1>1, <2>2 DEF Onward, TextTaken
<1>2. ASSUME NEW y \in TextSlots, Spoken(f, g, y)
      PROVE  TextTaken(f, g, x)
  <2>1. /\ KindsOn(g.packets, y) = KindsOn(f.packets, y) \cup {"text"}
        /\ y # x => KindsOn(g.packets, x) = KindsOn(f.packets, x)
        /\ g.pcr = f.pcr /\ g.since = [f.since EXCEPT ![y] = f.pcr]
    BY <1>2 DEF Spoken
  <2>2. DOMAIN f.since = TextSlots
    BY DEF State, Shape
  <2>3. CASE y = x
    BY <2>1, <2>2, <2>3 DEF TextTaken
  <2>4. CASE y # x
    BY <2>1, <2>2, <2>4 DEF TextTaken
  <2> QED
    BY <2>3, <2>4
<1> QED
  BY <1>1, <1>2 DEF Dispatched

\* Nothing happens on x, captions come on x, the clock ticks.
CaptionsStill(x) ==
  /\ clock' = clock /\ filter'.pcr \in {filter.pcr, NoTime}
  /\ "text" \notin Kinds(x) /\ "management" \notin Kinds(x) /\ filter'.since[x] = filter.since[x]

CaptionsCome(x) ==
  /\ clock' = clock /\ filter'.pcr = filter.pcr
  /\ "text" \in Kinds(x) /\ "management" \notin Kinds(x) /\ filter'.since[x] = filter.pcr

CaptionsTick(x) ==
  /\ \E d \in Steps : clock' = Later(clock, d)
  /\ filter'.pcr = clock'
  /\ ("management" \in Kinds(x)) = ManagesAt(filter, clock', x)
  /\ filter'.since[x] = IF "text" \in Kinds(x) THEN clock' ELSE SinceAt(filter, clock', x)

LEMMA TabledStill ==
  ASSUME State(filter), Tabled(Cleared, filter'), clock' = clock, NEW x \in TextSlots
  PROVE  CaptionsStill(x)
<1>1. ClearedFields
  BY ClearedHolds
<1>2. /\ Further(Cleared, filter', Marked) /\ "text" \in Marked /\ "management" \in Marked
      /\ Cleared.packets = << >>
      /\ filter'.since = filter.since /\ filter'.pcr \in {filter.pcr, NoTime}
  BY <1>1 DEF Tabled, Marked, ClearedFields
<1>3. "text" \notin KindsOn(filter'.packets, x) /\ "management" \notin KindsOn(filter'.packets, x)
  BY <1>2, NoneMarked
<1> QED
  BY <1>2, <1>3, KindsAre DEF CaptionsStill

LEMMA UntimedTaken ==
  ASSUME State(filter), Dispatched(Cleared, filter'), clock' = clock, NEW x \in TextSlots
  PROVE  CaptionsStill(x) \/ CaptionsCome(x)
<1>1. State(Cleared) /\ ClearedFields
  BY ClearedHolds
<1>2. TextTaken(Cleared, filter', x)
  BY <1>1, DispatchedTaken
<1>3. KindsOn(Cleared.packets, x) = {}
  BY <1>1 DEF ClearedFields, KindsOn, On
<1>4. Cleared.since = filter.since /\ Cleared.pcr = filter.pcr
  BY <1>1 DEF ClearedFields
<1> QED
  BY <1>2, <1>3, <1>4, KindsAre DEF TextTaken, CaptionsStill, CaptionsCome

LEMMA TickTaken ==
  ASSUME Inv, Unasked, Next, NEW d \in Steps, clock' = Later(clock, d), NEW x \in TextSlots
  PROVE  CaptionsTick(x)
<1>1. State(filter) /\ clock \in Times
  BY DEF Inv
<1>2. clock' # clock /\ clock' \in Times
  BY <1>1, Moves
<1>3. PICK p \in PacketSet : /\ p.pid = filter.pcrPid /\ p.pcr = clock' /\ p.pcr # NoTime
                             /\ State(AfterPcr(p)) /\ Dispatched(AfterPcr(p), filter')
  BY <1>2, TickIs
<1>4. State(Cleared) /\ ClearedFields
  BY <1>1, ClearedHolds
<1> DEFINE f == AfterPcr(p)
<1>5. f = AddPcr(Cleared, p)
  BY <1>3 DEF AfterPcr
<1>6. Cleared.packets = << >> /\ p.pcr \in Times
  BY <1>2, <1>3, <1>4 DEF ClearedFields
<1>7. TextManaged(Cleared, f, p.pcr, x) /\ f.pcr = p.pcr
  BY <1>4, <1>5, <1>6, PcrManaged
<1> HIDE DEF f
<1>8. TextTaken(f, filter', x)
  BY <1>3, DispatchedTaken DEF f
<1>9. ManagesAt(Cleared, clock', x) = ManagesAt(filter, clock', x) /\ SinceAt(Cleared, clock', x) = SinceAt(filter, clock', x)
  BY <1>4 DEF ManagesAt, SinceAt, WatchedAt, ClearedFields, Pid
<1>10. /\ KindsOn(f.packets, x) = IF ManagesAt(filter, clock', x) THEN {"management"} ELSE {}
       /\ f.since[x] = SinceAt(filter, clock', x) /\ f.pcr = clock'
  BY <1>3, <1>7, <1>9 DEF TextManaged
<1>11. /\ ("management" \in KindsOn(f.packets, x)) = ManagesAt(filter, clock', x)
       /\ "text" \notin KindsOn(f.packets, x)
  <2>1. ManagesAt(filter, clock', x) \in BOOLEAN
    BY DEF ManagesAt, WatchedAt, Absent, Plausible
  <2> QED
    BY <1>10, <2>1
<1>12. /\ ("management" \in Kinds(x)) = ManagesAt(filter, clock', x)
       /\ filter'.since[x] = IF "text" \in Kinds(x) THEN clock' ELSE SinceAt(filter, clock', x)
       /\ filter'.pcr = clock'
  BY <1>8, <1>10, <1>11, KindsAre DEF TextTaken
<1> QED
  BY <1>12 DEF CaptionsTick

LEMMA CaptionStep ==
  ASSUME Inv, Unasked, Untimed, Next, NEW x \in TextSlots
  PROVE  CaptionsStill(x) \/ CaptionsCome(x) \/ CaptionsTick(x)
<1>1. State(filter) /\ Collecting(filter)
  BY DEF Inv
<1>2. ASSUME NEW d \in Steps, clock' = Later(clock, d)
      PROVE  CaptionsTick(x)
  BY <1>2, TickTaken
<1>3. CASE clock' = clock /\ Tabled(Cleared, filter')
  BY <1>1, <1>3, TabledStill
<1>4. ASSUME clock' = clock, NEW p \in PacketSet, StreamPacket(p), p.pcr = NoTime
      PROVE  CaptionsStill(x) \/ CaptionsCome(x)
  <2>1. AfterPcr(p) = Cleared
    BY <1>4 DEF AfterPcr
  <2>2. Tabled(Cleared, filter') \/ Dispatched(Cleared, filter')
    BY <1>1, <1>4, <2>1, StreamSends
  <2> QED
    BY <1>1, <1>4, <2>2, TabledStill, UntimedTaken
<1> QED
  BY <1>2, <1>3, <1>4, ClockStep

-----------------------------------------------------------------------------
(* For how long captions have been quiet.                                  *)

\* What the filter keeps of a stream of captions tells for how long it has been quiet.
SilentFor(x) ==
  /\ quiet[x] \in 0 .. 2 * Absence /\ after[x] \in {"text", "management", "jump"}
  /\ filter.since[x] # NoTime =>
       /\ quiet[x] <= Limit(x)
       /\ Past(clock, filter.since[x]) = quiet[x] + (Absence - Limit(x))

QuietInv ==
  /\ Inv /\ Unasked /\ Untimed /\ filter.pcr \in {NoTime, clock}
  /\ \A x \in TextSlots : SilentFor(x)

LEMMA MinIs ==
  ASSUME NEW a \in Nat, NEW b \in Nat
  PROVE  Min({a, b}) = IF a <= b THEN a ELSE b
<1> DEFINE m == IF a <= b THEN a ELSE b
<1>1. m \in {a, b} /\ \A y \in {a, b} : m <= y
  OBVIOUS
<1>2. ASSUME NEW x \in {a, b}, \A y \in {a, b} : x <= y
      PROVE  x = m
  BY <1>2
<1> QED
  BY <1>1, <1>2 DEF Min

LEMMA LimitIs ==
  ASSUME NEW x \in TextSlots, SilentFor(x)
  PROVE  Limit(x) \in Nat /\ Limit(x) <= Absence /\ Absence - Limit(x) \in {0, Interval}
BY StepsAre DEF Limit

\* A tick, seen from a stream that is watched
LEMMA TickSilence ==
  ASSUME QuietInv, NEW d \in Steps, clock' = Later(clock, d), NEW x \in TextSlots, Watched(x)
  PROVE  /\ Past(clock', filter.since[x]) = Silence(x) + (Absence - Limit(x))
         /\ Absent(clock', filter.since[x]) <=> Silence(x) > Limit(x)
         /\ Plausible(clock', filter.since[x]) <=> ~Jumped
         /\ Jumped => Silence(x) > Limit(x)
<1> DEFINE s == filter.since[x]
           q == quiet[x]
           l == Limit(x)
<1>1. State(filter) /\ clock \in Times /\ SilentFor(x)
  BY DEF QuietInv, Inv
<1>2. s \in Times
  BY <1>1 DEF State, Ranges, Watched
<1>3. q \in Nat /\ q <= l /\ Past(clock, s) = q + (Absence - l) /\ l \in Nat /\ l <= Absence
  BY <1>1, LimitIs, StepsAre DEF SilentFor, Watched
<1>4. Past(clock', clock) = d
  BY <1>1, Moves
<1>5. /\ d \in Nat /\ d > 0 /\ (d < Absence \/ (d >= 2 * Absence /\ d + 2 * Absence < PtsMod))
      /\ Absence \in Nat /\ 2 * Absence < PtsMod /\ PtsMod \in Nat
  BY StepsAre
<1>6. Silence(x) = q + d /\ (Jumped <=> d >= 2 * Absence)
  BY <1>4 DEF Silence, Jumped
<1> HIDE DEF s, q, l
<1>7. Past(clock, s) + d < PtsMod
  BY <1>3, <1>5
<1>8. Past(clock', s) = Past(clock, s) + d
  BY <1>1, <1>2, <1>5, <1>7, PastOn
<1>9. Past(clock', s) = Silence(x) + (Absence - l)
  BY <1>3, <1>5, <1>6, <1>8
<1>10. (Past(clock', s) > Absence <=> Silence(x) > l) /\ (Jumped => Silence(x) > l)
  BY <1>3, <1>5, <1>6, <1>9
<1>11. Past(clock', s) < 2 * Absence <=> ~Jumped
  BY <1>3, <1>5, <1>6, <1>9
<1> QED
  BY <1>9, <1>10, <1>11 DEF s, l, Absent, Plausible

LEMMA TickEvent ==
  ASSUME QuietInv, HNext, NEW x \in TextSlots, CaptionsTick(x)
  PROVE  /\ Ticked
         /\ ("management" \in Kinds(x)) = (~Jumped /\ Watched(x) /\ Silence(x) > Limit(x))
<1>1. PICK d \in Steps : clock' = Later(clock, d)
  BY DEF CaptionsTick
<1>2. Ticked
  BY <1>1, Moves DEF QuietInv, Inv, Ticked
<1>3. ("management" \in Kinds(x)) = ManagesAt(filter, clock', x)
  BY DEF CaptionsTick
<1>4. Watched(x) <=> WatchedAt(filter, x)
  BY DEF Watched, WatchedAt
<1>5. CASE Watched(x)
  <2>1. /\ Absent(clock', filter.since[x]) <=> Silence(x) > Limit(x)
        /\ Plausible(clock', filter.since[x]) <=> ~Jumped
    BY <1>1, <1>5, TickSilence
  <2>2. ManagesAt(filter, clock', x) = (~Jumped /\ Watched(x) /\ Silence(x) > Limit(x))
    BY <1>4, <1>5, <2>1 DEF ManagesAt
  <2> QED
    BY <1>2, <1>3, <2>2
<1>6. CASE ~Watched(x)
  BY <1>2, <1>3, <1>4, <1>6 DEF ManagesAt
<1> QED
  BY <1>5, <1>6

\* The silence starts anew, or goes on.
Anew(x)   == quiet'[x] = 0 /\ after'[x] = Event(x) /\ Event(x) \in {"text", "management", "jump"}
GoesOn(x) == quiet'[x] = Min({Silence(x), 2 * Absence}) /\ after'[x] = after[x] /\ Event(x) = "none"

LEMMA HistoryIs ==
  ASSUME HNext, NEW x \in TextSlots
  PROVE  Anew(x) \/ GoesOn(x)
<1>1. /\ quiet'[x] = IF Event(x) # "none" THEN 0 ELSE Min({Silence(x), 2 * Absence})
      /\ after'[x] = IF Event(x) # "none" THEN Event(x) ELSE after[x]
  BY DEF HNext
<1>2. Event(x) \in {"text", "management", "jump", "none"}
  BY DEF Event
<1> HIDE DEF Event
<1> QED
  BY <1>1, <1>2 DEF Anew, GoesOn

LEMMA StillSilent ==
  ASSUME QuietInv, HNext, NEW x \in TextSlots, CaptionsStill(x)
  PROVE  SilentFor(x)'
<1>1. Event(x) = "none"
  BY DEF Event, CaptionsStill, Ticked
<1>2. GoesOn(x)
  BY <1>1, HistoryIs DEF Anew
<1>3. clock \in Times /\ SilentFor(x) /\ clock' = clock /\ filter'.since[x] = filter.since[x]
  BY DEF QuietInv, Inv, CaptionsStill
<1>4. Silence(x) = quiet[x]
  <2>1. Past(clock', clock) = 0
    BY <1>3, PastSelf
  <2> QED
    BY <1>3, <2>1, StepsAre DEF Silence, SilentFor
<1>5. quiet'[x] = quiet[x] /\ after'[x] = after[x]
  <2>1. quiet[x] \in Nat /\ 2 * Absence \in Nat /\ quiet[x] <= 2 * Absence
    BY <1>3, StepsAre DEF SilentFor
  <2> QED
    BY <1>2, <1>4, <2>1, MinIs DEF GoesOn
<1>6. Limit(x)' = Limit(x)
  BY <1>5 DEF Limit
<1> QED
  BY <1>3, <1>5, <1>6 DEF SilentFor

LEMMA ComeSilent ==
  ASSUME QuietInv, HNext, NEW x \in TextSlots, CaptionsCome(x)
  PROVE  SilentFor(x)'
<1>1. Event(x) = "text"
  BY DEF Event, CaptionsCome
<1>2. quiet'[x] = 0 /\ after'[x] = "text"
  BY <1>1, HistoryIs DEF Anew, GoesOn
<1>3. Limit(x)' = Absence
  BY <1>2 DEF Limit
<1>4. clock' = clock /\ filter'.since[x] \in {NoTime, clock} /\ clock \in Times
  BY DEF QuietInv, Inv, CaptionsCome
<1>5. Past(clock', clock) = 0
  BY <1>4, PastSelf
<1> QED
  BY <1>2, <1>3, <1>4, <1>5, StepsAre DEF SilentFor

LEMMA TickSilent ==
  ASSUME QuietInv, HNext, NEW x \in TextSlots, CaptionsTick(x)
  PROVE  SilentFor(x)'
<1>1. PICK d \in Steps : clock' = Later(clock, d)
  BY DEF CaptionsTick
<1>2. /\ Ticked
      /\ ("management" \in Kinds(x)) = (~Jumped /\ Watched(x) /\ Silence(x) > Limit(x))
  BY TickEvent
<1>3. filter'.since[x] = IF "text" \in Kinds(x) THEN clock' ELSE SinceAt(filter, clock', x)
  BY DEF CaptionsTick
<1>4. Watched(x) <=> WatchedAt(filter, x)
  BY DEF Watched, WatchedAt
<1>5. clock' \in Times /\ SilentFor(x)
  BY <1>1, Moves DEF QuietInv, Inv
<1>6. CASE "text" \in Kinds(x) \/ ~Watched(x)
  <2>1. Event(x) = "text"
    BY <1>2, <1>6 DEF Event
  <2>2. quiet'[x] = 0 /\ after'[x] = "text"
    BY <2>1, HistoryIs DEF Anew, GoesOn
  <2>3. Limit(x)' = Absence
    BY <2>2 DEF Limit
  <2>4. filter'.since[x] = clock'
    BY <1>3, <1>4, <1>6 DEF SinceAt
  <2>5. Past(clock', clock') = 0
    BY <1>5, PastSelf
  <2> QED
    BY <2>2, <2>3, <2>4, <2>5, StepsAre DEF SilentFor
<1>7. CASE "text" \notin Kinds(x) /\ Watched(x) /\ Silence(x) > Limit(x)
  <2>1. Event(x) = IF Jumped THEN "jump" ELSE "management"
    BY <1>2, <1>7 DEF Event
  <2>2. quiet'[x] = 0 /\ after'[x] \in {"management", "jump"}
    BY <2>1, HistoryIs DEF Anew, GoesOn
  <2>3. Limit(x)' = Absence - Interval
    BY <2>2 DEF Limit
  <2>4. Absent(clock', filter.since[x])
    BY <1>1, <1>7, TickSilence
  <2>5. filter'.since[x] = NextDue(clock')
    BY <1>3, <1>4, <1>7, <2>4 DEF SinceAt
  <2>6. Past(clock', NextDue(clock')) = Interval
    BY <1>5, DueIs
  <2> QED
    BY <2>2, <2>3, <2>5, <2>6, StepsAre DEF SilentFor
<1>8. CASE "text" \notin Kinds(x) /\ Watched(x) /\ ~(Silence(x) > Limit(x))
  <2>1. /\ Past(clock', filter.since[x]) = Silence(x) + (Absence - Limit(x))
        /\ ~Absent(clock', filter.since[x]) /\ ~Jumped
    BY <1>1, <1>8, TickSilence
  <2>2. Event(x) = "none"
    BY <1>2, <1>8, <2>1 DEF Event
  <2>3. GoesOn(x)
    BY <2>2, HistoryIs DEF Anew
  <2>4. Silence(x) \in Nat /\ Limit(x) \in Nat /\ Silence(x) <= Limit(x) /\ Limit(x) <= Absence
        /\ 2 * Absence \in Nat /\ Absence \in Nat
    <3>1. Past(clock', clock) = d /\ d \in Nat
      BY <1>1, Moves, StepsAre DEF QuietInv, Inv
    <3>2. Silence(x) \in Nat
      BY <1>5, <3>1, StepsAre DEF Silence, SilentFor
    <3>3. Limit(x) \in Nat /\ Limit(x) <= Absence /\ 2 * Absence \in Nat /\ Absence \in Nat
      BY <1>5, LimitIs, StepsAre
    <3> QED
      BY <1>8, <3>2, <3>3
  <2>5. quiet'[x] = Silence(x) /\ after'[x] = after[x]
    <3>1. Min({Silence(x), 2 * Absence}) = IF Silence(x) <= 2 * Absence THEN Silence(x) ELSE 2 * Absence
      BY <2>4, MinIs
    <3> QED
      BY <2>3, <2>4, <3>1 DEF GoesOn
  <2>6. Limit(x)' = Limit(x)
    BY <2>5 DEF Limit
  <2>7. filter'.since[x] = filter.since[x]
    BY <1>3, <1>4, <1>8, <2>1 DEF SinceAt
  <2>8. quiet'[x] \in 0 .. 2 * Absence /\ quiet'[x] <= Limit(x)
    BY <2>4, <2>5
  <2> QED
    BY <1>5, <2>1, <2>5, <2>6, <2>7, <2>8 DEF SilentFor
<1> QED
  BY <1>6, <1>7, <1>8

LEMMA QuietInit ==
  ASSUME HInit
  PROVE  QuietInv
<1>1. Init /\ Inv /\ Unasked
  BY UnaskedInit DEF HInit, UnaskedInv
<1>2. filter.pcr = NoTime /\ filter.since = [x \in TextSlots |-> NoTime]
  BY <1>1 DEF Init
<1>3. Untimed
  BY <1>1 DEF Init, Untimed, NoPacket
<1>4. ASSUME NEW x \in TextSlots
      PROVE  SilentFor(x)
  BY <1>2, StepsAre DEF HInit, SilentFor
<1> QED
  BY <1>1, <1>2, <1>3, <1>4 DEF QuietInv

LEMMA QuietNext ==
  ASSUME QuietInv, [HNext]_hvars
  PROVE  QuietInv'
<1>1. CASE HNext
  <2>1. Inv /\ Unasked /\ Untimed /\ Next /\ filter.pcr \in {NoTime, clock}
    BY <1>1 DEF QuietInv, HNext
  <2>2. Inv' /\ Unasked' /\ Untimed'
    BY <2>1, InvStep, UnaskedStep, ClockStep
  <2>3. ASSUME NEW x \in TextSlots
        PROVE  SilentFor(x)' /\ filter'.pcr \in {NoTime, clock'}
    <3>1. CaptionsStill(x) \/ CaptionsCome(x) \/ CaptionsTick(x)
      BY <2>1, CaptionStep
    <3>2. SilentFor(x)'
      BY <1>1, <3>1, StillSilent, ComeSilent, TickSilent
    <3>3. filter'.pcr \in {NoTime, clock'}
      BY <2>1, <3>1 DEF CaptionsStill, CaptionsCome, CaptionsTick
    <3> QED
      BY <3>2, <3>3
  <2>4. "caption" \in TextSlots
    BY DEF TextSlots
  <2> QED
    BY <2>2, <2>3, <2>4 DEF QuietInv
<1>2. CASE UNCHANGED hvars
  <2>1. UNCHANGED vars /\ UNCHANGED <<quiet, after>>
    BY <1>2 DEF hvars, vars
  <2>2. Inv'
    BY <2>1, InvUnchanged DEF QuietInv
  <2> QED
    BY <2>1, <2>2 DEF QuietInv, Unasked, HasTarget, Untimed, SilentFor, Limit, vars
<1> QED
  BY <1>1, <1>2

LEMMA QuietAlways == HSpec => []QuietInv
<1>1. HInit => QuietInv
  BY QuietInit
<1>2. QuietInv /\ [HNext]_hvars => QuietInv'
  BY QuietNext
<1> QED
  BY <1>1, <1>2, PTL DEF HSpec

\* A management packet comes only at a PCR that did not jump, on a stream that is watched,
\* after a silence longer than the limit: for any clock, whatever the captions do and the
\* clock in between.
THEOREM ManagementIsSpaced == HSpec => ManagementSpacing
<1>1. QuietInv /\ [HNext]_hvars =>
        [\A x \in TextSlots : "management" \in Kinds(x) =>
           Ticked /\ ~Jumped /\ Watched(x) /\ Silence(x) > Limit(x)]_hvars
  <2>1. ASSUME QuietInv, HNext, NEW x \in TextSlots, "management" \in Kinds(x)
        PROVE  Ticked /\ ~Jumped /\ Watched(x) /\ Silence(x) > Limit(x)
    <3>1. CaptionsStill(x) \/ CaptionsCome(x) \/ CaptionsTick(x)
      BY <2>1, CaptionStep DEF QuietInv, HNext
    <3>2. CaptionsTick(x)
      BY <2>1, <3>1 DEF CaptionsStill, CaptionsCome
    <3> QED
      BY <2>1, <3>2, TickEvent
  <2> QED
    BY <2>1
<1> QED
  BY <1>1, QuietAlways, PTL DEF ManagementSpacing, HSpec

\* Where captions have been quiet for longer than the limit, the next PCR brings a management
\* packet, unless it jumped: the filter's own clock never lags behind the silence.
THEOREM ManagementIsDue == HSpec => ManagementDue
<1>1. QuietInv /\ [HNext]_hvars =>
        [\A x \in TextSlots :
           (Ticked /\ ~Jumped /\ Watched(x) /\ Silence(x) > Limit(x)) => "management" \in Kinds(x)]_hvars
  <2>1. ASSUME QuietInv, HNext, NEW x \in TextSlots, Ticked, ~Jumped, Watched(x), Silence(x) > Limit(x)
        PROVE  "management" \in Kinds(x)
    <3>1. CaptionsStill(x) \/ CaptionsCome(x) \/ CaptionsTick(x)
      BY <2>1, CaptionStep DEF QuietInv, HNext
    <3>2. CaptionsTick(x)
      BY <2>1, <3>1 DEF CaptionsStill, CaptionsCome, Ticked
    <3> QED
      BY <2>1, <3>2, TickEvent
  <2> QED
    BY <2>1
<1> QED
  BY <1>1, QuietAlways, PTL DEF ManagementDue, HSpec
=============================================================================
