------------------------ MODULE ServiceFilterProofs ------------------------
(***************************************************************************)
(* Theorems about ServiceFilter: what goes out is announced, the PCR is    *)
(* where the PMT says, and audio goes out in whole PES.                    *)
(***************************************************************************)
EXTENDS ServiceFilter, IndexLemmas

Counters == 0 .. CounterMod - 1

PacketSet == [pid : Pids, start : BOOLEAN, counter : Counters, payload : BOOLEAN,
              pes : Nat, index : Nat, of : Nat \ {0},
              pcr : Times \cup {NoTime}, pts : Times \cup {NoTime}]

LEMMA Constants ==
  /\ CounterMod \in Nat /\ CounterMod >= 2 /\ PtsMod \in Nat \ {0} /\ UnitLimit \in Nat \ {0}
  /\ Frame \in Nat \ {0} /\ Accept \in Nat /\ Absence \in Nat /\ Interval \in Times
  /\ 2 * Accept + Frame < PtsMod
  /\ 0 \notin Pids /\ AudioPids \subseteq Pids /\ PesLengths \subseteq Nat \ {0}
  /\ MaxBurst \in Nat /\ PesMod \in Nat \ {0} /\ Steps \subseteq Nat /\ Lead \in Times
<1>1. Interval \in Nat /\ Absence \in Nat /\ Interval < Absence /\ 2 * Absence < PtsMod /\ PtsMod \in Nat
  BY PtsAssumption, ClockAssumption
<1>2. Interval \in Times
  BY <1>1 DEF Times
<1> QED
  BY <1>2, UnitAssumption, PtsAssumption, ClockAssumption, FilterAssumption

-----------------------------------------------------------------------------
(* Sequences of packets sent, whatever the packets are.                    *)

Sequence(s) == s \in Seq(ToSet(s))

LEMMA JoinIs ==
  ASSUME NEW s, NEW t, Sequence(s), Sequence(t)
  PROVE  Sequence(s \o t) /\ ToSet(s \o t) = ToSet(s) \cup ToSet(t)
<1> DEFINE S == ToSet(s) \cup ToSet(t)
           u == s \o t
<1>1. s \in Seq(S) /\ t \in Seq(S)
  BY DEF Sequence
<1> HIDE DEF S
<1>2. /\ u \in Seq(S) /\ DOMAIN u = 1 .. Len(s) + Len(t)
      /\ Len(s) \in Nat /\ Len(t) \in Nat /\ DOMAIN s = 1 .. Len(s) /\ DOMAIN t = 1 .. Len(t)
      /\ \A i \in 1 .. Len(s) : u[i] = s[i]
      /\ \A i \in 1 .. Len(t) : u[Len(s) + i] = t[i]
  BY <1>1
<1> HIDE DEF u
<1>3. ToSet(u) \subseteq ToSet(s) \cup ToSet(t)
  <2>1. ASSUME NEW i \in DOMAIN u
        PROVE  u[i] \in ToSet(s) \cup ToSet(t)
    <3>1. CASE i <= Len(s)
      BY <1>2, <2>1, <3>1 DEF ToSet
    <3>2. CASE ~(i <= Len(s))
      <4>1. i - Len(s) \in 1 .. Len(t) /\ i = Len(s) + (i - Len(s))
        BY <1>2, <2>1, <3>2
      <4>2. u[i] = t[i - Len(s)]
        BY <1>2, <4>1
      <4> QED
        BY <1>2, <4>1, <4>2 DEF ToSet
    <3> QED
      BY <3>1, <3>2
  <2> QED
    BY <2>1 DEF ToSet
<1>4. ToSet(s) \subseteq ToSet(u)
  BY <1>2 DEF ToSet
<1>5. ToSet(t) \subseteq ToSet(u)
  <2>1. \A i \in DOMAIN t : Len(s) + i \in DOMAIN u /\ u[Len(s) + i] = t[i]
    BY <1>2
  <2> QED
    BY <2>1 DEF ToSet
<1>6. Sequence(u)
  <2>1. u \in [1 .. Len(s) + Len(t) -> ToSet(u)]
    BY <1>2 DEF ToSet
  <2>2. Len(s) + Len(t) \in Nat
    BY <1>2
  <2> HIDE DEF ToSet
  <2> QED
    BY SMTT(30), <2>1, <2>2 DEF Sequence
<1> QED
  BY <1>3, <1>4, <1>5, <1>6 DEF u

LEMMA OneIs ==
  ASSUME NEW q
  PROVE  Sequence(<<q>>) /\ ToSet(<<q>>) = {q}
<1>1. ToSet(<<q>>) = {q}
  BY DEF ToSet
<1> QED
  BY <1>1 DEF Sequence

LEMMA NoneIs == Sequence(<< >>) /\ ToSet(<< >>) = {}
<1>1. ToSet(<< >>) = {}
  BY DEF ToSet
<1> QED
  BY <1>1 DEF Sequence

LEMMA AppendIs ==
  ASSUME NEW s, NEW q, Sequence(s)
  PROVE  Sequence(Append(s, q)) /\ ToSet(Append(s, q)) = ToSet(s) \cup {q}
<1>1. Append(s, q) = s \o <<q>>
  <2> DEFINE S == ToSet(s) \cup {q}
  <2>1. s \in Seq(S) /\ q \in S
    BY DEF Sequence
  <2> HIDE DEF S
  <2> QED
    BY <2>1
<1> QED
  BY <1>1, OneIs, JoinIs

-----------------------------------------------------------------------------
(* Clocks.                                                                 *)

LEMMA ModIs ==
  ASSUME NEW m \in Nat \ {0}
  PROVE  \A x \in 0 .. 2 * m - 1 : x % m = IF x < m THEN x ELSE x - m
OBVIOUS

LEMMA ClockIs ==
  /\ \A t \in Times, d \in Nat : Later(t, d) \in Times
  /\ \A t \in Times \cup {NoTime}, s \in Times : Past(t, s) \in Times
  /\ \A t \in Nat, s \in Times : Past(t, s) \in Times
BY Constants DEF Later, Past, Times, NoTime

\* Moving on towards a target brings it nearer by as much, until it is passed.
LEMMA MovedOn ==
  ASSUME NEW t \in Times, NEW target \in Times, NEW d \in Nat, d < PtsMod
  PROVE  Past(target, Later(t, d)) =
           IF d <= Past(target, t) THEN Past(target, t) - d ELSE Past(target, t) - d + PtsMod
<1>1. PtsMod \in Nat \ {0} /\ t \in 0 .. PtsMod - 1 /\ target \in 0 .. PtsMod - 1
  BY Constants DEF Times
<1> DEFINE later == (t + d) % PtsMod
<1>2. \A x \in 0 .. 2 * PtsMod - 1 : x % PtsMod = IF x < PtsMod THEN x ELSE x - PtsMod
  BY <1>1, ModIs
<1>3. later = (IF t + d < PtsMod THEN t + d ELSE t + d - PtsMod) /\ later \in 0 .. PtsMod - 1
  <2>1. t + d \in 0 .. 2 * PtsMod - 1
    BY <1>1
  <2> QED
    BY <1>1, <1>2, <2>1
<1> HIDE DEF later
<1>4. (PtsMod + target - t) % PtsMod = IF target < t THEN PtsMod + target - t ELSE target - t
  <2>1. PtsMod + target - t \in 0 .. 2 * PtsMod - 1
    BY <1>1
  <2> QED
    BY <1>1, <1>2, <2>1
<1>5. (PtsMod + target - later) % PtsMod = IF target < later THEN PtsMod + target - later ELSE target - later
  <2>1. PtsMod + target - later \in 0 .. 2 * PtsMod - 1
    BY <1>1, <1>3
  <2> QED
    BY <1>1, <1>2, <1>3, <2>1
<1> QED
  BY <1>1, <1>3, <1>4, <1>5 DEF Past, Later, later

\* After n frames the next one does not fit, and each of them did.
Ends(from, target, n) ==
  /\ ~Fits(Later(from, n * Frame), target)
  /\ \A i \in 0 .. n - 1 : Fits(Later(from, i * Frame), target)

\* The loop that inserts silence ends: there is a first frame that does not fit.
LEMMA FramesIn ==
  ASSUME NEW from \in Times, NEW target \in Times
  PROVE  Frames(from, target) \in Nat /\ Ends(from, target, Frames(from, target))
<1> DEFINE gap == Past(target, from)
           beyond == {n \in 0 .. PtsMod : n * Frame > gap}
<1>1. /\ PtsMod \in Nat \ {0} /\ Frame \in Nat \ {0} /\ Accept \in Nat
      /\ 2 * Accept + Frame < PtsMod
      /\ gap \in 0 .. PtsMod - 1
  BY Constants, ClockIs DEF Times
<1> HIDE DEF gap
<1>2. PtsMod \in beyond
  <2>1. PtsMod * Frame >= PtsMod
    BY <1>1
  <2> QED
    BY <1>1, <2>1
<1>3. PICK m \in beyond : \A n \in beyond : m <= n
  <2>1. beyond \in SUBSET (0 .. PtsMod) /\ beyond # {}
    BY <1>2
  <2> HIDE DEF beyond
  <2>2. Min(beyond) \in beyond /\ \A n \in beyond : Min(beyond) <= n
    BY <1>1, <2>1, LowestOffset
  <2> QED
    BY <2>2
<1>4. m \in Nat /\ m <= PtsMod /\ m >= 1
  <2>1. m \in Nat /\ m <= PtsMod /\ m * Frame > gap
    BY <1>1, <1>3
  <2>2. m # 0
    BY <1>1, <2>1
  <2> QED
    BY <2>1, <2>2
<1> DEFINE k == m - 1
<1>5. k \in 0 .. PtsMod /\ k * Frame <= gap /\ gap < k * Frame + Frame
  <2>1. k \in 0 .. PtsMod /\ k \notin beyond
    BY <1>1, <1>3, <1>4
  <2>2. ~(k * Frame > gap)
    BY <2>1
  <2>3. m * Frame = k * Frame + Frame
    BY <1>1, <1>4
  <2>4. m * Frame > gap
    BY <1>3
  <2> QED
    BY <1>1, <2>1, <2>2, <2>3, <2>4
<1> HIDE DEF k
<1> DEFINE x == k * Frame
<1>6. x \in Nat /\ x < PtsMod
  BY <1>1, <1>5
<1>7. x <= gap /\ gap < x + Frame
  BY <1>5
<1> HIDE DEF x
<1>8. Later(from, x) \in Times /\ Past(target, Later(from, x)) = gap - x
  BY <1>1, <1>6, <1>7, ClockIs, MovedOn DEF gap
<1>9. Past(target, Later(Later(from, x), Frame)) = gap - x - Frame + PtsMod
  <2>1. Frame < PtsMod /\ Frame \in Nat
    BY <1>1
  <2>2. ~(Frame <= gap - x)
    BY <1>1, <1>6, <1>7
  <2> QED
    BY <1>8, <2>1, <2>2, MovedOn
<1>10. ~Fits(Later(from, k * Frame), target)
  <2>1. ~(gap - x - Frame + PtsMod <= Accept)
    BY <1>1, <1>6, <1>7
  <2> QED
    BY <1>9, <2>1 DEF Fits, x
<1> DEFINE over == {n \in 0 .. PtsMod : ~Fits(Later(from, n * Frame), target)}
<1>11. over \in SUBSET (0 .. PtsMod) /\ over # {}
  BY <1>5, <1>10
<1>12. PICK n \in over : \A i \in over : n <= i
  <2> HIDE DEF over
  <2>1. Min(over) \in over /\ \A i \in over : Min(over) <= i
    BY <1>1, <1>11, LowestOffset
  <2> QED
    BY <2>1
<1>13. /\ n \in 0 .. PtsMod /\ ~Fits(Later(from, n * Frame), target)
       /\ \A i \in 0 .. n - 1 : Fits(Later(from, i * Frame), target)
  <2>1. n \in 0 .. PtsMod /\ n \in Nat
    BY <1>1, <1>12
  <2>2. ASSUME NEW i \in 0 .. n - 1
        PROVE  i \in 0 .. PtsMod /\ i \notin over
    BY <1>1, <1>12, <2>1
  <2> QED
    BY <1>12, <2>1, <2>2
<1>14. Frames(from, target) \in 0 .. PtsMod /\ Ends(from, target, Frames(from, target))
  BY <1>13 DEF Frames, Ends
<1> QED
  BY <1>1, <1>14

-----------------------------------------------------------------------------
(* The members of the filter.                                              *)

Counted == {"PAT", "PMT"} \cup AudioSlots \cup TextSlots

Fields == {"opt", "pat", "section", "es", "pcrPid", "pcr", "dualMono", "counter", "last",
           "unit", "pts", "diff", "since", "packets"}

Shape(f) ==
  /\ DOMAIN f = Fields /\ DOMAIN f.es = Slots /\ DOMAIN f.counter = Counted
  /\ DOMAIN f.last = {"PAT", "PMT"} /\ DOMAIN f.unit = AudioSlots
  /\ DOMAIN f.pts = AudioSlots /\ DOMAIN f.diff = AudioSlots /\ DOMAIN f.since = TextSlots

Ranges(f) ==
  /\ f.opt \in Options /\ f.pat \in Pats \cup {<< >>} /\ f.section \in Sections \cup {NoSection}
  /\ f.pcr \in Times \cup {NoTime} /\ f.dualMono \in BOOLEAN
  /\ \A x \in {"PAT", "PMT"} \cup AudioSlots : f.counter[x] \in Counters
  /\ \A x \in TextSlots : f.counter[x] \in 0 .. Unset /\ f.since[x] \in Times \cup {NoTime}
  /\ \A a \in AudioSlots : f.pts[a] \in Times \cup {NoTime} /\ f.diff[a] \in Times \cup {-1}
  /\ f.diff["audio1"] # -1

Collecting(f) ==
  \A a \in AudioSlots : f.unit[a] \in Seq(PacketSet) /\ Len(f.unit[a]) <= UnitLimit

State(f) == Shape(f) /\ Ranges(f) /\ Sequence(f.packets)

\* What decides on the tables
SameTables(f, g) ==
  /\ g.opt = f.opt /\ g.pat = f.pat /\ g.section = f.section /\ g.es = f.es
  /\ g.pcrPid = f.pcrPid /\ g.last["PMT"] = f.last["PMT"]

Same(f, g) == SameTables(f, g) /\ g.unit = f.unit

LEMMA OutIs ==
  ASSUME NEW f, NEW new, State(f), Sequence(new)
  PROVE  /\ State(Out(f, new)) /\ Same(f, Out(f, new))
         /\ Out(f, new).pcr = f.pcr /\ Out(f, new).diff = f.diff
         /\ ToSet(Out(f, new).packets) = ToSet(f.packets) \cup ToSet(new)
<1> DEFINE g == Out(f, new)
<1>1. /\ DOMAIN g = Fields /\ g.packets = f.packets \o new
      /\ \A x \in Fields \ {"packets"} : g[x] = f[x]
  BY DEF Out, State, Shape, Fields
<1>2. Sequence(f.packets \o new) /\ ToSet(f.packets \o new) = ToSet(f.packets) \cup ToSet(new)
  BY JoinIs DEF State
<1> HIDE DEF g
<1>3. /\ g.opt = f.opt /\ g.pat = f.pat /\ g.section = f.section /\ g.es = f.es
      /\ g.pcrPid = f.pcrPid /\ g.last = f.last /\ g.unit = f.unit /\ g.pcr = f.pcr
      /\ g.dualMono = f.dualMono /\ g.counter = f.counter /\ g.since = f.since
      /\ g.pts = f.pts /\ g.diff = f.diff
  BY <1>1 DEF Fields
<1>4. Shape(g) /\ Ranges(g)
  BY <1>1, <1>3 DEF State, Shape, Ranges
<1> QED
  BY <1>1, <1>2, <1>3, <1>4 DEF State, Same, SameTables, g

\* What a PCR may have inserted: on streams that the PMT lists.
Covered(f, x) ==
  \/ Pid(f, x) # 0
  \/ x \in AudioSlots \cup TextSlots /\ f.opt.mode[x] = 1
  \/ x = "audio2" /\ f.opt.mode[x] = 3

Inserted(q, f) ==
  /\ q.kind \in {"silence", "management"} /\ q.pid \in AudioSlots \cup TextSlots
  /\ Covered(f, q.pid)

Inserts(f, g) ==
  /\ State(g) /\ Same(f, g) /\ g.pcr = f.pcr
  /\ \A q \in ToSet(g.packets) : q \in ToSet(f.packets) \/ Inserted(q, f)

LEMMA InsertsTwice ==
  ASSUME NEW f, NEW g, NEW h, Inserts(f, g), Inserts(g, h)
  PROVE  Inserts(f, h)
<1>1. Same(f, h) /\ h.pcr = f.pcr /\ State(h)
  BY DEF Inserts, Same, SameTables
<1>2. \A q : Inserted(q, g) => Inserted(q, f)
  BY DEF Inserts, Same, SameTables, Inserted, Covered, Pid
<1> QED
  BY <1>1, <1>2 DEF Inserts

LEMMA InsertsNone ==
  ASSUME NEW f, State(f)
  PROVE  Inserts(f, f)
BY DEF Inserts, Same, SameTables

LEMMA SilenceIs ==
  ASSUME NEW f, State(f), NEW a \in AudioSlots, f.pcr \in Times, f.diff[a] \in Times, Covered(f, a)
  PROVE  Inserts(f, InsertSilence(f, a)) /\ InsertSilence(f, a).diff = f.diff
<1> DEFINE target == Later(f.pcr, f.diff[a])
           from == Resume(f.pts[a], target)
           n == Frames(from, target)
           time == Later(from, n * Frame)
           counter == (f.counter[a] + n) % CounterMod
           h == [f EXCEPT !.pts[a] = time, !.counter[a] = counter]
           new == [i \in 1 .. n |-> [pid |-> a, kind |-> "silence",
                     counter |-> (f.counter[a] + i) % CounterMod, count |-> 1,
                     pts |-> Later(from, (i - 1) * Frame)]]
<1>1. target \in Times
  <2>1. f.diff[a] \in Nat
    BY Constants DEF Times
  <2> QED
    BY <2>1, ClockIs
<1>2. from \in Times
  BY <1>1 DEF State, Ranges, Resume, NoTime
<1> HIDE DEF target, from
<1>3. n \in Nat
  BY <1>1, <1>2, FramesIn
<1> HIDE DEF n
<1>4. n * Frame \in Nat
  BY <1>3, Constants
<1>5. time \in Times
  BY <1>2, <1>4, ClockIs
<1>6. counter \in Counters
  <2>1. f.counter[a] \in Counters
    BY DEF State, Ranges
  <2> QED
    BY <1>3, <2>1, Constants DEF Counters
<1>7. Sequence(new) /\ \A q \in ToSet(new) : q.kind = "silence" /\ q.pid = a
  <2>1. new \in [1 .. n -> ToSet(new)]
    BY DEF ToSet
  <2>2. \A i \in DOMAIN new : new[i].kind = "silence" /\ new[i].pid = a
    OBVIOUS
  <2> HIDE DEF new
  <2>3. \A q \in ToSet(new) : q.kind = "silence" /\ q.pid = a
    BY <2>2 DEF ToSet
  <2>4. new \in Seq(ToSet(new))
    BY <1>3, <2>1
  <2> QED
    BY <2>3, <2>4 DEF Sequence
<1>8. InsertSilence(f, a) = Out(h, new)
  BY DEF InsertSilence, target, from, n
<1> HIDE DEF time, counter, new
<1>9. State(h) /\ Same(f, h) /\ h.pcr = f.pcr /\ h.diff = f.diff /\ h.packets = f.packets
  <2>1. /\ DOMAIN h = Fields /\ h.pts = [f.pts EXCEPT ![a] = time]
        /\ h.counter = [f.counter EXCEPT ![a] = counter]
        /\ h.opt = f.opt /\ h.pat = f.pat /\ h.section = f.section /\ h.es = f.es
        /\ h.pcrPid = f.pcrPid /\ h.last = f.last /\ h.unit = f.unit /\ h.pcr = f.pcr
        /\ h.dualMono = f.dualMono /\ h.since = f.since /\ h.diff = f.diff /\ h.packets = f.packets
    BY DEF State, Shape, Fields
  <2> HIDE DEF h
  <2>2. Shape(h)
    BY <2>1 DEF State, Shape
  <2>3. /\ \A x \in {"PAT", "PMT"} \cup AudioSlots : h.counter[x] \in Counters
        /\ \A x \in TextSlots : h.counter[x] = f.counter[x]
        /\ \A b \in AudioSlots : h.pts[b] \in Times \cup {NoTime}
    BY <1>5, <1>6, <2>1 DEF State, Shape, Ranges, Counted, AudioSlots, TextSlots
  <2>4. Ranges(h)
    BY <2>1, <2>3 DEF State, Ranges
  <2> QED
    BY <2>1, <2>2, <2>4 DEF State, Same, SameTables
<1> HIDE DEF h
<1>10. /\ State(Out(h, new)) /\ Same(h, Out(h, new)) /\ Out(h, new).pcr = h.pcr
       /\ Out(h, new).diff = h.diff
       /\ ToSet(Out(h, new).packets) = ToSet(h.packets) \cup ToSet(new)
  BY <1>7, <1>9, OutIs
<1>11. \A q \in ToSet(new) : Inserted(q, f)
  BY <1>7 DEF Inserted
<1> QED
  BY <1>8, <1>9, <1>10, <1>11 DEF Inserts, Same, SameTables

LEMMA Silence1Is ==
  ASSUME NEW f, State(f), f.pcr \in Times
  PROVE  Inserts(f, Silence1(f))
<1>1. CASE NeedsSilence(f, "audio1")
  <2>1. "audio1" \in AudioSlots /\ f.diff["audio1"] \in Times
    BY DEF State, Ranges, AudioSlots
  <2>2. Covered(f, "audio1")
    BY <1>1, <2>1 DEF NeedsSilence, Covered
  <2> QED
    BY <1>1, <2>1, <2>2, SilenceIs DEF Silence1
<1> QED
  BY <1>1, InsertsNone DEF Silence1

LEMMA Silence2Is ==
  ASSUME NEW f, State(f), f.pcr \in Times
  PROVE  Inserts(f, Silence2(f))
<1>1. CASE NeedsSilence(f, "audio2")
  <2> DEFINE diff == IF f.diff["audio2"] < 0 THEN f.diff["audio1"] ELSE f.diff["audio2"]
             h == [f EXCEPT !.diff["audio2"] = diff]
  <2>1. "audio2" \in AudioSlots /\ diff \in Times
    BY DEF State, Ranges, AudioSlots, Times
  <2>2. Silence2(f) = InsertSilence(h, "audio2")
    BY <1>1, <2>1 DEF Silence2, State, Shape
  <2> HIDE DEF diff
  <2>3. State(h) /\ Same(f, h) /\ h.pcr = f.pcr /\ h.diff["audio2"] = diff /\ h.packets = f.packets
    <3>1. /\ DOMAIN h = Fields /\ h.diff = [f.diff EXCEPT !["audio2"] = diff]
          /\ h.opt = f.opt /\ h.pat = f.pat /\ h.section = f.section /\ h.es = f.es
          /\ h.pcrPid = f.pcrPid /\ h.last = f.last /\ h.unit = f.unit /\ h.pcr = f.pcr
          /\ h.dualMono = f.dualMono /\ h.since = f.since /\ h.pts = f.pts
          /\ h.counter = f.counter /\ h.packets = f.packets
      BY DEF State, Shape, Fields
    <3> HIDE DEF h
    <3>2. Shape(h)
      BY <3>1 DEF State, Shape
    <3>3. /\ h.diff["audio2"] = diff /\ h.diff["audio1"] = f.diff["audio1"]
          /\ AudioSlots = {"audio1", "audio2"}
      BY <2>1, <3>1 DEF State, Shape, AudioSlots
    <3>4. Ranges(h)
      BY <2>1, <3>1, <3>3 DEF State, Ranges
    <3> QED
      BY <3>1, <3>2, <3>3, <3>4 DEF State, Same, SameTables
  <2>4. Covered(h, "audio2")
    BY <1>1, <2>1, <2>3 DEF NeedsSilence, Covered, Same, SameTables
  <2> HIDE DEF h
  <2>5. Inserts(h, InsertSilence(h, "audio2"))
    BY <2>1, <2>3, <2>4, SilenceIs
  <2>6. Inserts(f, h)
    BY <2>3 DEF Inserts
  <2> QED
    BY <2>2, <2>5, <2>6, InsertsTwice
<1> QED
  BY <1>1, InsertsNone DEF Silence2

LEMMA ManageIs ==
  ASSUME NEW f, State(f), f.pcr \in Times, NEW x \in TextSlots
  PROVE  Inserts(f, Manage(f, x))
<1> DEFINE counter == (f.counter[x] + 1) % CounterMod
           q == [pid |-> x, kind |-> "management", counter |-> counter, count |-> 1]
           counted == [f EXCEPT !.counter[x] = counter]
           inserted == Out(counted, <<q>>)
           watched == /\ f.since[x] # NoTime /\ f.opt.insert[x]
                      /\ Pid(f, x) # 0 \/ f.opt.mode[x] = 1
<1>1. ASSUME NEW g, Inserts(f, g), NEW t \in Times
      PROVE  Inserts(f, [g EXCEPT !.since[x] = t])
  <2> DEFINE h == [g EXCEPT !.since[x] = t]
  <2>1. State(g) /\ Same(f, g) /\ g.pcr = f.pcr
    BY <1>1 DEF Inserts
  <2>2. /\ DOMAIN h = Fields /\ h.since = [g.since EXCEPT ![x] = t]
        /\ h.opt = g.opt /\ h.pat = g.pat /\ h.section = g.section /\ h.es = g.es
        /\ h.pcrPid = g.pcrPid /\ h.last = g.last /\ h.unit = g.unit /\ h.pcr = g.pcr
        /\ h.dualMono = g.dualMono /\ h.pts = g.pts /\ h.diff = g.diff
        /\ h.counter = g.counter /\ h.packets = g.packets
    BY <2>1 DEF State, Shape, Fields
  <2> HIDE DEF h
  <2>3. Shape(h) /\ \A y \in TextSlots : h.since[y] \in Times \cup {NoTime}
    BY <1>1, <2>1, <2>2 DEF State, Shape, Ranges
  <2>4. Ranges(h)
    BY <2>1, <2>2, <2>3 DEF State, Ranges
  <2> QED
    BY <1>1, <2>1, <2>2, <2>3, <2>4 DEF Inserts, State, Same, SameTables, h
<1>2. Inserts(f, f)
  BY InsertsNone
<1>3. NextDue(f.pcr) \in Times
  BY ClockIs, Constants DEF NextDue
<1>4. watched => Inserts(f, inserted)
  <2>1. counter \in Counters /\ counter \in 0 .. Unset
    <3>1. f.counter[x] \in Nat
      BY Constants DEF State, Ranges, Unset
    <3> QED
      BY <3>1, Constants DEF Counters, Unset
  <2> HIDE DEF counter
  <2>2. State(counted) /\ Same(f, counted) /\ counted.pcr = f.pcr /\ counted.packets = f.packets
    <3>1. /\ DOMAIN counted = Fields /\ counted.counter = [f.counter EXCEPT ![x] = counter]
          /\ counted.opt = f.opt /\ counted.pat = f.pat /\ counted.section = f.section
          /\ counted.es = f.es /\ counted.pcrPid = f.pcrPid /\ counted.last = f.last
          /\ counted.unit = f.unit /\ counted.pcr = f.pcr /\ counted.dualMono = f.dualMono
          /\ counted.since = f.since /\ counted.pts = f.pts /\ counted.diff = f.diff
          /\ counted.packets = f.packets
      BY DEF State, Shape, Fields
    <3> HIDE DEF counted
    <3>2. Shape(counted)
      BY <3>1 DEF State, Shape
    <3>3. /\ \A y \in {"PAT", "PMT"} \cup AudioSlots : counted.counter[y] \in Counters
          /\ \A y \in TextSlots : counted.counter[y] \in 0 .. Unset
      BY <2>1, <3>1 DEF State, Shape, Ranges, Counted, AudioSlots, TextSlots
    <3>4. Ranges(counted)
      BY <3>1, <3>3 DEF State, Ranges
    <3> QED
      BY <3>1, <3>2, <3>4 DEF State, Same, SameTables
  <2> HIDE DEF counted
  <2>3. /\ State(inserted) /\ Same(counted, inserted) /\ inserted.pcr = counted.pcr
        /\ ToSet(inserted.packets) = ToSet(counted.packets) \cup {q}
    <3> HIDE DEF q
    <3> QED
      BY <2>2, OneIs, OutIs
  <2>4. watched => Inserted(q, f)
    BY DEF Inserted, Covered
  <2> HIDE DEF q, inserted
  <2> QED
    BY <2>2, <2>3, <2>4 DEF Inserts, Same, SameTables
<1>5. Manage(f, x) = IF ~watched THEN [f EXCEPT !.since[x] = f.pcr]
                     ELSE IF ~Absent(f.pcr, f.since[x]) THEN f
                     ELSE [(IF Plausible(f.pcr, f.since[x]) THEN inserted ELSE f)
                             EXCEPT !.since[x] = NextDue(f.pcr)]
  BY DEF Manage
<1> HIDE DEF watched, inserted
<1>6. CASE ~watched
  BY <1>1, <1>2, <1>5, <1>6
<1>7. CASE watched /\ ~Absent(f.pcr, f.since[x])
  BY <1>2, <1>5, <1>7
<1>8. CASE watched /\ Absent(f.pcr, f.since[x])
  <2> DEFINE g == IF Plausible(f.pcr, f.since[x]) THEN inserted ELSE f
  <2>1. Inserts(f, g)
    BY <1>2, <1>4, <1>8
  <2>2. Manage(f, x) = [g EXCEPT !.since[x] = NextDue(f.pcr)]
    BY <1>5, <1>8
  <2> HIDE DEF g
  <2> QED
    BY <1>1, <1>3, <2>1, <2>2
<1> QED
  BY <1>6, <1>7, <1>8

\* The PCR goes out on its own PID unless a stream has it.
PcrAlone(q, f) ==
  q.kind = "pcr" /\ q.pid = "PCR" /\ f.pcrPid \in Pids /\ \A x \in Slots : Pid(f, x) # f.pcrPid

LEMMA AddPcrIs ==
  ASSUME NEW f, State(f), f.packets = << >>, NEW p \in PacketSet, p.pcr \in Times,
         p.pid = f.pcrPid
  PROVE  /\ State(AddPcr(f, p)) /\ Same(f, AddPcr(f, p))
         /\ \A q \in ToSet(AddPcr(f, p).packets) : PcrAlone(q, f) \/ Inserted(q, f)
<1> DEFINE q == [pid |-> "PCR", kind |-> "pcr", counter |-> 0, count |-> 0]
           alone == ~\E x \in Slots : Pid(f, x) = p.pid
           sent == IF alone THEN Out(f, <<q>>) ELSE f
           timed == [sent EXCEPT !.pcr = p.pcr]
           g1 == Silence1(timed)
           g2 == Silence2(g1)
           g3 == Manage(g2, "caption")
           g == Manage(g3, "superimpose")
<1>1. ToSet(f.packets) = {}
  BY NoneIs
<1>2. /\ State(sent) /\ Same(f, sent)
      /\ \A u \in ToSet(sent.packets) : PcrAlone(u, f)
  <2>1. CASE alone
    <3>1. PcrAlone(q, f)
      BY <2>1 DEF PcrAlone, PacketSet
    <3> HIDE DEF q
    <3>2. /\ State(sent) /\ Same(f, sent) /\ ToSet(sent.packets) = ToSet(f.packets) \cup {q}
      BY <2>1, OneIs, OutIs
    <3> QED
      BY <1>1, <3>1, <3>2
  <2>2. CASE ~alone
    BY <1>1, <2>2 DEF Same, SameTables
  <2> QED
    BY <2>1, <2>2
<1>3. AddPcr(f, p) = g
  BY DEF AddPcr
<1> HIDE DEF sent
<1>4. State(timed) /\ Same(f, timed) /\ timed.pcr \in Times /\ timed.packets = sent.packets
  <2>1. /\ DOMAIN timed = Fields /\ timed.pcr = p.pcr
        /\ timed.opt = sent.opt /\ timed.pat = sent.pat /\ timed.section = sent.section
        /\ timed.es = sent.es /\ timed.pcrPid = sent.pcrPid /\ timed.last = sent.last
        /\ timed.unit = sent.unit /\ timed.dualMono = sent.dualMono
        /\ timed.since = sent.since /\ timed.pts = sent.pts /\ timed.diff = sent.diff
        /\ timed.counter = sent.counter /\ timed.packets = sent.packets
    BY <1>2 DEF State, Shape, Fields
  <2> HIDE DEF timed
  <2>2. Shape(timed) /\ Ranges(timed)
    BY <1>2, <2>1 DEF State, Shape, Ranges
  <2> QED
    BY <1>2, <2>1, <2>2 DEF State, Same, SameTables
<1> HIDE DEF timed, g1, g2, g3, g
<1>5. Inserts(timed, g1)
  BY <1>4, Silence1Is DEF g1
<1>6. Inserts(timed, g2)
  <2>1. State(g1) /\ g1.pcr \in Times
    BY <1>4, <1>5 DEF Inserts
  <2> QED
    BY <1>5, <2>1, Silence2Is, InsertsTwice DEF g2
<1>7. Inserts(timed, g3)
  <2>1. State(g2) /\ g2.pcr \in Times /\ "caption" \in TextSlots
    BY <1>4, <1>6 DEF Inserts, TextSlots
  <2> QED
    BY <1>6, <2>1, ManageIs, InsertsTwice DEF g3
<1>8. Inserts(timed, g)
  <2>1. State(g3) /\ g3.pcr \in Times /\ "superimpose" \in TextSlots
    BY <1>4, <1>7 DEF Inserts, TextSlots
  <2> QED
    BY <1>7, <2>1, ManageIs, InsertsTwice DEF g
<1>9. \A u : Inserted(u, timed) => Inserted(u, f)
  BY <1>4 DEF Same, SameTables, Inserted, Covered, Pid
<1> QED
  BY <1>2, <1>3, <1>4, <1>8, <1>9 DEF Inserts, Same, SameTables

-----------------------------------------------------------------------------
(* The streams.                                                            *)

PesKinds == {"pes", "stereo", "left", "right"}

\* A PES sent for the audio of slot a: on that slot, or on the second one as its copy or its
\* right half.
PesOf(q, f, a, unit) ==
  /\ q.kind \in PesKinds /\ q.unit = unit
  /\ \/ q.pid = a
     \/ /\ a = "audio1" /\ q.pid = "audio2"
        /\ \/ f.opt.mode["audio2"] = 3
           \/ q.kind = "right" /\ f.opt.mode["audio2"] # 2

SendsPes(f, g, a, unit) ==
  /\ State(g) /\ Same(f, g)
  /\ \A q \in ToSet(g.packets) : q \in ToSet(f.packets) \/ PesOf(q, f, a, unit)

Collected(unit) == unit \in Seq(PacketSet) /\ unit # << >>

SendsOne(f, g, a, kind, unit) ==
  /\ State(g) /\ Same(f, g)
  /\ \E q : /\ ToSet(g.packets) = ToSet(f.packets) \cup {q}
            /\ q.pid = a /\ q.kind = kind /\ q.unit = unit

LEMMA AddPesIs ==
  ASSUME NEW f, State(f), NEW a \in AudioSlots, NEW kind, NEW unit, Collected(unit), NEW n \in Nat
  PROVE  SendsOne(f, AddPes(f, a, kind, unit, n), a, kind, unit)
<1> DEFINE counter == (f.counter[a] + n) % CounterMod
           diff == IF f.pcr # NoTime THEN Past(unit[1].pts, f.pcr) ELSE f.diff[a]
           h == [f EXCEPT !.counter[a] = counter, !.diff[a] = diff]
           q == [pid |-> a, kind |-> kind, counter |-> Successor(f.counter[a]), count |-> n,
                 unit |-> unit]
<1>1. AddPes(f, a, kind, unit, n) = Out(h, <<q>>)
  BY DEF AddPes, State, Shape
<1>2. counter \in Counters
  <2>1. f.counter[a] \in Counters
    BY DEF State, Ranges
  <2> QED
    BY <2>1, Constants DEF Counters
<1>3. diff \in Times \cup {-1} /\ (f.diff[a] # -1 => diff # -1)
  <2>1. unit[1].pts \in Times \cup {NoTime}
    <3>1. unit[1] \in PacketSet
      BY DEF Collected
    <3> QED
      BY <3>1 DEF PacketSet
  <2>2. f.pcr # NoTime => Past(unit[1].pts, f.pcr) \in Times
    BY <2>1, ClockIs DEF State, Ranges
  <2>3. -1 \notin Times
    BY Constants DEF Times
  <2> QED
    BY <2>2, <2>3 DEF State, Ranges
<1> HIDE DEF counter, diff
<1>4. State(h) /\ Same(f, h) /\ h.packets = f.packets
  <2>1. /\ DOMAIN h = Fields /\ h.diff = [f.diff EXCEPT ![a] = diff]
        /\ h.counter = [f.counter EXCEPT ![a] = counter]
        /\ h.opt = f.opt /\ h.pat = f.pat /\ h.section = f.section /\ h.es = f.es
        /\ h.pcrPid = f.pcrPid /\ h.last = f.last /\ h.unit = f.unit /\ h.pcr = f.pcr
        /\ h.dualMono = f.dualMono /\ h.since = f.since /\ h.pts = f.pts /\ h.packets = f.packets
    BY DEF State, Shape, Fields
  <2> HIDE DEF h
  <2>2. Shape(h)
    BY <2>1 DEF State, Shape
  <2>3. /\ \A x \in {"PAT", "PMT"} \cup AudioSlots : h.counter[x] \in Counters
        /\ \A x \in TextSlots : h.counter[x] = f.counter[x]
    BY <1>2, <2>1 DEF State, Shape, Ranges, Counted, AudioSlots, TextSlots
  <2>4. (\A b \in AudioSlots : h.diff[b] \in Times \cup {-1}) /\ h.diff["audio1"] # -1
    BY <1>3, <2>1 DEF State, Shape, Ranges, AudioSlots
  <2>5. Ranges(h)
    BY <2>1, <2>3, <2>4 DEF State, Ranges
  <2> QED
    BY <2>1, <2>2, <2>5 DEF State, Same, SameTables
<1> HIDE DEF h
<1>5. q.pid = a /\ q.kind = kind /\ q.unit = unit
  OBVIOUS
<1> HIDE DEF q
<1>6. /\ State(Out(h, <<q>>)) /\ Same(h, Out(h, <<q>>))
      /\ ToSet(Out(h, <<q>>).packets) = ToSet(h.packets) \cup {q}
  BY <1>4, OneIs, OutIs
<1> QED
  BY <1>1, <1>4, <1>5, <1>6 DEF SendsOne, Same, SameTables

\* A PES of the audio of slot a may go out as such on slot b.
MayGo(f, a, b, kind) ==
  /\ kind \in PesKinds /\ b \in AudioSlots
  /\ \/ b = a
     \/ /\ a = "audio1" /\ b = "audio2"
        /\ \/ f.opt.mode["audio2"] = 3
           \/ kind = "right" /\ f.opt.mode["audio2"] # 2

GoesOut(h, g, b) ==
  /\ \A q \in ToSet(h.packets) : q \in ToSet(g.packets)
  /\ \E q \in ToSet(g.packets) : q.pid = b

LEMMA OneMore ==
  ASSUME NEW f, State(f), NEW h, NEW a \in AudioSlots, NEW unit, Collected(unit),
         SendsPes(f, h, a, unit), NEW kind, NEW b, MayGo(f, a, b, kind), NEW n \in Nat
  PROVE  /\ SendsPes(f, AddPes(h, b, kind, unit, n), a, unit)
         /\ GoesOut(h, AddPes(h, b, kind, unit, n), b)
<1> DEFINE g == AddPes(h, b, kind, unit, n)
<1>1. State(h) /\ Same(f, h)
  BY DEF SendsPes
<1>2. SendsOne(h, g, b, kind, unit)
  <2>1. b \in AudioSlots
    BY DEF MayGo
  <2> QED
    BY <1>1, <2>1, AddPesIs
<1> HIDE DEF g
<1>3. PICK q : /\ ToSet(g.packets) = ToSet(h.packets) \cup {q}
               /\ q.pid = b /\ q.kind = kind /\ q.unit = unit
  BY <1>2 DEF SendsOne
<1>4. PesOf(q, f, a, unit)
  BY <1>3 DEF PesOf, MayGo
<1>5. State(g) /\ Same(f, g)
  BY <1>1, <1>2 DEF SendsOne, Same, SameTables
<1> QED
  BY <1>3, <1>4, <1>5 DEF SendsPes, GoesOut, g

\* A PES of the first audio always goes out on its own slot.
LEMMA Audio1PesIs ==
  ASSUME NEW f, State(f), Collected(f.unit["audio1"]),
         NEW g \in Audio1Pes(f)
  PROVE  /\ State(g) /\ SameTables(f, g) /\ g.unit = [f.unit EXCEPT !["audio1"] = << >>]
         /\ \A q \in ToSet(g.packets) :
              q \in ToSet(f.packets) \/ PesOf(q, f, "audio1", f.unit["audio1"])
         /\ \E q \in ToSet(g.packets) : q.pid = "audio1"
<1> DEFINE unit == f.unit["audio1"]
           e == [f EXCEPT !.unit["audio1"] = << >>, !.dualMono = FALSE]
           d == [e EXCEPT !.dualMono = TRUE]
           copy == f.opt.mode["audio2"] = 3 /\ Pid(f, "audio2") = 0
           Sent(h, a) == {AddPes(h, a, "pes", unit, Len(unit))} \cup Stereo(h, a, unit, "audio1")
           Result(h) == /\ SendsPes(e, h, "audio1", unit)
                        /\ \E q \in ToSet(h.packets) : q.pid = "audio1"
<1>1. /\ "audio1" \in AudioSlots /\ "audio2" \in AudioSlots
      /\ {"pes", "stereo", "left", "right"} = PesKinds
      /\ Len(unit) \in Nat /\ Len(unit) + 1 \in Nat
  BY DEF AudioSlots, PesKinds, Collected
<1>2. /\ State(e) /\ SameTables(f, e) /\ e.packets = f.packets
      /\ e.unit = [f.unit EXCEPT !["audio1"] = << >>]
  <2>1. /\ DOMAIN e = Fields /\ e.unit = [f.unit EXCEPT !["audio1"] = << >>]
        /\ e.opt = f.opt /\ e.pat = f.pat /\ e.section = f.section /\ e.es = f.es
        /\ e.pcrPid = f.pcrPid /\ e.last = f.last /\ e.pcr = f.pcr /\ e.dualMono = FALSE
        /\ e.since = f.since /\ e.pts = f.pts /\ e.diff = f.diff /\ e.counter = f.counter
        /\ e.packets = f.packets
    BY DEF State, Shape, Fields
  <2> HIDE DEF e
  <2> QED
    BY <2>1 DEF State, Shape, Ranges, SameTables
<1>3. State(d) /\ SendsPes(e, d, "audio1", unit)
  <2>1. /\ DOMAIN d = Fields /\ d.unit = e.unit /\ d.opt = e.opt /\ d.pat = e.pat
        /\ d.section = e.section /\ d.es = e.es /\ d.pcrPid = e.pcrPid /\ d.last = e.last
        /\ d.pcr = e.pcr /\ d.dualMono = TRUE /\ d.since = e.since /\ d.pts = e.pts
        /\ d.diff = e.diff /\ d.counter = e.counter /\ d.packets = e.packets
    BY <1>2 DEF State, Shape, Fields
  <2> HIDE DEF d
  <2> QED
    BY ZenonT(30), <1>2, <2>1 DEF State, Shape, Ranges, SendsPes, Same, SameTables
<1>4. SendsPes(e, e, "audio1", unit)
  BY <1>2 DEF SendsPes, Same, SameTables
<1>5. Audio1Pes(f) = DualMono(e, unit) \cup
                     UNION {IF copy THEN Sent(h, "audio2") ELSE {h} : h \in Sent(e, "audio1")}
  BY DEF Audio1Pes
<1>6. Collected(unit)
  OBVIOUS
<1> HIDE DEF unit, e
<1>7. ASSUME NEW h, SendsPes(e, h, "audio1", unit), NEW kind \in PesKinds, NEW n \in Nat
      PROVE  Result(AddPes(h, "audio1", kind, unit, n))
  <2>1. MayGo(e, "audio1", "audio1", kind)
    BY <1>1, <1>7 DEF MayGo
  <2>2. /\ SendsPes(e, AddPes(h, "audio1", kind, unit, n), "audio1", unit)
        /\ GoesOut(h, AddPes(h, "audio1", kind, unit, n), "audio1")
    BY <1>1, <1>2, <1>6, <1>7, <2>1, OneMore
  <2> QED
    BY <2>2 DEF GoesOut
<1>8. ASSUME NEW h, Result(h), NEW kind \in PesKinds, NEW n \in Nat,
             \/ e.opt.mode["audio2"] = 3
             \/ kind = "right" /\ e.opt.mode["audio2"] # 2
      PROVE  Result(AddPes(h, "audio2", kind, unit, n))
  <2>1. MayGo(e, "audio1", "audio2", kind) /\ SendsPes(e, h, "audio1", unit)
    BY <1>1, <1>8 DEF MayGo
  <2>2. /\ SendsPes(e, AddPes(h, "audio2", kind, unit, n), "audio1", unit)
        /\ GoesOut(h, AddPes(h, "audio2", kind, unit, n), "audio2")
    BY <1>1, <1>2, <1>6, <1>8, <2>1, OneMore
  <2> QED
    BY <1>8, <2>2 DEF GoesOut
<1> HIDE DEF Result
<1>9. ASSUME NEW h \in Sent(e, "audio1")
      PROVE  Result(h)
  <2>1. h = AddPes(e, "audio1", "pes", unit, Len(unit)) \/ h = AddPes(e, "audio1", "stereo", unit, Len(unit) + 1)
    BY <1>9 DEF Stereo
  <2> QED
    BY <1>1, <1>4, <1>7, <2>1
<1>12. ASSUME NEW h, Result(h), copy, NEW k \in Sent(h, "audio2")
       PROVE  Result(k)
  <2>1. k = AddPes(h, "audio2", "pes", unit, Len(unit)) \/ k = AddPes(h, "audio2", "stereo", unit, Len(unit) + 1)
    BY <1>12 DEF Stereo
  <2>2. e.opt.mode["audio2"] = 3
    BY <1>2, <1>12 DEF SameTables
  <2> QED
    BY <1>1, <1>8, <1>12, <2>1, <2>2
<1>13. ASSUME NEW h \in DualMono(e, unit)
       PROVE  Result(h)
  <2> DEFINE left == AddPes(d, "audio1", "left", unit, Len(unit))
  <2>1. \/ h = left
        \/ h = AddPes(left, "audio2", "right", unit, Len(unit)) /\ e.opt.mode["audio2"] # 2
    BY <1>13 DEF DualMono
  <2>2. Result(left)
    BY <1>1, <1>3, <1>7
  <2> HIDE DEF left
  <2> QED
    BY <1>1, <1>8, <2>1, <2>2
<1>10. Result(g)
  <2>1. CASE g \in DualMono(e, unit)
    BY <1>13, <2>1
  <2>2. CASE g \notin DualMono(e, unit)
    <3>1. PICK h \in Sent(e, "audio1") : g \in IF copy THEN Sent(h, "audio2") ELSE {h}
      BY <1>5, <2>2
    <3>2. Result(h)
      BY <1>9
    <3> HIDE DEF Sent
    <3> QED
      BY <1>12, <3>1, <3>2
  <2> QED
    BY <2>1, <2>2
<1>11. \A q : PesOf(q, e, "audio1", unit) => PesOf(q, f, "audio1", unit)
  BY <1>2 DEF PesOf, SameTables
<1> QED
  BY <1>2, <1>10, <1>11 DEF SendsPes, Same, SameTables, unit, Result

LEMMA Audio2PesIs ==
  ASSUME NEW f, State(f), Collected(f.unit["audio2"]), NEW g \in Audio2Pes(f)
  PROVE  /\ State(g) /\ SameTables(f, g) /\ g.unit = [f.unit EXCEPT !["audio2"] = << >>]
         /\ \A q \in ToSet(g.packets) :
              q \in ToSet(f.packets) \/ PesOf(q, f, "audio2", f.unit["audio2"])
<1> DEFINE unit == f.unit["audio2"]
           e == [f EXCEPT !.unit["audio2"] = << >>]
<1>1. /\ "audio2" \in AudioSlots /\ {"pes", "stereo"} \subseteq PesKinds
      /\ Len(unit) \in Nat /\ Len(unit) + 1 \in Nat
  BY DEF AudioSlots, PesKinds, Collected
<1>2. /\ State(e) /\ SameTables(f, e) /\ e.packets = f.packets
      /\ e.unit = [f.unit EXCEPT !["audio2"] = << >>]
  <2>1. /\ DOMAIN e = Fields /\ e.unit = [f.unit EXCEPT !["audio2"] = << >>]
        /\ e.opt = f.opt /\ e.pat = f.pat /\ e.section = f.section /\ e.es = f.es
        /\ e.pcrPid = f.pcrPid /\ e.last = f.last /\ e.pcr = f.pcr /\ e.dualMono = f.dualMono
        /\ e.since = f.since /\ e.pts = f.pts /\ e.diff = f.diff /\ e.counter = f.counter
        /\ e.packets = f.packets
    BY DEF State, Shape, Fields
  <2> HIDE DEF e
  <2> QED
    BY <2>1 DEF State, Shape, Ranges, SameTables
<1>3. Audio2Pes(f) = {AddPes(e, "audio2", "pes", unit, Len(unit))} \cup Stereo(e, "audio2", unit, "audio2")
  BY DEF Audio2Pes
<1>4. Collected(unit)
  OBVIOUS
<1> HIDE DEF unit, e
<1>5. SendsPes(e, e, "audio2", unit)
  BY <1>2 DEF SendsPes, Same, SameTables
<1>6. ASSUME NEW kind \in PesKinds, NEW n \in Nat
      PROVE  SendsPes(e, AddPes(e, "audio2", kind, unit, n), "audio2", unit)
  <2>1. MayGo(e, "audio2", "audio2", kind)
    BY <1>1, <1>6 DEF MayGo
  <2> QED
    BY <1>1, <1>2, <1>4, <1>5, <1>6, <2>1, OneMore
<1>7. SendsPes(e, g, "audio2", unit)
  <2>1. g = AddPes(e, "audio2", "pes", unit, Len(unit)) \/ g = AddPes(e, "audio2", "stereo", unit, Len(unit) + 1)
    BY <1>3 DEF Stereo
  <2> QED
    BY <1>1, <1>6, <2>1
<1>8. \A q : PesOf(q, e, "audio2", unit) => PesOf(q, f, "audio2", unit)
  BY <1>2 DEF PesOf, SameTables
<1> QED
  BY <1>2, <1>7, <1>8 DEF SendsPes, Same, SameTables, unit

LEMMA AddTextIs ==
  ASSUME NEW f, State(f), NEW x \in TextSlots, NEW p \in PacketSet
  PROVE  SendsOne(f, AddText(f, x, p), x, "text", <<p>>)
<1> DEFINE counter == IF f.counter[x] >= CounterMod THEN Followed(p.counter)
                      ELSE Successor(f.counter[x])
           h == [f EXCEPT !.since[x] = f.pcr, !.counter[x] = counter]
           q == [pid |-> x, kind |-> "text", counter |-> counter % CounterMod, count |-> 1,
                 unit |-> <<p>>]
<1>1. AddText(f, x, p) = Out(h, <<q>>)
  BY DEF AddText
<1>2. counter \in 0 .. Unset
  <2>1. p.counter \in Counters /\ f.counter[x] \in 0 .. Unset
    BY DEF PacketSet, State, Ranges
  <2>2. Successor(f.counter[x]) \in Counters
    BY <2>1, Constants DEF Successor, Counters, Unset
  <2> QED
    BY <2>1, <2>2, Constants DEF Followed, Unset, Counters
<1> HIDE DEF counter
<1>3. State(h) /\ Same(f, h) /\ h.packets = f.packets
  <2>1. /\ DOMAIN h = Fields /\ h.since = [f.since EXCEPT ![x] = f.pcr]
        /\ h.counter = [f.counter EXCEPT ![x] = counter]
        /\ h.opt = f.opt /\ h.pat = f.pat /\ h.section = f.section /\ h.es = f.es
        /\ h.pcrPid = f.pcrPid /\ h.last = f.last /\ h.unit = f.unit /\ h.pcr = f.pcr
        /\ h.dualMono = f.dualMono /\ h.pts = f.pts /\ h.diff = f.diff /\ h.packets = f.packets
    BY DEF State, Shape, Fields
  <2> HIDE DEF h
  <2>2. Shape(h)
    BY <2>1 DEF State, Shape
  <2>3. /\ \A y \in {"PAT", "PMT"} \cup AudioSlots : h.counter[y] \in Counters
        /\ \A y \in TextSlots : h.counter[y] \in 0 .. Unset /\ h.since[y] \in Times \cup {NoTime}
    BY <1>2, <2>1 DEF State, Shape, Ranges, Counted, AudioSlots, TextSlots
  <2>4. Ranges(h)
    BY <2>1, <2>3 DEF State, Ranges
  <2> QED
    BY <2>1, <2>2, <2>4 DEF State, Same, SameTables
<1> HIDE DEF h
<1>4. q.pid = x /\ q.kind = "text" /\ q.unit = <<p>>
  OBVIOUS
<1> HIDE DEF q
<1>5. /\ State(Out(h, <<q>>)) /\ Same(h, Out(h, <<q>>))
      /\ ToSet(Out(h, <<q>>).packets) = ToSet(h.packets) \cup {q}
  BY <1>3, OneIs, OutIs
<1> QED
  BY <1>1, <1>3, <1>4, <1>5 DEF SendsOne, Same, SameTables

LEMMA PassIs ==
  ASSUME NEW f, State(f), NEW pid, NEW p
  PROVE  SendsOne(f, Pass(f, pid, p), pid, "packet", <<p>>)
<1> DEFINE q == [pid |-> pid, kind |-> "packet", counter |-> p.counter, count |-> 1, unit |-> <<p>>]
<1>1. Pass(f, pid, p) = Out(f, <<q>>)
  BY DEF Pass
<1>2. q.pid = pid /\ q.kind = "packet" /\ q.unit = <<p>>
  OBVIOUS
<1> HIDE DEF q
<1>3. /\ State(Out(f, <<q>>)) /\ Same(f, Out(f, <<q>>))
      /\ ToSet(Out(f, <<q>>).packets) = ToSet(f.packets) \cup {q}
  BY OneIs, OutIs
<1> QED
  BY <1>1, <1>2, <1>3 DEF SendsOne

-----------------------------------------------------------------------------
(* What is held of a PES.                                                  *)

\* Every packet of it has payload.
Filled(unit) == \A k \in DOMAIN unit : unit[k].payload

LEMMA SequenceIs ==
  ASSUME NEW unit \in Seq(PacketSet), NEW p \in PacketSet
  PROVE  /\ Len(unit) \in Nat /\ DOMAIN unit = 1 .. Len(unit)
         /\ Append(unit, p) \in Seq(PacketSet) /\ Len(Append(unit, p)) = Len(unit) + 1
         /\ DOMAIN Append(unit, p) = 1 .. Len(unit) + 1
         /\ Append(unit, p)[Len(unit) + 1] = p
         /\ \A k \in 1 .. Len(unit) : Append(unit, p)[k] = unit[k]
         /\ <<p>> \in Seq(PacketSet) /\ Len(<<p>>) = 1 /\ <<p>>[1] = p /\ DOMAIN <<p>> = {1}
         /\ unit # << >> => Len(unit) >= 1 /\ unit[1] \in PacketSet /\ unit[Len(unit)] \in PacketSet
         /\ unit = << >> => Len(unit) = 0
<1> HIDE DEF PacketSet
<1> QED
  OBVIOUS

\* What is held starts with the packet, goes on with it, is full and stays, or is dropped.
LEMMA AccumulatedIs ==
  ASSUME NEW unit \in Seq(PacketSet), Len(unit) <= UnitLimit, NEW p \in PacketSet
  PROVE  \/ Accumulated(unit, p) = << >>
         \/ p.start /\ Accumulated(unit, p) = <<p>>
         \/ /\ ~p.start /\ unit # << >> /\ Len(unit) < UnitLimit
            /\ Accumulated(unit, p) = Append(unit, p)
            /\ p.counter = Successor(unit[Len(unit)].counter)
         \/ ~p.start /\ Len(unit) = UnitLimit /\ Accumulated(unit, p) = unit
<1>1. UnitLimit \in Nat \ {0} /\ Len(unit) \in Nat
  BY Constants, SequenceIs
<1>2. CASE p.start
  BY <1>2 DEF Accumulated, Held
<1>3. CASE ~p.start /\ unit # << >> /\ Len(unit) < UnitLimit
  <2> DEFINE n == Len(unit)
             held == Append(unit, p)
  <2>1. Accumulated(unit, p) = IF Unbroken(held) THEN held ELSE << >>
    BY <1>3 DEF Accumulated, Held
  <2>2. /\ n \in Nat /\ n >= 1 /\ Len(held) = n + 1 /\ held[n + 1] = p /\ held[n] = unit[n]
    BY <1>3, SequenceIs
  <2> HIDE DEF n, held
  <2>3. Unbroken(held) => p.counter = Successor(unit[n].counter)
    <3>1. n \in 1 .. Len(held) - 1
      BY <2>2
    <3> QED
      BY <2>2, <3>1 DEF Unbroken
  <2> QED
    BY <1>3, <2>1, <2>3 DEF n, held
<1>4. CASE ~p.start /\ (unit = << >> \/ ~(Len(unit) < UnitLimit))
  <2>1. Held(unit, p) = unit
    BY <1>4 DEF Held
  <2>2. unit = << >> \/ Len(unit) = UnitLimit
    BY <1>1, <1>4
  <2> QED
    BY <1>4, <2>1, <2>2 DEF Accumulated
<1> QED
  BY <1>2, <1>3, <1>4

LEMMA AccumulatedType ==
  ASSUME NEW unit \in Seq(PacketSet), Len(unit) <= UnitLimit, NEW p \in PacketSet
  PROVE  Accumulated(unit, p) \in Seq(PacketSet) /\ Len(Accumulated(unit, p)) <= UnitLimit
<1>1. UnitLimit \in Nat \ {0} /\ Len(unit) \in Nat
  BY Constants, SequenceIs
<1>2. << >> \in Seq(PacketSet) /\ Len(<< >>) = 0
  OBVIOUS
<1>3. /\ Append(unit, p) \in Seq(PacketSet) /\ Len(Append(unit, p)) = Len(unit) + 1
      /\ <<p>> \in Seq(PacketSet) /\ Len(<<p>>) = 1
  BY SequenceIs
<1>4. CASE Accumulated(unit, p) = << >>
  BY <1>1, <1>2, <1>4
<1>5. CASE Accumulated(unit, p) = <<p>>
  BY <1>1, <1>3, <1>5
<1>6. CASE Accumulated(unit, p) = Append(unit, p) /\ Len(unit) < UnitLimit
  BY <1>1, <1>3, <1>6
<1> QED
  BY <1>4, <1>5, <1>6, AccumulatedIs

-----------------------------------------------------------------------------
(* A packet of a stream.                                                   *)

\* No two roles on one PID.
Distinct(f) == \A x, y \in Slots : Pid(f, x) = Pid(f, y) => x = y \/ Pid(f, x) = 0

LEMMA SlotOrderIs ==
  /\ DOMAIN SlotOrder = 1 .. 5
  /\ \A i \in 1 .. 5 : SlotOrder[i] \in Slots
  /\ \A x \in Slots : \E i \in 1 .. 5 : SlotOrder[i] = x
<1>1. SlotOrder = <<"video", "audio1", "audio2", "caption", "superimpose">>
  BY DEF SlotOrder
<1>2. Slots = {"video", "audio1", "audio2", "caption", "superimpose"}
  BY DEF Slots, AudioSlots, TextSlots
<1>3. /\ SlotOrder[1] = "video" /\ SlotOrder[2] = "audio1" /\ SlotOrder[3] = "audio2"
      /\ SlotOrder[4] = "caption" /\ SlotOrder[5] = "superimpose"
  BY <1>1
<1>4. DOMAIN SlotOrder = 1 .. 5
  BY <1>1
<1>5. \A i \in 1 .. 5 : i = 1 \/ i = 2 \/ i = 3 \/ i = 4 \/ i = 5
  OBVIOUS
<1> QED
  BY <1>2, <1>3, <1>4, <1>5

LEMMA FirstOfSlotsIs ==
  ASSUME NEW f, NEW pid, Distinct(f), pid # 0
  PROVE  \/ FirstOfSlots(f, pid) = "" /\ \A x \in Slots : Pid(f, x) # pid
         \/ /\ FirstOfSlots(f, pid) \in Slots /\ Pid(f, FirstOfSlots(f, pid)) = pid
            /\ \A x \in Slots : Pid(f, x) = pid => x = FirstOfSlots(f, pid)
<1> DEFINE on == {i \in DOMAIN SlotOrder : Pid(f, SlotOrder[i]) = pid}
<1>1. FirstOfSlots(f, pid) = IF on = {} THEN "" ELSE SlotOrder[Min(on)]
  BY DEF FirstOfSlots
<1>2. CASE on = {}
  BY <1>1, <1>2, SlotOrderIs
<1>3. CASE on # {}
  <2>1. on \in SUBSET (0 .. 5)
    BY SlotOrderIs
  <2>2. Min(on) \in on
    <3> HIDE DEF on
    <3> QED
      BY <1>3, <2>1, LowestOffset
  <2>3. Min(on) \in 1 .. 5 /\ Pid(f, SlotOrder[Min(on)]) = pid
    BY <2>2, SlotOrderIs
  <2> QED
    BY <1>1, <1>3, <2>3, SlotOrderIs DEF Distinct
<1> QED
  BY <1>2, <1>3

LEMMA PcrSlotIs ==
  ASSUME NEW f, Distinct(f)
  PROVE  /\ (\A x \in Slots : Pid(f, x) # f.pcrPid) => PcrSlot(f) = "PCR"
         /\ \A x \in Slots : Pid(f, x) # 0 /\ Pid(f, x) = f.pcrPid => PcrSlot(f) = x
<1> DEFINE on == {i \in DOMAIN SlotOrder : Pid(f, SlotOrder[i]) # 0 /\ Pid(f, SlotOrder[i]) = f.pcrPid}
<1>1. PcrSlot(f) = IF on = {} THEN "PCR" ELSE SlotOrder[Max(on)]
  BY DEF PcrSlot
<1>2. on \in SUBSET (1 .. 5)
  BY SlotOrderIs
<1>3. (\A x \in Slots : Pid(f, x) # f.pcrPid) => on = {}
  BY SlotOrderIs
<1>4. ASSUME NEW x \in Slots, Pid(f, x) # 0, Pid(f, x) = f.pcrPid
      PROVE  PcrSlot(f) = x
  <2>1. on # {}
    BY <1>4, SlotOrderIs
  <2>2. Max(on) \in on
    <3> HIDE DEF on
    <3> QED
      BY <1>2, <2>1, HighestIndex
  <2>3. Max(on) \in 1 .. 5 /\ Pid(f, SlotOrder[Max(on)]) = f.pcrPid
    BY <2>2, SlotOrderIs
  <2> QED
    BY <1>1, <1>4, <2>1, <2>3, SlotOrderIs DEF Distinct
<1> QED
  BY <1>1, <1>3, <1>4

\* A PES that is all there is not held any longer.
Kept(unit) == IF Whole(unit) THEN << >> ELSE unit

\* A packet sent goes out for the packet that came: as it is, or as the last one of a PES.
CarriesOn(q, f, g, p) ==
  \/ /\ q.kind \in {"text", "packet"} /\ q.unit = <<p>>
     /\ q.pid \in Slots => Pid(f, q.pid) = p.pid
  \/ \E a \in AudioSlots :
       /\ Pid(f, a) = p.pid /\ Whole(Accumulated(f.unit[a], p))
       /\ PesOf(q, f, a, Accumulated(f.unit[a], p))
       /\ \E r \in ToSet(g.packets) : r.pid = a

Taken(f, g, p) ==
  \/ g.unit = f.unit /\ \A a \in AudioSlots : Pid(f, a) # p.pid
  \/ \E a \in AudioSlots :
       /\ Pid(f, a) = p.pid
       /\ g.unit = [f.unit EXCEPT ![a] = Kept(Accumulated(f.unit[a], p))]

LEMMA AddAudioIs ==
  ASSUME NEW f, State(f), Collecting(f), NEW a \in AudioSlots, NEW p \in PacketSet,
         Pid(f, a) = p.pid, NEW g \in AddAudio(f, a, p)
  PROVE  /\ State(g) /\ SameTables(f, g) /\ Taken(f, g, p)
         /\ \A q \in ToSet(g.packets) : q \in ToSet(f.packets) \/ CarriesOn(q, f, g, p)
<1> DEFINE unit == Accumulated(f.unit[a], p)
           e == [f EXCEPT !.unit[a] = unit]
<1>1. unit \in Seq(PacketSet) /\ Len(unit) <= UnitLimit
  BY AccumulatedType DEF Collecting
<1>2. AddAudio(f, a, p) = IF ~Whole(e.unit[a]) THEN {e}
                          ELSE IF a = "audio1" THEN Audio1Pes(e) ELSE Audio2Pes(e)
  BY DEF AddAudio
<1> HIDE DEF unit
<1>3. /\ State(e) /\ SameTables(f, e) /\ e.packets = f.packets
      /\ e.unit = [f.unit EXCEPT ![a] = unit] /\ e.unit[a] = unit
  <2>1. /\ DOMAIN e = Fields /\ e.unit = [f.unit EXCEPT ![a] = unit]
        /\ e.opt = f.opt /\ e.pat = f.pat /\ e.section = f.section /\ e.es = f.es
        /\ e.pcrPid = f.pcrPid /\ e.last = f.last /\ e.pcr = f.pcr /\ e.dualMono = f.dualMono
        /\ e.since = f.since /\ e.pts = f.pts /\ e.diff = f.diff /\ e.counter = f.counter
        /\ e.packets = f.packets
    BY DEF State, Shape, Fields
  <2> HIDE DEF e
  <2> QED
    BY <2>1 DEF State, Shape, Ranges, SameTables
<1>4. DOMAIN f.unit = AudioSlots
  BY DEF State, Shape
<1> HIDE DEF e
<1>5. CASE ~Whole(unit)
  <2>1. g = e /\ Kept(unit) = unit
    BY <1>2, <1>3, <1>5 DEF Kept
  <2>2. Taken(f, g, p)
    BY <1>3, <2>1 DEF Taken, unit
  <2> QED
    BY <1>3, <2>1, <2>2
<1>6. CASE Whole(unit)
  <2>1. Collected(unit) /\ Kept(unit) = << >>
    BY <1>1, <1>6 DEF Collected, Whole, Kept
  <2>2. /\ State(g) /\ SameTables(e, g) /\ g.unit = [e.unit EXCEPT ![a] = << >>]
        /\ \A q \in ToSet(g.packets) : q \in ToSet(e.packets) \/ PesOf(q, e, a, unit)
        /\ a = "audio1" => \E r \in ToSet(g.packets) : r.pid = a
    <3>1. CASE a = "audio1"
      <4>1. g \in Audio1Pes(e) /\ e.unit["audio1"] = unit /\ Collected(e.unit["audio1"])
        BY <1>2, <1>3, <1>6, <2>1, <3>1
      <4>2. /\ State(g) /\ SameTables(e, g) /\ g.unit = [e.unit EXCEPT !["audio1"] = << >>]
            /\ \A q \in ToSet(g.packets) :
                 q \in ToSet(e.packets) \/ PesOf(q, e, "audio1", e.unit["audio1"])
            /\ \E q \in ToSet(g.packets) : q.pid = "audio1"
        BY <1>3, <4>1, Audio1PesIs
      <4> QED
        BY <3>1, <4>1, <4>2
    <3>2. CASE a = "audio2"
      <4>1. g \in Audio2Pes(e) /\ e.unit["audio2"] = unit /\ Collected(e.unit["audio2"])
        BY <1>2, <1>3, <1>6, <2>1, <3>2
      <4>2. /\ State(g) /\ SameTables(e, g) /\ g.unit = [e.unit EXCEPT !["audio2"] = << >>]
            /\ \A q \in ToSet(g.packets) :
                 q \in ToSet(e.packets) \/ PesOf(q, e, "audio2", e.unit["audio2"])
        BY <1>3, <4>1, Audio2PesIs
      <4> QED
        BY <3>2, <4>1, <4>2
    <3> QED
      BY <3>1, <3>2 DEF AudioSlots
  <2>3. SameTables(f, g)
    BY <1>3, <2>2 DEF SameTables
  <2>4. Taken(f, g, p)
    <3>1. g.unit = [f.unit EXCEPT ![a] = Kept(unit)]
      BY <1>3, <1>4, <2>1, <2>2
    <3> QED
      BY <3>1 DEF Taken, unit
  <2>5. ASSUME NEW q \in ToSet(g.packets), q \notin ToSet(f.packets)
        PROVE  CarriesOn(q, f, g, p)
    <3>1. PesOf(q, f, a, unit)
      BY <1>3, <2>2, <2>5 DEF PesOf, SameTables
    <3>2. \E r \in ToSet(g.packets) : r.pid = a
      BY <2>2, <2>5, <3>1 DEF PesOf
    <3> QED
      BY <1>6, <3>1, <3>2 DEF CarriesOn, unit
  <2> QED
    BY <2>2, <2>3, <2>4, <2>5
<1> QED
  BY <1>5, <1>6

\* A packet sent on as it is
LEMMA CarriedOne ==
  ASSUME NEW f, State(f), NEW g, NEW p, NEW x, NEW kind \in {"text", "packet"},
         SendsOne(f, g, x, kind, <<p>>), x \in Slots => Pid(f, x) = p.pid
  PROVE  /\ State(g) /\ Same(f, g)
         /\ \A q \in ToSet(g.packets) : q \in ToSet(f.packets) \/ CarriesOn(q, f, g, p)
BY DEF SendsOne, CarriesOn

LEMMA DispatchIs ==
  ASSUME NEW f, State(f), Collecting(f), Distinct(f), NEW p \in PacketSet, NEW g \in Dispatch(f, p)
  PROVE  /\ State(g) /\ SameTables(f, g) /\ Taken(f, g, p)
         /\ \A q \in ToSet(g.packets) : q \in ToSet(f.packets) \/ CarriesOn(q, f, g, p)
<1> DEFINE on == FirstOfSlots(f, p.pid)
<1>1. \/ on = "" /\ \A x \in Slots : Pid(f, x) # p.pid
      \/ /\ on \in Slots /\ Pid(f, on) = p.pid
         /\ \A x \in Slots : Pid(f, x) = p.pid => x = on
  <2>1. p.pid # 0
    BY Constants DEF PacketSet
  <2> QED
    BY <2>1, FirstOfSlotsIs
<1>2. AudioSlots \subseteq Slots /\ TextSlots \subseteq Slots /\ "" \notin Slots
  BY DEF Slots, AudioSlots, TextSlots
<1>3. CASE on \in AudioSlots
  <2>1. g \in AddAudio(f, on, p)
    BY <1>3 DEF Dispatch
  <2>2. Pid(f, on) = p.pid
    BY <1>1, <1>2, <1>3
  <2> HIDE DEF on
  <2> QED
    BY <1>3, <2>1, <2>2, AddAudioIs
<1>4. CASE on \notin AudioSlots
  <2>1. \A a \in AudioSlots : Pid(f, a) # p.pid
    BY <1>1, <1>2, <1>4
  <2>2. g = IF on \in TextSlots THEN AddText(f, on, p)
            ELSE IF on = "video" THEN Pass(f, "video", p)
            ELSE IF p.pid \in LowPids THEN Pass(f, "low", p)
            ELSE IF NitRef(f.pat) # NoRef /\ p.pid = NitRef(f.pat).pid THEN Pass(f, "NIT", p)
            ELSE f
    BY <1>4 DEF Dispatch
  <2>3. "low" \notin Slots /\ "NIT" \notin Slots
    BY DEF Slots, AudioSlots, TextSlots
  <2> HIDE DEF on
  <2>4. /\ State(g) /\ Same(f, g)
        /\ \A q \in ToSet(g.packets) : q \in ToSet(f.packets) \/ CarriesOn(q, f, g, p)
    <3>1. CASE on \in TextSlots
      BY <1>1, <1>2, <2>2, <3>1, AddTextIs, CarriedOne
    <3>2. CASE on \notin TextSlots /\ on = "video"
      <4>1. Pid(f, "video") = p.pid
        BY <1>1, <3>2
      <4> QED
        BY <2>2, <3>2, <4>1, PassIs, CarriedOne
    <3>3. CASE on \notin TextSlots /\ on # "video" /\ g = Pass(f, "low", p)
      BY <2>3, <3>3, PassIs, CarriedOne
    <3>4. CASE on \notin TextSlots /\ on # "video" /\ g = Pass(f, "NIT", p)
      BY <2>3, <3>4, PassIs, CarriedOne
    <3>5. CASE g = f
      BY <3>5 DEF Same, SameTables
    <3> QED
      BY <2>2, <3>1, <3>2, <3>3, <3>4, <3>5
  <2> QED
    BY <2>1, <2>4 DEF Same, Taken
<1> QED
  BY <1>3, <1>4

\* Nothing is selected while the PAT does not list the program.
Selected(f) == ~HasTarget(f) => \A x \in Slots : Pid(f, x) = 0

LEMMA ClearedIs ==
  ASSUME State(filter)
  PROVE  State(Cleared) /\ Same(filter, Cleared) /\ Cleared.packets = << >>
<1>1. /\ DOMAIN Cleared = Fields /\ Cleared.packets = << >>
      /\ Cleared.opt = filter.opt /\ Cleared.pat = filter.pat /\ Cleared.section = filter.section
      /\ Cleared.es = filter.es /\ Cleared.pcrPid = filter.pcrPid /\ Cleared.last = filter.last
      /\ Cleared.pcr = filter.pcr /\ Cleared.dualMono = filter.dualMono
      /\ Cleared.since = filter.since /\ Cleared.pts = filter.pts /\ Cleared.diff = filter.diff
      /\ Cleared.counter = filter.counter /\ Cleared.unit = filter.unit
  BY DEF Cleared, State, Shape, Fields
<1> HIDE DEF Cleared
<1>2. Shape(Cleared) /\ Ranges(Cleared)
  BY <1>1 DEF State, Shape, Ranges
<1> QED
  BY <1>1, <1>2, NoneIs DEF State, Same, SameTables

LEMMA StreamIs ==
  ASSUME State(filter), Collecting(filter), Distinct(filter), Selected(filter),
         NEW p \in PacketSet, StreamPacket(p)
  PROVE  /\ State(filter') /\ SameTables(filter, filter') /\ Taken(filter, filter', p)
         /\ \A q \in ToSet(filter'.packets) :
              \/ PcrAlone(q, filter) \/ Inserted(q, filter)
              \/ CarriesOn(q, filter, filter', p)
<1>1. State(Cleared) /\ Same(filter, Cleared) /\ Cleared.packets = << >> /\ p.pid # 0
  BY ClearedIs, Constants DEF PacketSet
<1>2. CASE ~HasTarget(filter)
  <2>1. filter' = Cleared
    BY <1>2 DEF StreamPacket
  <2>2. \A a \in AudioSlots : Pid(filter, a) # p.pid
    BY <1>1, <1>2 DEF Selected, Slots
  <2>3. ToSet(filter'.packets) = {}
    BY <1>1, <2>1, NoneIs
  <2> QED
    BY <1>1, <2>1, <2>2, <2>3 DEF Same, Taken
<1>3. CASE HasTarget(filter)
  <2> DEFINE timed == p.pid = filter.pcrPid /\ p.pcr # NoTime
             f == IF timed THEN AddPcr(Cleared, p) ELSE Cleared
  <2>1. filter' \in Dispatch(f, p)
    BY <1>3 DEF StreamPacket
  <2>2. /\ State(f) /\ Same(filter, f)
        /\ \A q \in ToSet(f.packets) : PcrAlone(q, filter) \/ Inserted(q, filter)
    <3>1. CASE timed
      <4>1. p.pcr \in Times /\ p.pid = Cleared.pcrPid
        BY <1>1, <3>1 DEF PacketSet, Same, SameTables
      <4>2. /\ State(AddPcr(Cleared, p)) /\ Same(Cleared, AddPcr(Cleared, p))
            /\ \A q \in ToSet(AddPcr(Cleared, p).packets) : PcrAlone(q, Cleared) \/ Inserted(q, Cleared)
        BY <1>1, <4>1, AddPcrIs
      <4>3. \A q : /\ PcrAlone(q, Cleared) => PcrAlone(q, filter)
                   /\ Inserted(q, Cleared) => Inserted(q, filter)
        BY <1>1 DEF Same, SameTables, PcrAlone, Inserted, Covered, Pid
      <4> QED
        BY <1>1, <3>1, <4>2, <4>3 DEF Same, SameTables
    <3>2. CASE ~timed
      BY <1>1, <3>2, NoneIs
    <3> QED
      BY <3>1, <3>2
  <2> HIDE DEF f
  <2>3. Collecting(f) /\ Distinct(f)
    BY <2>2 DEF Same, SameTables, Collecting, Distinct, Pid
  <2>4. /\ State(filter') /\ SameTables(f, filter') /\ Taken(f, filter', p)
        /\ \A q \in ToSet(filter'.packets) : q \in ToSet(f.packets) \/ CarriesOn(q, f, filter', p)
    BY <2>1, <2>2, <2>3, DispatchIs
  <2>5. SameTables(filter, filter')
    BY <2>2, <2>4 DEF Same, SameTables
  <2>6. Taken(filter, filter', p)
    BY <2>2, <2>4 DEF Taken, Same, SameTables, Pid
  <2>7. \A q : CarriesOn(q, f, filter', p) => CarriesOn(q, filter, filter', p)
    BY <2>2 DEF CarriesOn, PesOf, Same, SameTables, Pid
  <2> QED
    BY <2>2, <2>4, <2>5, <2>6, <2>7
<1> QED
  BY <1>2, <1>3

-----------------------------------------------------------------------------
(* The tables.                                                             *)

AnnouncedStreams(f) == DOMAIN f.last["PMT"].content.streams

\* Nothing is selected before a PMT was sent, and what is covered is in the PMT sent last.
Told(f) ==
  IF f.last["PMT"] = NoTable THEN \A x \in Slots : Pid(f, x) = 0
  ELSE \A x \in Slots : Covered(f, x) => x \in AnnouncedStreams(f)

\* While the section in force fits, the PMT sent says where the PCR is, unless the program
\* was lost since.
PcrTold(f) ==
  (f.last["PMT"] # NoTable /\ f.section # NoSection /\ f.section.fits) =>
    \/ f.last["PMT"].content.pcr = PcrSlot(f)
    \/ f.pcrPid = 0 /\ \A x \in Slots : Pid(f, x) = 0

TablesOK(f) == Distinct(f) /\ Selected(f) /\ Told(f) /\ PcrTold(f)

LEMMA SameTablesOK ==
  ASSUME NEW f, NEW g, SameTables(f, g), TablesOK(f)
  PROVE  TablesOK(g)
<1>1. PcrSlot(g) = PcrSlot(f)
  BY DEF PcrSlot, Pid, SameTables
<1> QED
  BY <1>1 DEF TablesOK, Distinct, Selected, Told, PcrTold, AnnouncedStreams, Covered, HasTarget, Pid,
              SameTables

\* What is held of a PES stays or is dropped, and stays only where the PID does.
HeldStill(f, g) ==
  \A a \in AudioSlots :
    \/ g.unit[a] = << >>
    \/ g.unit[a] = f.unit[a] /\ Pid(g, a) \in {Pid(f, a), 0}

LEMMA DeselectIs ==
  ASSUME NEW f, State(f), Told(f)
  PROVE  /\ State(Deselect(f)) /\ TablesOK(Deselect(f)) /\ HeldStill(f, Deselect(f))
         /\ Deselect(f).packets = f.packets
<1> DEFINE g == Deselect(f)
<1>1. /\ DOMAIN g = Fields /\ g.es = [x \in Slots |-> NoStream] /\ g.pcrPid = 0 /\ g.pcr = NoTime
      /\ g.opt = f.opt /\ g.pat = f.pat /\ g.section = f.section
      /\ g.last = f.last /\ g.dualMono = f.dualMono
      /\ g.since = f.since /\ g.pts = f.pts /\ g.diff = f.diff
      /\ g.counter = f.counter /\ g.unit = f.unit /\ g.packets = f.packets
  BY DEF Deselect, State, Shape, Fields
<1> HIDE DEF g
<1>2. \A x \in Slots : Pid(g, x) = 0
  BY <1>1 DEF Pid, NoStream
<1>3. Shape(g) /\ Ranges(g)
  BY <1>1 DEF State, Shape, Ranges
<1>4. \A x \in Slots : Covered(g, x) => Covered(f, x)
  BY <1>1, <1>2 DEF Covered
<1>5. TablesOK(g)
  BY <1>1, <1>2, <1>4 DEF TablesOK, Distinct, Selected, Told, PcrTold, AnnouncedStreams
<1>6. HeldStill(f, g)
  BY <1>1, <1>2 DEF HeldStill, Slots
<1> QED
  BY <1>1, <1>3, <1>5, <1>6 DEF State, g

\* Packets of tables and nothing else
OnlyTables(s) == \A q \in ToSet(s) : q.kind = "table" /\ q.pid \in {"PAT", "PMT"}

LEMMA AddPatIs ==
  ASSUME NEW f, State(f), OnlyTables(f.packets)
  PROVE  State(AddPat(f)) /\ Same(f, AddPat(f)) /\ OnlyTables(AddPat(f).packets)
<1> DEFINE content == [program |-> TargetRef(f.opt, f.pat).program,
                       nit     |-> NitRef(f.pat) # NoRef]
           table == Publish(f.last["PAT"], content)
           q == [pid |-> "PAT", kind |-> "table", counter |-> Successor(f.counter["PAT"]),
                 count |-> 1, table |-> table]
           g == AddPat(f)
<1>1. g = [f EXCEPT !.last["PAT"] = table, !.counter["PAT"] = Successor(f.counter["PAT"]),
                    !.packets = Append(f.packets, q)]
  BY DEF AddPat, State, Shape, Fields
<1>2. q.kind = "table" /\ q.pid = "PAT"
  OBVIOUS
<1>3. Successor(f.counter["PAT"]) \in Counters
  <2>1. f.counter["PAT"] \in Counters
    BY DEF State, Ranges
  <2> QED
    BY <2>1, Constants DEF Successor, Counters
<1> HIDE DEF table, q, g
<1>4. /\ DOMAIN g = Fields /\ g.last = [f.last EXCEPT !["PAT"] = table]
      /\ g.counter = [f.counter EXCEPT !["PAT"] = Successor(f.counter["PAT"])]
      /\ g.packets = Append(f.packets, q)
      /\ g.opt = f.opt /\ g.pat = f.pat /\ g.section = f.section /\ g.es = f.es
      /\ g.pcrPid = f.pcrPid /\ g.pcr = f.pcr /\ g.dualMono = f.dualMono
      /\ g.since = f.since /\ g.pts = f.pts /\ g.diff = f.diff /\ g.unit = f.unit
  BY <1>1 DEF State, Shape, Fields
<1>5. Sequence(g.packets) /\ ToSet(g.packets) = ToSet(f.packets) \cup {q}
  BY <1>4, AppendIs DEF State
<1>6. Shape(g)
  BY <1>4 DEF State, Shape
<1>7. /\ \A x \in {"PAT", "PMT"} \cup AudioSlots : g.counter[x] \in Counters
      /\ \A x \in TextSlots : g.counter[x] = f.counter[x]
  BY <1>3, <1>4 DEF State, Shape, Ranges, Counted, AudioSlots, TextSlots
<1>8. Ranges(g)
  BY <1>4, <1>7 DEF State, Ranges
<1>9. g.last["PMT"] = f.last["PMT"]
  BY <1>4 DEF State, Shape
<1> QED
  BY <1>2, <1>4, <1>5, <1>6, <1>8, <1>9 DEF State, Same, SameTables, OnlyTables, g

\* A packet with tables
TablesSent(f, g) == State(g) /\ TablesOK(g) /\ HeldStill(f, g) /\ OnlyTables(g.packets)

LEMMA PatIs ==
  ASSUME State(filter), TablesOK(filter), PatPacket
  PROVE  TablesSent(filter, filter')
<1>1. PICK pat \in Pats \cup {filter.pat}, unitStart \in BOOLEAN :
        filter' = LET f == [Cleared EXCEPT !.pat = pat]
                  IN  IF ~HasTarget(f) THEN Deselect(f) ELSE IF unitStart THEN AddPat(f) ELSE f
  BY DEF PatPacket
<1> DEFINE f == [Cleared EXCEPT !.pat = pat]
<1>2. /\ DOMAIN f = Fields /\ f.pat = pat /\ f.packets = << >>
      /\ f.opt = filter.opt /\ f.section = filter.section /\ f.last = filter.last
      /\ f.es = filter.es /\ f.pcrPid = filter.pcrPid
      /\ f.pcr = filter.pcr /\ f.dualMono = filter.dualMono
      /\ f.since = filter.since /\ f.pts = filter.pts /\ f.diff = filter.diff
      /\ f.counter = filter.counter /\ f.unit = filter.unit
  BY DEF Cleared, State, Shape, Fields
<1>3. filter' = IF ~HasTarget(f) THEN Deselect(f) ELSE IF unitStart THEN AddPat(f) ELSE f
  BY <1>1
<1> HIDE DEF f
<1>4. State(f)
  <2>1. pat \in Pats \cup {<< >>}
    BY DEF State, Ranges
  <2>2. Shape(f) /\ Ranges(f)
    BY <1>2, <2>1 DEF State, Shape, Ranges
  <2> QED
    BY <1>2, <2>2, NoneIs DEF State
<1>5. Distinct(f) /\ Told(f) /\ PcrTold(f)
  <2>1. PcrSlot(f) = PcrSlot(filter)
    BY <1>2 DEF PcrSlot, Pid
  <2> QED
    BY <1>2, <2>1 DEF TablesOK, Distinct, Told, PcrTold, AnnouncedStreams, Covered, Pid
<1>6. HeldStill(filter, f) /\ OnlyTables(f.packets)
  BY <1>2, NoneIs DEF HeldStill, Pid, OnlyTables
<1>7. CASE ~HasTarget(f)
  <2>1. /\ State(filter') /\ TablesOK(filter') /\ HeldStill(f, filter')
        /\ filter'.packets = f.packets
    BY <1>3, <1>4, <1>5, <1>7, DeselectIs
  <2>2. HeldStill(filter, filter')
    BY <1>6, <2>1 DEF HeldStill
  <2> QED
    BY <1>6, <2>1, <2>2 DEF TablesSent
<1>8. CASE HasTarget(f)
  <2>1. TablesOK(f)
    BY <1>5, <1>8 DEF TablesOK, Selected
  <2>2. /\ State(AddPat(f)) /\ Same(f, AddPat(f)) /\ OnlyTables(AddPat(f).packets)
    BY <1>4, <1>6, AddPatIs
  <2>3. TablesOK(AddPat(f))
    BY <2>1, <2>2, SameTablesOK DEF Same
  <2>4. HeldStill(filter, AddPat(f))
    BY <1>6, <2>2 DEF HeldStill, Same, SameTables, Pid
  <2> QED
    BY <1>3, <1>4, <1>6, <1>8, <2>1, <2>2, <2>3, <2>4 DEF TablesSent
<1> QED
  BY <1>7, <1>8

-----------------------------------------------------------------------------
(* The PMT.                                                                *)

\* No two streams selected have one PID.
Apart(es) ==
  /\ DOMAIN es = Slots
  /\ \A x, y \in Slots : es[x].pid = es[y].pid => x = y \/ es[x].pid = 0

\* What is selected of the first k streams of a list.
Selections(list, k) ==
  {es \in [Slots -> {NoStream} \cup {list[i] : i \in DOMAIN list}] :
     /\ Apart(es)
     /\ \A x \in Slots : es[x] = NoStream \/ \E i \in 1 .. k : es[x] = list[i]}

\* A stream is selected for one slot, and the PIDs of those before it are others.
LEMMA StreamApart ==
  ASSUME NEW opt, NEW s \in Sections, NEW k \in 1 .. Len(s.es),
         NEW es \in Selections(s.es, k - 1)
  PROVE  WithStream(opt, es, s.es[k]) \in Selections(s.es, k)
<1> DEFINE list == s.es
           n == Len(list)
           e == list[k]
           x == SlotOf(es, e)
<1>1. /\ n \in Nat /\ DOMAIN list = 1 .. n
      /\ \A i, j \in 1 .. n : list[i].pid = list[j].pid => i = j
  BY SectionAssumption
<1>2. /\ es \in [Slots -> {NoStream} \cup {list[i] : i \in DOMAIN list}] /\ Apart(es)
      /\ \A y \in Slots : es[y] = NoStream \/ \E i \in 1 .. k - 1 : es[y] = list[i]
  BY DEF Selections
<1>3. WithStream(opt, es, e) = IF Wanted(opt, x) THEN [es EXCEPT ![x] = e] ELSE es
  BY DEF WithStream
<1>4. k \in 1 .. n /\ k \in 1 .. k /\ \A i \in 1 .. k - 1 : i \in 1 .. k /\ i \in 1 .. n /\ i # k
  BY <1>1
<1> HIDE DEF n, x
<1>5. CASE ~Wanted(opt, x)
  BY <1>2, <1>3, <1>4, <1>5 DEF Selections
<1>6. CASE Wanted(opt, x)
  <2> DEFINE g == [es EXCEPT ![x] = e]
  <2>1. x \in Slots
    BY <1>6 DEF Wanted
  <2>2. /\ g \in [Slots -> {NoStream} \cup {list[i] : i \in DOMAIN list}] /\ g[x] = e
        /\ \A y \in Slots \ {x} : g[y] = es[y]
    BY <1>1, <1>2, <1>4, <2>1
  <2> HIDE DEF g
  <2>3. ASSUME NEW y \in Slots \ {x}
        PROVE  g[y].pid = e.pid => g[y].pid = 0
    <3>1. CASE es[y] = NoStream
      BY <2>2, <3>1 DEF NoStream
    <3>2. CASE \E i \in 1 .. k - 1 : es[y] = list[i]
      BY <1>1, <1>4, <2>2, <3>2
    <3> QED
      BY <1>2, <3>1, <3>2
  <2>4. ASSUME NEW y \in Slots, NEW z \in Slots, g[y].pid = g[z].pid, y # z
        PROVE  g[y].pid = 0
    <3>1. CASE y = x
      BY <2>2, <2>3, <2>4, <3>1
    <3>2. CASE z = x
      BY <2>2, <2>3, <2>4, <3>2
    <3>3. CASE y # x /\ z # x
      BY <1>2, <2>2, <2>4, <3>3 DEF Apart
    <3> QED
      BY <3>1, <3>2, <3>3
  <2>5. Apart(g)
    BY <2>2, <2>4 DEF Apart
  <2>6. \A y \in Slots : g[y] = NoStream \/ \E i \in 1 .. k : g[y] = list[i]
    BY <1>2, <1>4, <2>2
  <2>7. WithStream(opt, es, e) = g
    BY <1>3, <1>6 DEF g
  <2> QED
    BY <2>2, <2>5, <2>6, <2>7 DEF Selections
<1> QED
  BY <1>5, <1>6

LEMMA SelectionApart ==
  ASSUME NEW opt \in Options, NEW s \in Sections
  PROVE  Apart(Selection(opt, s))
<1> DEFINE list == s.es
           n == Len(list)
           base == [x \in Slots |-> NoStream]
           I == [k \in 0 .. n |-> Selections(list, k)]
           Q == [Slots -> {NoStream} \cup {list[i] : i \in DOMAIN list}]
           Eq(g) == g = [t \in SUBSET DOMAIN list |->
                           IF t = {} THEN base ELSE WithStream(opt, g[t \ {Max(t)}], list[Max(t)])]
           act == [i \in 1 .. n |-> [es \in Q |-> WithStream(opt, es, list[i])]]
           f == CHOOSE g : Eq(g)
<1>1. Selection(opt, s) = f[DOMAIN list]
  BY DEF Selection, FoldLeft, MapThenFoldSet
<1>2. n \in Nat /\ DOMAIN list = 1 .. n
  BY SectionAssumption
<1>3. base \in Q
  OBVIOUS
<1>4. ASSUME NEW es \in Q, NEW i \in 1 .. n
      PROVE  WithStream(opt, es, list[i]) \in Q
  <2>1. list[i] \in {NoStream} \cup {list[j] : j \in DOMAIN list}
    BY <1>2
  <2> QED
    BY <2>1 DEF WithStream
<1>5. \A k \in 0 .. n : I[k] = Selections(list, k)
  OBVIOUS
<1> HIDE DEF n, I, base
<1>6. base \in I[0]
  <2>1. base \in Selections(list, 0)
    BY <1>3 DEF base, Selections, Apart, NoStream
  <2> QED
    BY <1>2, <1>5, <2>1
<1>7. ASSUME NEW k \in 1 .. n, NEW es \in I[k - 1]
      PROVE  WithStream(opt, es, list[k]) \in I[k]
  <2>1. k \in 0 .. n /\ k - 1 \in 0 .. n
    BY <1>2
  <2>2. k \in 1 .. Len(s.es) /\ es \in Selections(s.es, k - 1)
    BY <1>5, <2>1 DEF n
  <2>3. WithStream(opt, es, s.es[k]) \in Selections(s.es, k)
    BY <2>2, StreamApart
  <2> QED
    BY <1>5, <2>1, <2>3
<1> HIDE DEF Q
<1>8. act \in [1 .. n -> [Q -> Q]]
  BY <1>4
<1>9. \A i \in 1 .. n : \A es \in Q : act[i][es] = WithStream(opt, es, list[i])
  OBVIOUS
<1> HIDE DEF act
<1>10. PICK g : Folds(n, Q, base, act, g)
  BY <1>2, <1>3, <1>8, FoldThere
<1>11. g = [t \in SUBSET (1 .. n) |-> IF t = {} THEN base ELSE WithStream(opt, g[t \ {Max(t)}], list[Max(t)])]
  <2>1. /\ g \in [SUBSET (1 .. n) -> Q]
        /\ \A t \in SUBSET (1 .. n) : g[t] = IF t = {} THEN base ELSE act[Max(t)][g[t \ {Max(t)}]]
    BY <1>10 DEF Folds
  <2>2. ASSUME NEW t \in SUBSET (1 .. n), t # {}
        PROVE  act[Max(t)][g[t \ {Max(t)}]] = WithStream(opt, g[t \ {Max(t)}], list[Max(t)])
    <3>1. Max(t) \in 1 .. n
      BY <1>2, <2>2, HighestIndex
    <3>2. g[t \ {Max(t)}] \in Q
      BY <2>1
    <3> QED
      BY <1>9, <3>1, <3>2
  <2> QED
    BY <2>1, <2>2
<1>12. f = [t \in SUBSET (1 .. n) |-> IF t = {} THEN base ELSE WithStream(opt, f[t \ {Max(t)}], list[Max(t)])]
  <2>1. Eq(g)
    BY <1>2, <1>11
  <2>2. Eq(f)
    <3> HIDE DEF Eq
    <3> QED
      BY <2>1
  <2> QED
    BY <1>2, <2>2
<1> HIDE DEF f
<1>13. f[{}] \in I[0]
  <2>1. {} \in SUBSET (1 .. n)
    OBVIOUS
  <2> QED
    BY <1>6, <1>12, <2>1
<1>14. ASSUME NEW k \in 1 .. n, f[1 .. k - 1] \in I[k - 1]
       PROVE  f[1 .. k] \in I[k]
  <2>1. /\ 1 .. k \in SUBSET (1 .. n) /\ 1 .. k # {} /\ Max(1 .. k) = k
        /\ (1 .. k) \ {k} = 1 .. k - 1
    BY <1>2, Stretches
  <2>2. f[1 .. k] = WithStream(opt, f[1 .. k - 1], list[k])
    BY <1>12, <2>1
  <2> QED
    BY <1>7, <1>14, <2>2
<1>15. f[1 .. n] \in I[n]
  BY <1>2, <1>13, <1>14, AlongStretches
<1> QED
  BY <1>1, <1>2, <1>5, <1>15 DEF Selections

LEMMA SelectIs ==
  ASSUME NEW f, State(f), NEW s \in Sections
  PROVE  /\ State(Select(f, s)) /\ Distinct(Select(f, s)) /\ HeldStill(f, Select(f, s))
         /\ Select(f, s).opt = f.opt /\ Select(f, s).pat = f.pat /\ Select(f, s).pcrPid = f.pcrPid
         /\ Select(f, s).section = f.section /\ Select(f, s).packets = f.packets
<1> DEFINE es == Selection(f.opt, s)
           g == Select(f, s)
<1>1. DOMAIN es = Slots /\ \A x, y \in Slots : es[x].pid = es[y].pid => x = y \/ es[x].pid = 0
  <2>1. f.opt \in Options
    BY DEF State, Ranges
  <2> QED
    BY <2>1, SelectionApart DEF Apart
<1> HIDE DEF es
<1>2. /\ DOMAIN g = Fields /\ g.es = es
      /\ g.pts = [a \in AudioSlots |-> IF es[a].pid # Pid(f, a) THEN NoTime ELSE f.pts[a]]
      /\ g.unit = [a \in AudioSlots |-> IF es[a].pid # Pid(f, a) THEN << >> ELSE f.unit[a]]
      /\ g.dualMono = (f.dualMono /\ ~(es["audio1"].pid # Pid(f, "audio1")))
      /\ g.opt = f.opt /\ g.pat = f.pat /\ g.section = f.section /\ g.last = f.last
      /\ g.pcrPid = f.pcrPid /\ g.pcr = f.pcr /\ g.since = f.since /\ g.diff = f.diff
      /\ g.counter = f.counter /\ g.packets = f.packets
  BY DEF Select, State, Shape, Fields, es
<1> HIDE DEF g
<1>3. Shape(g)
  BY <1>1, <1>2 DEF State, Shape
<1>4. Ranges(g)
  <2>1. g.dualMono \in BOOLEAN
    BY <1>2
  <2>2. \A a \in AudioSlots : g.pts[a] \in Times \cup {NoTime}
    BY <1>2 DEF State, Ranges
  <2> QED
    BY <1>2, <2>1, <2>2 DEF State, Ranges
<1>5. Distinct(g)
  BY <1>1, <1>2 DEF Distinct, Pid
<1>6. HeldStill(f, g)
  BY <1>2 DEF HeldStill, Pid
<1> QED
  BY <1>2, <1>3, <1>4, <1>5, <1>6 DEF State, g

LEMMA AnnounceIs ==
  ASSUME NEW f, State(f), Distinct(f), HasTarget(f), OnlyTables(f.packets), NEW s \in Sections
  PROVE  TablesSent(f, Announce(f, s)) /\ HasTarget(Announce(f, s))
<1> DEFINE content == [program |-> s.program, parts |-> s.parts, pcr |-> PcrSlot(f),
                       streams |-> [x \in Listed(f) |-> Entry(f, x)]]
           table == Publish(f.last["PMT"], content)
           counter == (f.counter["PMT"] + s.parts) % CounterMod
           q == [pid |-> "PMT", kind |-> "table", counter |-> Successor(f.counter["PMT"]),
                 count |-> s.parts, table |-> table]
           g == Announce(f, s)
<1>1. g = [f EXCEPT !.last["PMT"] = table, !.counter["PMT"] = counter,
                    !.packets = Append(f.packets, q)]
  BY DEF Announce, State, Shape, Fields
<1>2. q.kind = "table" /\ q.pid = "PMT"
  OBVIOUS
<1>3. counter \in Counters
  <2>1. f.counter["PMT"] \in Counters /\ s.parts \in Nat
    BY SectionAssumption DEF State, Ranges
  <2> QED
    BY <2>1, Constants DEF Counters
<1>4. table.content.pcr = PcrSlot(f) /\ DOMAIN table.content.streams = Listed(f) /\ table # NoTable
  <2>1. content.pcr = PcrSlot(f) /\ DOMAIN content.streams = Listed(f)
    OBVIOUS
  <2>2. content # << >>
    <3>1. "pcr" \in DOMAIN content /\ DOMAIN << >> = {}
      OBVIOUS
    <3> QED
      BY <3>1
  <2> HIDE DEF content
  <2>3. table.content = content
    BY DEF Publish
  <2> HIDE DEF table
  <2> QED
    BY <2>1, <2>2, <2>3 DEF NoTable
<1> HIDE DEF table, q, g, counter
<1>5. /\ DOMAIN g = Fields /\ g.last = [f.last EXCEPT !["PMT"] = table]
      /\ g.counter = [f.counter EXCEPT !["PMT"] = counter]
      /\ g.packets = Append(f.packets, q)
      /\ g.opt = f.opt /\ g.pat = f.pat /\ g.section = f.section /\ g.es = f.es
      /\ g.pcrPid = f.pcrPid /\ g.pcr = f.pcr /\ g.dualMono = f.dualMono
      /\ g.since = f.since /\ g.pts = f.pts /\ g.diff = f.diff /\ g.unit = f.unit
  BY <1>1 DEF State, Shape, Fields
<1>6. Sequence(g.packets) /\ ToSet(g.packets) = ToSet(f.packets) \cup {q}
  BY <1>5, AppendIs DEF State
<1>7. Shape(g)
  BY <1>5 DEF State, Shape
<1>8. /\ \A x \in {"PAT", "PMT"} \cup AudioSlots : g.counter[x] \in Counters
      /\ \A x \in TextSlots : g.counter[x] = f.counter[x]
  BY <1>3, <1>5 DEF State, Shape, Ranges, Counted, AudioSlots, TextSlots
<1>9. Ranges(g)
  BY <1>5, <1>8 DEF State, Ranges
<1>10. g.last["PMT"] = table
  BY <1>5 DEF State, Shape
<1>11. Distinct(g) /\ Selected(g)
  BY <1>5 DEF Distinct, Selected, HasTarget, Pid
<1>12. Told(g)
  <2>1. ASSUME NEW x \in Slots, Covered(g, x)
        PROVE  x \in Listed(f)
    <3>1. x \in AudioSlots \cup TextSlots => x # "video"
      BY DEF AudioSlots, TextSlots
    <3> QED
      BY <1>5, <2>1, <3>1 DEF Covered, Listed, Pid
  <2> QED
    BY <1>4, <1>10, <2>1 DEF Told, AnnouncedStreams
<1>13. PcrTold(g)
  <2>1. PcrSlot(g) = PcrSlot(f)
    BY <1>5 DEF PcrSlot, Pid
  <2> QED
    BY <1>4, <1>10, <2>1 DEF PcrTold
<1>14. HeldStill(f, g)
  BY <1>5 DEF HeldStill, Pid
<1>15. OnlyTables(g.packets)
  BY <1>2, <1>6 DEF OnlyTables
<1>16. TablesSent(f, g)
  BY <1>6, <1>7, <1>9, <1>11, <1>12, <1>13, <1>14, <1>15 DEF TablesSent, State, TablesOK
<1>17. HasTarget(g)
  BY <1>5 DEF HasTarget
<1> QED
  BY <1>16, <1>17 DEF g

LEMMA AddPmtIs ==
  ASSUME NEW f, State(f), Distinct(f), Told(f), HasTarget(f), OnlyTables(f.packets),
         NEW s \in Sections, f.section = s
  PROVE  TablesSent(f, AddPmt(f, s)) /\ HasTarget(AddPmt(f, s))
<1> DEFINE g == [f EXCEPT !.pcrPid = s.pcrPid,
                          !.pcr = IF s.pcrPid = NullPid THEN NoTime ELSE f.pcr]
<1>1. AddPmt(f, s) = IF s.fits THEN Announce(Select(g, s), s) ELSE g
  BY DEF AddPmt, State, Shape, Fields
<1>2. /\ DOMAIN g = Fields /\ g.pcrPid = s.pcrPid
      /\ g.pcr = (IF s.pcrPid = NullPid THEN NoTime ELSE f.pcr)
      /\ g.opt = f.opt /\ g.pat = f.pat /\ g.section = s /\ g.last = f.last
      /\ g.es = f.es /\ g.dualMono = f.dualMono
      /\ g.since = f.since /\ g.pts = f.pts /\ g.diff = f.diff
      /\ g.counter = f.counter /\ g.unit = f.unit /\ g.packets = f.packets
  BY DEF State, Shape, Fields
<1> HIDE DEF g
<1>3. Shape(g) /\ Ranges(g)
  BY <1>2 DEF State, Shape, Ranges
<1>4. State(g)
  BY <1>2, <1>3 DEF State
<1>5. HeldStill(f, g) /\ HasTarget(g)
  BY <1>2 DEF HeldStill, Pid, HasTarget
<1>6. CASE s.fits
  <2> DEFINE h == Select(g, s)
  <2>1. /\ State(h) /\ Distinct(h) /\ HeldStill(g, h)
        /\ h.opt = g.opt /\ h.pat = g.pat /\ h.packets = g.packets
    BY <1>4, SelectIs
  <2> HIDE DEF h
  <2>2. HasTarget(h) /\ OnlyTables(h.packets)
    BY <1>2, <1>5, <2>1 DEF HasTarget
  <2>3. TablesSent(h, Announce(h, s)) /\ HasTarget(Announce(h, s))
    BY <2>1, <2>2, AnnounceIs
  <2>4. HeldStill(f, Announce(h, s))
    BY <1>5, <2>1, <2>3 DEF TablesSent, HeldStill
  <2> QED
    BY <1>1, <1>6, <2>3, <2>4 DEF TablesSent, h
<1>7. CASE ~s.fits
  <2>1. Distinct(g) /\ Told(g)
    BY <1>2 DEF Distinct, Told, AnnouncedStreams, Covered, Pid
  <2>2. TablesOK(g)
    BY <1>2, <1>5, <1>7, <2>1 DEF TablesOK, Selected, PcrTold
  <2> QED
    BY <1>1, <1>2, <1>4, <1>5, <1>7, <2>2 DEF TablesSent
<1> QED
  BY <1>6, <1>7

LEMMA ExtractedIs ==
  ASSUME NEW f, State(f), TablesOK(f), HasTarget(f), OnlyTables(f.packets),
         NEW s \in Sections \cup {NoSection}
  PROVE  TablesSent(f, Extracted(f, s)) /\ HasTarget(Extracted(f, s))
<1> DEFINE g == [f EXCEPT !.section = s]
<1>1. Extracted(f, s) = IF s = NoSection THEN g ELSE AddPmt(g, s)
  BY DEF Extracted
<1>2. /\ DOMAIN g = Fields /\ g.section = s
      /\ g.opt = f.opt /\ g.pat = f.pat /\ g.last = f.last /\ g.pcrPid = f.pcrPid
      /\ g.es = f.es /\ g.dualMono = f.dualMono /\ g.pcr = f.pcr
      /\ g.since = f.since /\ g.pts = f.pts /\ g.diff = f.diff
      /\ g.counter = f.counter /\ g.unit = f.unit /\ g.packets = f.packets
  BY DEF State, Shape, Fields
<1> HIDE DEF g
<1>3. State(g)
  <2>1. Shape(g) /\ Ranges(g)
    BY <1>2 DEF State, Shape, Ranges
  <2> QED
    BY <1>2, <2>1 DEF State
<1>4. HeldStill(f, g) /\ HasTarget(g)
  BY <1>2 DEF HeldStill, Pid, HasTarget
<1>5. Distinct(g) /\ Told(g)
  BY <1>2 DEF TablesOK, Distinct, Told, AnnouncedStreams, Covered, Pid
<1>6. CASE s = NoSection
  <2>1. TablesOK(g)
    BY <1>2, <1>4, <1>5, <1>6 DEF TablesOK, Selected, PcrTold
  <2> QED
    BY <1>1, <1>2, <1>3, <1>4, <1>6, <2>1 DEF TablesSent
<1>7. CASE s # NoSection
  <2>1. TablesSent(g, AddPmt(g, s)) /\ HasTarget(AddPmt(g, s))
    BY <1>2, <1>3, <1>4, <1>5, <1>7, AddPmtIs
  <2>2. HeldStill(f, AddPmt(g, s))
    BY <1>4, <2>1 DEF TablesSent, HeldStill
  <2> QED
    BY <1>1, <1>7, <2>1, <2>2 DEF TablesSent
<1> QED
  BY <1>6, <1>7

LEMMA PmtIs ==
  ASSUME State(filter), TablesOK(filter), PmtPacket
  PROVE  TablesSent(filter, filter')
<1>1. State(Cleared) /\ Same(filter, Cleared) /\ OnlyTables(Cleared.packets)
  BY ClearedIs, NoneIs DEF OnlyTables
<1>2. TablesOK(Cleared) /\ HasTarget(Cleared)
  BY <1>1, SameTablesOK DEF PmtPacket, Same, SameTables, HasTarget
<1>3. PICK first \in Sections \cup {filter.section, NoSection} :
        \/ filter' = Extracted(Cleared, first)
        \/ \E second \in Sections \cup {NoSection} :
             filter' = Extracted(Extracted(Cleared, first), second)
  BY DEF PmtPacket
<1>4. first \in Sections \cup {NoSection}
  BY <1>3 DEF State, Ranges
<1> DEFINE f == Extracted(Cleared, first)
<1>5. TablesSent(Cleared, f) /\ HasTarget(f)
  BY <1>1, <1>2, <1>4, ExtractedIs
<1> HIDE DEF f
<1>6. TablesSent(filter, f)
  BY <1>1, <1>5 DEF TablesSent, HeldStill, Same, SameTables, Pid
<1>7. ASSUME NEW second \in Sections \cup {NoSection}
      PROVE  TablesSent(filter, Extracted(f, second))
  <2>1. TablesSent(f, Extracted(f, second))
    BY <1>5, <1>7, ExtractedIs DEF TablesSent
  <2> QED
    BY <1>6, <2>1 DEF TablesSent, HeldStill
<1> QED
  BY <1>3, <1>6, <1>7 DEF f

-----------------------------------------------------------------------------
(* The sources.                                                            *)

SourceOK ==
  /\ source \in [Pids -> [last : PacketSet, lost : 0 .. MaxBurst]]
  /\ \A pid \in Pids : /\ source[pid].last.pid = pid
                       /\ source[pid].last.start => source[pid].last.index = 1

LEMMA FollowingIs ==
  ASSUME SourceOK, clock \in Times, NEW pid \in Pids, NEW p \in Following(pid)
  PROVE  LET last == source[pid].last
         IN  /\ p \in PacketSet /\ p.pid = pid /\ p.payload /\ p.pcr = NoTime
             /\ p.counter = Successor(last.counter)
             /\ last.index < last.of => ~p.start
             /\ p.start => p.index = 1
             /\ ~p.start => p.index = last.index + 1 /\ p.pes = last.pes /\ p.of = last.of
<1> DEFINE last == source[pid].last
           more == last.index < last.of
<1>1. last \in PacketSet
  BY DEF SourceOK
<1>2. PICK n \in IF more THEN {last.of} ELSE IF pid \in AudioPids THEN PesLengths ELSE {1} :
        p = [pid |-> pid, start |-> ~more, counter |-> Successor(last.counter), payload |-> TRUE,
             pes |-> IF more THEN last.pes ELSE (last.pes + 1) % PesMod,
             index |-> IF more THEN last.index + 1 ELSE 1,
             of |-> n, pcr |-> NoTime,
             pts |-> IF pid \notin AudioPids THEN NoTime
                     ELSE IF more THEN last.pts ELSE Later(clock, Lead)]
  BY DEF Following
<1>3. last.of \in Nat \ {0} /\ last.index \in Nat /\ last.pes \in Nat /\ last.counter \in Counters
      /\ last.pts \in Times \cup {NoTime}
  BY <1>1 DEF PacketSet
<1>4. n \in Nat \ {0}
  <2>1. n = last.of \/ n \in PesLengths \/ n = 1
    OBVIOUS
  <2>2. PesLengths \subseteq Nat \ {0}
    BY Constants
  <2>3. CASE n = last.of
    BY <1>3, <2>3
  <2>4. CASE n \in PesLengths
    BY <2>2, <2>4
  <2>5. CASE n = 1
    BY <2>5
  <2> HIDE DEF last, more
  <2> QED
    BY <2>1, <2>3, <2>4, <2>5
<1>5. Successor(last.counter) \in Counters /\ (last.pes + 1) % PesMod \in Nat
  BY <1>3, Constants DEF Successor, Counters
<1>6. Later(clock, Lead) \in Times
  <2>1. Lead \in Nat
    BY Constants DEF Times
  <2> QED
    BY <2>1, ClockIs
<1> HIDE DEF last
<1>7. p \in PacketSet
  BY <1>2, <1>3, <1>4, <1>5, <1>6 DEF PacketSet
<1>8. /\ p.pid = pid /\ p.payload /\ p.pcr = NoTime /\ p.counter = Successor(last.counter)
      /\ p.start = ~more
      /\ p.index = (IF more THEN last.index + 1 ELSE 1)
      /\ p.pes = (IF more THEN last.pes ELSE (last.pes + 1) % PesMod) /\ p.of = n
  BY <1>2
<1>9. more => n = last.of
  BY <1>2
<1> HIDE DEF more
<1>10. /\ more => ~p.start
       /\ p.start => p.index = 1
       /\ ~p.start => p.index = last.index + 1 /\ p.pes = last.pes /\ p.of = last.of
  BY <1>8, <1>9
<1> QED
  BY <1>7, <1>8, <1>10 DEF last, more

\* The same packet for all that a PES is put together by
Alike(p, q) ==
  /\ p.pid = q.pid /\ p.counter = q.counter /\ p.index = q.index /\ p.pes = q.pes /\ p.of = q.of
  /\ p.start = q.start /\ p.payload = q.payload

LEMMA TimedIs ==
  ASSUME clock \in Times, NEW p \in PacketSet, NEW pt \in Timed(p)
  PROVE  pt[1] \in PacketSet /\ pt[2] \in Times /\ Alike(pt[1], p)
<1>1. CASE pt = <<p, clock>>
  <2>1. pt[1] = p /\ pt[2] = clock
    BY <1>1
  <2> QED
    BY <2>1 DEF Alike
<1>2. ASSUME NEW d \in Steps, pt = <<[p EXCEPT !.pcr = Later(clock, d)], Later(clock, d)>>
      PROVE  pt[1] \in PacketSet /\ pt[2] \in Times /\ Alike(pt[1], p)
  <2>1. Later(clock, d) \in Times
    BY Constants, ClockIs
  <2>2. pt[1] = [p EXCEPT !.pcr = Later(clock, d)] /\ pt[2] = Later(clock, d)
    BY <1>2
  <2> DEFINE q == [p EXCEPT !.pcr = Later(clock, d)]
  <2>3. q \in PacketSet
    BY <2>1 DEF PacketSet
  <2>4. Alike(q, p)
    BY DEF PacketSet, Alike
  <2> QED
    BY <2>1, <2>2, <2>3, <2>4
<1> QED
  BY <1>1, <1>2 DEF Timed

\* The packets that Again brings: the last one, and the same without its payload.
OnceMore(last) == {last, [last EXCEPT !.payload = FALSE, !.start = FALSE]}

LEMMA AgainIs ==
  ASSUME SourceOK, NEW pid \in Pids,
         NEW p \in OnceMore(source[pid].last)
  PROVE  /\ p \in PacketSet /\ p.pid = pid
         /\ p.counter = source[pid].last.counter /\ p.index = source[pid].last.index
         /\ p.pes = source[pid].last.pes /\ p.of = source[pid].last.of
         /\ p.start => p.index = 1
         /\ p.payload => p = source[pid].last
<1> DEFINE last == source[pid].last
           empty == [last EXCEPT !.payload = FALSE, !.start = FALSE]
<1>1. last \in PacketSet /\ last.pid = pid /\ (last.start => last.index = 1)
  BY DEF SourceOK
<1> HIDE DEF last
<1>2. CASE p = last
  BY <1>1, <1>2 DEF last
<1>3. CASE p = empty
  <2>1. empty \in PacketSet
    BY <1>1 DEF PacketSet
  <2>2. /\ empty.pid = last.pid /\ empty.counter = last.counter /\ empty.index = last.index
        /\ empty.pes = last.pes /\ empty.of = last.of /\ ~empty.start /\ ~empty.payload
    BY <1>1 DEF PacketSet
  <2> HIDE DEF empty
  <2> QED
    BY <1>1, <1>3, <2>1, <2>2 DEF last
<1>4. p \in {last, empty}
  BY DEF last, OnceMore
<1> QED
  BY <1>2, <1>3, <1>4 DEF last

-----------------------------------------------------------------------------
(* Where the packets held come from.                                       *)

OnPid(unit, pid) == \A k \in DOMAIN unit : unit[k].pid = pid

LEMMA AccumulatedOn ==
  ASSUME NEW unit \in Seq(PacketSet), Len(unit) <= UnitLimit, NEW p \in PacketSet,
         OnPid(unit, p.pid)
  PROVE  OnPid(Accumulated(unit, p), p.pid)
<1>1. CASE Accumulated(unit, p) = << >>
  BY <1>1 DEF OnPid
<1>2. CASE Accumulated(unit, p) = <<p>>
  BY <1>2, SequenceIs DEF OnPid
<1>3. CASE Accumulated(unit, p) = Append(unit, p)
  <2>1. ASSUME NEW k \in 1 .. Len(unit) + 1
        PROVE  Append(unit, p)[k].pid = p.pid
    <3>1. k \in 1 .. Len(unit) \/ k = Len(unit) + 1
      BY SequenceIs
    <3> QED
      BY <3>1, SequenceIs DEF OnPid
  <2> QED
    BY <1>3, <2>1, SequenceIs DEF OnPid
<1>4. CASE Accumulated(unit, p) = unit
  BY <1>4
<1> QED
  BY <1>1, <1>2, <1>3, <1>4, AccumulatedIs

\* What is held of a PES is not all of it, and came on the PID selected.
Partial(f) ==
  \A a \in AudioSlots : /\ ~Whole(f.unit[a])
                        /\ Pid(f, a) # 0 => OnPid(f.unit[a], Pid(f, a))

LEMMA HeldPartial ==
  ASSUME NEW f, NEW g, HeldStill(f, g), Collecting(f), Partial(f)
  PROVE  Collecting(g) /\ Partial(g)
<1>1. ASSUME NEW a \in AudioSlots
      PROVE  /\ g.unit[a] \in Seq(PacketSet) /\ Len(g.unit[a]) <= UnitLimit /\ ~Whole(g.unit[a])
             /\ Pid(g, a) # 0 => OnPid(g.unit[a], Pid(g, a))
  <2>1. CASE g.unit[a] = << >>
    <3>1. Len(<< >>) = 0 /\ << >> \in Seq(PacketSet)
      OBVIOUS
    <3> QED
      BY <2>1, <3>1, Constants DEF Whole, OnPid
  <2>2. CASE g.unit[a] = f.unit[a] /\ Pid(g, a) \in {Pid(f, a), 0}
    BY <2>2 DEF Collecting, Partial
  <2> QED
    BY <2>1, <2>2 DEF HeldStill
<1> QED
  BY <1>1 DEF Collecting, Partial

LEMMA TakenPartial ==
  ASSUME NEW f, NEW g, NEW p \in PacketSet, Taken(f, g, p), SameTables(f, g),
         Collecting(f), Partial(f), DOMAIN f.unit = AudioSlots
  PROVE  Collecting(g) /\ Partial(g)
<1>1. \A a \in AudioSlots : Pid(g, a) = Pid(f, a)
  BY DEF SameTables, Pid
<1>2. CASE g.unit = f.unit
  BY <1>1, <1>2 DEF Collecting, Partial
<1>3. ASSUME NEW a \in AudioSlots, Pid(f, a) = p.pid,
             g.unit = [f.unit EXCEPT ![a] = Kept(Accumulated(f.unit[a], p))]
      PROVE  Collecting(g) /\ Partial(g)
  <2> DEFINE unit == Accumulated(f.unit[a], p)
  <2>1. p.pid # 0
    BY Constants DEF PacketSet
  <2>2. unit \in Seq(PacketSet) /\ Len(unit) <= UnitLimit /\ OnPid(unit, p.pid)
    BY <1>3, <2>1, AccumulatedType, AccumulatedOn DEF Collecting, Partial
  <2> HIDE DEF unit
  <2>3. /\ Kept(unit) \in Seq(PacketSet) /\ Len(Kept(unit)) <= UnitLimit
        /\ OnPid(Kept(unit), p.pid) /\ ~Whole(Kept(unit))
    <3>1. CASE Whole(unit)
      <4>1. Kept(unit) = << >> /\ Len(<< >>) = 0 /\ << >> \in Seq(PacketSet)
        BY <3>1 DEF Kept
      <4> QED
        BY <4>1, Constants DEF Whole, OnPid
    <3>2. CASE ~Whole(unit)
      BY <2>2, <3>2 DEF Kept
    <3> QED
      BY <3>1, <3>2
  <2>4. g.unit[a] = Kept(unit) /\ \A b \in AudioSlots \ {a} : g.unit[b] = f.unit[b]
    BY <1>3 DEF unit
  <2>5. ASSUME NEW b \in AudioSlots
        PROVE  /\ g.unit[b] \in Seq(PacketSet) /\ Len(g.unit[b]) <= UnitLimit /\ ~Whole(g.unit[b])
               /\ Pid(g, b) # 0 => OnPid(g.unit[b], Pid(g, b))
    <3>1. CASE b = a
      BY <1>1, <1>3, <2>3, <2>4, <3>1
    <3>2. CASE b # a
      BY <1>1, <2>4, <3>2 DEF Collecting, Partial
    <3> QED
      BY <3>1, <3>2
  <2> QED
    BY <2>5 DEF Collecting, Partial
<1> QED
  BY <1>2, <1>3 DEF Taken

-----------------------------------------------------------------------------
(* What is sent is announced.                                              *)

Inv == /\ State(filter) /\ Collecting(filter) /\ TablesOK(filter) /\ Partial(filter)
       /\ SourceOK /\ clock \in Times
       /\ Announced /\ PcrWhereAnnounced

LEMMA PidsIn == \A pid \in Pids : pid # 0
BY Constants

\* A packet goes out on a stream that the PMT sent last lists.
LEMMA CarriedAnnounced ==
  ASSUME NEW f, State(f), TablesOK(f), NEW g, SameTables(f, g), NEW p \in PacketSet, NEW q,
         q.pid \in Slots, Inserted(q, f) \/ CarriesOn(q, f, g, p)
  PROVE  \/ g.last["PMT"] # NoTable /\ q.pid \in AnnouncedStreams(g)
         \/ g.last["PMT"] = NoTable /\ q.kind \in {"silence", "management"}
         \/ q.kind = "right" /\ g.opt.mode["audio2"] = 0
<1>1. g.last["PMT"] = f.last["PMT"] /\ g.opt = f.opt /\ AnnouncedStreams(g) = AnnouncedStreams(f)
  BY DEF SameTables, AnnouncedStreams
<1>2. p.pid # 0
  BY PidsIn DEF PacketSet
<1>3. ASSUME NEW x \in Slots, Covered(f, x), f.last["PMT"] # NoTable
      PROVE  x \in AnnouncedStreams(f)
  BY <1>3 DEF TablesOK, Told
<1>4. ASSUME NEW x \in Slots, Pid(f, x) = p.pid
      PROVE  Covered(f, x) /\ f.last["PMT"] # NoTable
  BY <1>2, <1>4 DEF TablesOK, Told, Covered
<1>5. CASE Inserted(q, f)
  BY <1>1, <1>3, <1>5 DEF Inserted
<1>6. CASE Pid(f, q.pid) = p.pid
  BY <1>1, <1>3, <1>4, <1>6
<1>7. ASSUME NEW a \in AudioSlots, Pid(f, a) = p.pid, NEW unit, PesOf(q, f, a, unit)
      PROVE  \/ g.last["PMT"] # NoTable /\ q.pid \in AnnouncedStreams(g)
             \/ q.kind = "right" /\ g.opt.mode["audio2"] = 0
  <2>1. a \in Slots /\ "audio2" \in AudioSlots \cup TextSlots /\ "audio2" \in Slots
    BY DEF Slots, AudioSlots
  <2>2. f.last["PMT"] # NoTable
    BY <1>4, <1>7, <2>1
  <2>3. CASE q.pid = a
    BY <1>1, <1>3, <1>4, <1>7, <2>1, <2>2, <2>3
  <2>4. CASE q.pid = "audio2" /\ f.opt.mode["audio2"] = 3
    <3>1. Covered(f, "audio2")
      BY <2>1, <2>4 DEF Covered
    <3> QED
      BY <1>1, <1>3, <2>1, <2>2, <2>4, <3>1
  <2>5. CASE q.pid = "audio2" /\ q.kind = "right" /\ f.opt.mode["audio2"] # 2
    <3>1. f.opt.mode["audio2"] \in 0 .. 3
      <4>1. f.opt.mode \in [AudioSlots \cup TextSlots -> 0 .. 3]
        BY FilterAssumption DEF State, Ranges
      <4> QED
        BY <2>1, <4>1
    <3>2. f.opt.mode["audio2"] \in {1, 3} => Covered(f, "audio2")
      BY <2>1 DEF Covered
    <3>3. f.opt.mode["audio2"] = 0 \/ f.opt.mode["audio2"] \in {1, 3}
      BY <2>5, <3>1
    <3> QED
      BY <1>1, <1>3, <2>1, <2>2, <2>5, <3>2, <3>3
  <2> QED
    BY <1>7, <2>3, <2>4, <2>5 DEF PesOf
<1> QED
  BY <1>5, <1>6, <1>7 DEF CarriesOn

\* The PCR goes out where the PMT says.
LEMMA CarriedPcr ==
  ASSUME NEW f, State(f), Collecting(f), Partial(f), TablesOK(f), NEW g, SameTables(f, g),
         NEW p \in PacketSet, NEW q \in ToSet(g.packets),
         PcrAlone(q, f) \/ Inserted(q, f) \/ CarriesOn(q, f, g, p),
         g.last["PMT"] # NoTable, g.section # NoSection, g.section.fits
  PROVE  /\ q.kind = "pcr" => g.last["PMT"].content.pcr = "PCR"
         /\ (q.pid \in Slots /\ q.kind \notin {"silence", "management"}
               /\ q.unit[1].pid = g.pcrPid) =>
              /\ g.last["PMT"].content.pcr \in Slots
              /\ \E r \in ToSet(g.packets) : r.pid = g.last["PMT"].content.pcr
<1> DEFINE said == f.last["PMT"].content.pcr
<1>1. g.last["PMT"] = f.last["PMT"] /\ g.section = f.section /\ g.pcrPid = f.pcrPid
  BY DEF SameTables
<1>2. f.pcrPid \in Pids => f.pcrPid # 0
  BY PidsIn
<1>3. f.pcrPid # 0 => said = PcrSlot(f)
  BY <1>1 DEF TablesOK, PcrTold
<1>4. Distinct(f) /\ "PCR" \notin Slots
  BY DEF TablesOK, Slots, AudioSlots, TextSlots
<1> HIDE DEF said
<1>5. CASE PcrAlone(q, f)
  <2>1. said = "PCR"
    BY <1>2, <1>3, <1>4, <1>5, PcrSlotIs DEF PcrAlone
  <2> QED
    BY <1>1, <1>4, <1>5, <2>1 DEF PcrAlone, said
<1>6. CASE Inserted(q, f)
  BY <1>6 DEF Inserted
<1>7. ASSUME NEW x \in Slots, Pid(f, x) = p.pid, f.pcrPid = p.pid, NEW r \in ToSet(g.packets),
             r.pid = x
      PROVE  said \in Slots /\ \E u \in ToSet(g.packets) : u.pid = said
  <2>1. p.pid # 0
    BY PidsIn DEF PacketSet
  <2>2. said = x
    BY <1>3, <1>4, <1>7, <2>1, PcrSlotIs
  <2> QED
    BY <1>7, <2>2
<1>8. CASE /\ q.kind \in {"text", "packet"} /\ q.unit = <<p>>
           /\ q.pid \in Slots => Pid(f, q.pid) = p.pid
  <2>1. q.unit[1] = p
    BY <1>8
  <2> QED
    BY <1>1, <1>7, <1>8, <2>1 DEF said
<1>9. ASSUME NEW a \in AudioSlots, Pid(f, a) = p.pid, Whole(Accumulated(f.unit[a], p)),
             PesOf(q, f, a, Accumulated(f.unit[a], p)), NEW r \in ToSet(g.packets), r.pid = a
      PROVE  /\ q.kind # "pcr"
             /\ q.unit[1].pid = f.pcrPid =>
                  said \in Slots /\ \E u \in ToSet(g.packets) : u.pid = said
  <2> DEFINE unit == Accumulated(f.unit[a], p)
  <2>1. q.kind # "pcr" /\ q.unit = unit /\ a \in Slots
    BY <1>9 DEF PesOf, PesKinds, Slots
  <2>2. unit[1].pid = p.pid
    <3>1. p.pid # 0
      BY PidsIn DEF PacketSet
    <3>2. f.unit[a] \in Seq(PacketSet) /\ Len(f.unit[a]) <= UnitLimit /\ OnPid(f.unit[a], p.pid)
      BY <1>9, <3>1 DEF Collecting, Partial
    <3>3. OnPid(unit, p.pid) /\ unit \in Seq(PacketSet) /\ unit # << >>
      BY <1>9, <3>2, AccumulatedOn, AccumulatedType DEF Whole
    <3> HIDE DEF unit
    <3>4. 1 \in DOMAIN unit
      BY <3>3
    <3> QED
      BY <3>3, <3>4 DEF OnPid
  <2> QED
    BY <1>7, <1>9, <2>1, <2>2
<1>10. CASE \E a \in AudioSlots :
              /\ Pid(f, a) = p.pid /\ Whole(Accumulated(f.unit[a], p))
              /\ PesOf(q, f, a, Accumulated(f.unit[a], p))
              /\ \E r \in ToSet(g.packets) : r.pid = a
  BY <1>1, <1>9, <1>10 DEF said
<1> QED
  BY <1>5, <1>6, <1>8, <1>10 DEF CarriesOn

\* The properties, of sets of packets
AnnouncedSet ==
  \A q \in ToSet(filter.packets) : q.pid \in Slots =>
    \/ filter.last["PMT"] # NoTable /\ q.pid \in AnnouncedStreams(filter)
    \/ filter.last["PMT"] = NoTable /\ q.kind \in {"silence", "management"}
    \/ q.kind = "right" /\ filter.opt.mode["audio2"] = 0

PcrSet ==
  (filter.last["PMT"] # NoTable /\ filter.section # NoSection /\ filter.section.fits) =>
    \A q \in ToSet(filter.packets) :
      /\ q.kind = "pcr" => filter.last["PMT"].content.pcr = "PCR"
      /\ (q.pid \in Slots /\ q.kind \notin {"silence", "management"}
            /\ q.unit[1].pid = filter.pcrPid) =>
           /\ filter.last["PMT"].content.pcr \in Slots
           /\ \E r \in ToSet(filter.packets) : r.pid = filter.last["PMT"].content.pcr

LEMMA SetsAre ==
  ASSUME AnnouncedSet, PcrSet
  PROVE  Announced /\ PcrWhereAnnounced
<1>1. \A i \in DOMAIN filter.packets : filter.packets[i] \in ToSet(filter.packets)
  BY DEF ToSet
<1>2. \A r \in ToSet(filter.packets) : \E i \in DOMAIN filter.packets : filter.packets[i] = r
  BY DEF ToSet
<1>3. Announced
  BY <1>1 DEF Announced, AnnouncedSet, AnnouncedStreams
<1>4. PcrWhereAnnounced
  <2>1. \A x : (\E r \in ToSet(filter.packets) : r.pid = x) =>
                 \E i \in DOMAIN filter.packets : filter.packets[i].pid = x
    BY <1>2
  <2> QED
    BY <1>1, <2>1 DEF PcrWhereAnnounced, PcrSet
<1> QED
  BY <1>3, <1>4

LEMMA StreamSets ==
  ASSUME Inv, NEW p \in PacketSet, StreamPacket(p)
  PROVE  /\ State(filter') /\ Collecting(filter') /\ TablesOK(filter') /\ Partial(filter')
         /\ Announced' /\ PcrWhereAnnounced'
<1>1. State(filter) /\ Collecting(filter) /\ TablesOK(filter) /\ Partial(filter)
      /\ Distinct(filter) /\ Selected(filter)
  BY DEF Inv, TablesOK
<1>2. /\ State(filter') /\ SameTables(filter, filter') /\ Taken(filter, filter', p)
      /\ \A q \in ToSet(filter'.packets) :
           \/ PcrAlone(q, filter) \/ Inserted(q, filter)
           \/ CarriesOn(q, filter, filter', p)
  BY <1>1, StreamIs
<1>3. TablesOK(filter')
  BY <1>1, <1>2, SameTablesOK
<1>4. Collecting(filter') /\ Partial(filter')
  BY <1>1, <1>2, TakenPartial DEF State, Shape
<1>5. AnnouncedSet'
  <2>1. ASSUME NEW q \in ToSet(filter'.packets), q.pid \in Slots
        PROVE  \/ filter'.last["PMT"] # NoTable /\ q.pid \in AnnouncedStreams(filter')
               \/ filter'.last["PMT"] = NoTable /\ q.kind \in {"silence", "management"}
               \/ q.kind = "right" /\ filter'.opt.mode["audio2"] = 0
    <3>1. ~PcrAlone(q, filter)
      BY <2>1 DEF PcrAlone, Slots, AudioSlots, TextSlots
    <3> QED
      BY <1>1, <1>2, <2>1, <3>1, CarriedAnnounced
  <2> QED
    BY <2>1 DEF AnnouncedSet, AnnouncedStreams
<1>6. PcrSet'
  <2>1. ASSUME NEW q \in ToSet(filter'.packets), filter'.last["PMT"] # NoTable,
               filter'.section # NoSection, filter'.section.fits
        PROVE  /\ q.kind = "pcr" => filter'.last["PMT"].content.pcr = "PCR"
               /\ (q.pid \in Slots /\ q.kind \notin {"silence", "management"}
                     /\ q.unit[1].pid = filter'.pcrPid) =>
                    /\ filter'.last["PMT"].content.pcr \in Slots
                    /\ \E r \in ToSet(filter'.packets) : r.pid = filter'.last["PMT"].content.pcr
    BY <1>1, <1>2, <2>1, CarriedPcr
  <2> QED
    BY <2>1 DEF PcrSet
<1>7. AnnouncedSet' /\ PcrSet' => Announced' /\ PcrWhereAnnounced'
  BY SetsAre, PTL
<1> QED
  BY <1>2, <1>3, <1>4, <1>5, <1>6, <1>7

LEMMA TableSets ==
  ASSUME Inv, TablesSent(filter, filter')
  PROVE  /\ State(filter') /\ Collecting(filter') /\ TablesOK(filter') /\ Partial(filter')
         /\ Announced' /\ PcrWhereAnnounced'
<1>1. Collecting(filter') /\ Partial(filter')
  BY HeldPartial DEF Inv, TablesSent
<1>2. \A q \in ToSet(filter'.packets) : q.kind = "table" /\ q.pid \notin Slots
  BY DEF TablesSent, OnlyTables, Slots, AudioSlots, TextSlots
<1>3. AnnouncedSet' /\ PcrSet'
  BY <1>2 DEF AnnouncedSet, PcrSet
<1>4. AnnouncedSet' /\ PcrSet' => Announced' /\ PcrWhereAnnounced'
  BY SetsAre, PTL
<1> QED
  BY <1>1, <1>3, <1>4 DEF TablesSent

\* A packet received: as it was sent, or with the PCR.
LEMMA ReceiveIs ==
  ASSUME SourceOK, clock \in Times, NEW pid \in Pids, Receive(pid)
  PROVE  \E p \in Following(pid), q \in PacketSet :
           /\ p \in PacketSet /\ Alike(q, p) /\ StreamPacket(q) /\ clock' \in Times
           /\ source' = [source EXCEPT ![pid] = [last |-> p, lost |-> 0]]
<1>1. PICK p \in Following(pid) : \E pt \in Timed(p) :
        /\ clock' = pt[2]
        /\ source' = [source EXCEPT ![pid] = [last |-> [p EXCEPT !.pcr = NoTime], lost |-> 0]]
        /\ StreamPacket(pt[1])
  BY DEF Receive
<1>2. p \in PacketSet /\ p.pcr = NoTime
  BY FollowingIs
<1>3. [p EXCEPT !.pcr = NoTime] = p
  BY <1>2 DEF PacketSet
<1>4. PICK pt \in Timed(p) :
        /\ clock' = pt[2] /\ StreamPacket(pt[1])
        /\ source' = [source EXCEPT ![pid] = [last |-> p, lost |-> 0]]
  BY <1>1, <1>3
<1>5. pt[1] \in PacketSet /\ pt[2] \in Times /\ Alike(pt[1], p)
  BY <1>2, TimedIs
<1> QED
  BY <1>2, <1>4, <1>5

LEMMA SourceStep ==
  ASSUME SourceOK, clock \in Times, NEW pid \in Pids, NEW p \in Following(pid),
         NEW lost \in 0 .. MaxBurst,
         source' = [source EXCEPT ![pid] = [last |-> p, lost |-> lost]]
  PROVE  SourceOK'
<1>1. p \in PacketSet /\ p.pid = pid /\ (p.start => p.index = 1)
  BY FollowingIs
<1>2. [last |-> p, lost |-> lost] \in [last : PacketSet, lost : 0 .. MaxBurst]
  BY <1>1
<1> HIDE DEF PacketSet
<1>3. source' \in [Pids -> [last : PacketSet, lost : 0 .. MaxBurst]]
  BY <1>2 DEF SourceOK
<1>4. source'[pid].last = p /\ \A x \in Pids \ {pid} : source'[x] = source[x]
  BY DEF SourceOK
<1> QED
  BY <1>1, <1>3, <1>4 DEF SourceOK

LEMMA LoseIs ==
  ASSUME Inv, NEW pid \in Pids, Lose(pid)
  PROVE  /\ State(filter') /\ Same(filter, filter') /\ ToSet(filter'.packets) = {}
         /\ \E p \in Following(pid) :
              source' = [source EXCEPT ![pid] = [last |-> p, lost |-> source[pid].lost + 1]]
         /\ source[pid].lost + 1 \in 0 .. MaxBurst /\ clock' = clock
<1>1. filter' = Cleared /\ State(Cleared) /\ Same(filter, Cleared) /\ Cleared.packets = << >>
  BY ClearedIs DEF Inv, Lose
<1>2. source[pid].lost \in 0 .. MaxBurst /\ source[pid].lost < MaxBurst
  BY DEF Inv, SourceOK, Lose
<1>3. source[pid].lost + 1 \in 0 .. MaxBurst
  BY <1>2, Constants
<1>4. \E p \in Following(pid) :
        source' = [source EXCEPT ![pid] = [last |-> p, lost |-> source[pid].lost + 1]]
  BY DEF Lose, Inv, SourceOK
<1> QED
  BY <1>1, <1>3, <1>4, NoneIs DEF Lose

LEMMA InvStep ==
  ASSUME Inv, Next
  PROVE  Inv'
<1>1. SourceOK /\ clock \in Times /\ State(filter) /\ TablesOK(filter)
  BY DEF Inv
<1>2. ASSUME TablesSent(filter, filter'), UNCHANGED <<clock, source>>
      PROVE  Inv'
  BY <1>1, <1>2, TableSets DEF Inv, SourceOK
<1>3. CASE PatPacket
  BY <1>1, <1>2, <1>3, PatIs DEF PatPacket
<1>4. CASE PmtPacket
  BY <1>1, <1>2, <1>4, PmtIs DEF PmtPacket
<1>5. ASSUME NEW pid \in Pids, Receive(pid)
      PROVE  Inv'
  <2>1. PICK p \in Following(pid), q \in PacketSet :
          /\ StreamPacket(q) /\ clock' \in Times
          /\ source' = [source EXCEPT ![pid] = [last |-> p, lost |-> 0]]
    BY <1>1, <1>5, ReceiveIs
  <2>2. 0 \in 0 .. MaxBurst
    BY Constants
  <2>3. SourceOK'
    BY <1>1, <2>1, <2>2, SourceStep
  <2> QED
    BY <2>1, <2>3, StreamSets DEF Inv
<1>6. ASSUME NEW pid \in Pids, Lose(pid)
      PROVE  Inv'
  <2>1. /\ State(filter') /\ Same(filter, filter') /\ ToSet(filter'.packets) = {}
        /\ \E p \in Following(pid) :
             source' = [source EXCEPT ![pid] = [last |-> p, lost |-> source[pid].lost + 1]]
        /\ source[pid].lost + 1 \in 0 .. MaxBurst /\ clock' = clock
    BY <1>6, LoseIs
  <2>2. SourceOK'
    BY <1>1, <2>1, SourceStep
  <2>3. TablesOK(filter') /\ HeldStill(filter, filter')
    BY <1>1, <2>1, SameTablesOK DEF Same, SameTables, HeldStill, Pid
  <2>4. TablesSent(filter, filter')
    BY <2>1, <2>3 DEF TablesSent, OnlyTables
  <2> QED
    BY <1>1, <2>1, <2>2, <2>4, TableSets DEF Inv
<1>7. ASSUME NEW pid \in Pids, Again(pid)
      PROVE  Inv'
  <2>1. PICK p \in OnceMore(source[pid].last) :
          StreamPacket(p)
    BY <1>7 DEF Again, OnceMore
  <2>2. p \in PacketSet
    BY <1>1, <2>1, AgainIs
  <2>3. clock' = clock /\ source' = source
    BY <1>7 DEF Again
  <2> QED
    BY <1>1, <2>1, <2>2, <2>3, StreamSets DEF Inv, SourceOK
<1> QED
  BY <1>3, <1>4, <1>5, <1>6, <1>7 DEF Next

LEMMA InvUnchanged ==
  ASSUME Inv, UNCHANGED vars
  PROVE  Inv'
BY DEF Inv, vars, SourceOK, Announced, PcrWhereAnnounced

LEMMA InvInit ==
  ASSUME Init
  PROVE  Inv /\ \A a \in AudioSlots : filter.unit[a] = << >>
<1>1. PICK opt \in Options :
        filter = [opt |-> opt, pat |-> << >>, section |-> NoSection,
                  es |-> [x \in Slots |-> NoStream],
                  pcrPid |-> 0, pcr |-> NoTime, dualMono |-> FALSE,
                  counter |-> [x \in {"PAT", "PMT"} \cup AudioSlots \cup TextSlots |->
                                 IF x \in TextSlots THEN Unset ELSE 0],
                  last |-> [x \in {"PAT", "PMT"} |-> NoTable],
                  unit |-> [a \in AudioSlots |-> << >>],
                  pts |-> [a \in AudioSlots |-> NoTime],
                  diff |-> [a \in AudioSlots |-> IF a = "audio1" THEN 0 ELSE -1],
                  since |-> [x \in TextSlots |-> NoTime],
                  packets |-> << >>]
  BY DEF Init
<1>2. /\ DOMAIN filter = Fields
      /\ filter.opt = opt /\ filter.pat = << >> /\ filter.section = NoSection
      /\ filter.es = [x \in Slots |-> NoStream] /\ filter.pcrPid = 0 /\ filter.pcr = NoTime
      /\ filter.dualMono = FALSE
      /\ filter.counter = [x \in Counted |-> IF x \in TextSlots THEN Unset ELSE 0]
      /\ filter.last = [x \in {"PAT", "PMT"} |-> NoTable]
      /\ filter.unit = [a \in AudioSlots |-> << >>]
      /\ filter.pts = [a \in AudioSlots |-> NoTime]
      /\ filter.diff = [a \in AudioSlots |-> IF a = "audio1" THEN 0 ELSE -1]
      /\ filter.since = [x \in TextSlots |-> NoTime]
      /\ filter.packets = << >>
  BY <1>1 DEF Fields, Counted
<1>3. 0 \in Times /\ 0 \in Counters /\ Unset \in 0 .. Unset
  BY Constants DEF Times, Counters, Unset
<1>4. Shape(filter)
  BY <1>2 DEF Shape
<1>5. Ranges(filter)
  <2>1. \A x \in {"PAT", "PMT"} \cup AudioSlots : filter.counter[x] = 0
    BY <1>2 DEF Counted, AudioSlots, TextSlots
  <2>2. \A x \in TextSlots : filter.counter[x] = Unset
    BY <1>2 DEF Counted
  <2>3. filter.diff["audio1"] = 0 /\ \A a \in AudioSlots : filter.diff[a] \in {0, -1}
    BY <1>2 DEF AudioSlots
  <2>4. /\ \A x \in TextSlots : filter.since[x] = NoTime
        /\ \A a \in AudioSlots : filter.pts[a] = NoTime
    BY <1>2
  <2>5. /\ filter.dualMono \in BOOLEAN /\ filter.opt \in Options /\ filter.pcr = NoTime
        /\ filter.pat \in Pats \cup {<< >>} /\ filter.section \in Sections \cup {NoSection}
    BY <1>2
  <2>6. \A a \in AudioSlots : filter.diff[a] \in Times \cup {-1}
    BY <1>3, <2>3
  <2>7. \A x \in TextSlots : filter.counter[x] \in 0 .. Unset
    BY <1>3, <2>2
  <2> QED
    BY <1>3, <2>1, <2>3, <2>4, <2>5, <2>6, <2>7 DEF Ranges
<1>6. State(filter) /\ ToSet(filter.packets) = {}
  BY <1>2, <1>4, <1>5, NoneIs DEF State
<1>7. \A x \in Slots : Pid(filter, x) = 0
  BY <1>2 DEF Pid, NoStream
<1>8. TablesOK(filter)
  <2>1. filter.last["PMT"] = NoTable
    BY <1>2
  <2> QED
    BY <1>7, <2>1 DEF TablesOK, Distinct, Selected, Told, PcrTold
<1>9. \A a \in AudioSlots : filter.unit[a] = << >>
  BY <1>2
<1>10. Collecting(filter) /\ Partial(filter)
  <2>1. << >> \in Seq(PacketSet) /\ Len(<< >>) = 0
    OBVIOUS
  <2>2. ~Whole(<< >>) /\ UnitLimit >= 0 /\ \A pid : OnPid(<< >>, pid)
    BY Constants DEF Whole, OnPid
  <2> QED
    BY <1>9, <2>1, <2>2 DEF Collecting, Partial
<1>11. SourceOK
  <2>1. ASSUME NEW pid \in Pids
        PROVE  NoPacket(pid) \in PacketSet /\ NoPacket(pid).pid = pid /\ ~NoPacket(pid).start
    BY <1>3, Constants DEF NoPacket, PacketSet, Counters
  <2>2. 0 \in 0 .. MaxBurst
    BY Constants
  <2>3. source = [pid \in Pids |-> [last |-> NoPacket(pid), lost |-> 0]]
    BY DEF Init
  <2> HIDE DEF PacketSet
  <2> QED
    BY <2>1, <2>2, <2>3 DEF SourceOK
<1>12. AnnouncedSet /\ PcrSet
  BY <1>6 DEF AnnouncedSet, PcrSet
<1>13. clock \in Times
  BY <1>3 DEF Init
<1> QED
  BY <1>6, <1>8, <1>9, <1>10, <1>11, <1>12, <1>13, SetsAre DEF Inv

LEMMA InvAlways == Spec => []Inv
<1>1. Init => Inv
  BY InvInit
<1>2. Inv /\ [Next]_vars => Inv'
  BY InvStep, InvUnchanged
<1> QED
  BY <1>1, <1>2, PTL DEF Spec

\* Type correctness: the members keep their types and ranges, no more of a PES is held than the
\* limit allows, and the clocks and counters stay in their ranges.
THEOREM FilterTypes == Spec => []TypeOK
<1>1. Inv => TypeOK
  BY DEF Inv, State, Ranges, Collecting, TypeOK, Counters
<1> QED
  BY <1>1, InvAlways, PTL

\* What goes out on a stream is in the PMT sent last, for every command line, and any order of
\* tables, packets and losses; but for what is inserted before any PMT, and the right half of a
\* dual mono in mode 0.
THEOREM SentIsAnnounced == Spec => []Announced
<1>1. Inv => Announced
  BY DEF Inv
<1> QED
  BY <1>1, InvAlways, PTL

\* While the PMT in force fits, the clock reference goes out where the PMT sent says.
THEOREM PcrIsAnnounced == Spec => []PcrWhereAnnounced
<1>1. Inv => PcrWhereAnnounced
  BY DEF Inv
<1> QED
  BY <1>1, InvAlways, PTL

-----------------------------------------------------------------------------
(* Whole PES.  The counter of a packet tells how many were lost since the  *)
(* last one held, as long as fewer are lost in a row than counters there   *)
(* are.                                                                    *)

\* The packets of one PES from its first one on
Chain(unit) == \A k \in DOMAIN unit : unit[k].index = k /\ unit[k].pes = unit[1].pes

\* The packet is the one at place k of the PES.
At(p, unit, k) == p.index = k /\ p.pes = unit[1].pes /\ p.of = unit[1].of

\* The packets sent since the one held last: how far the counter is ahead tells whether the
\* last of them is that packet, the next one of its PES, or neither.
Ahead(unit, src) ==
  \E d \in 0 .. src.lost :
    /\ src.last.counter = (unit[Len(unit)].counter + d) % CounterMod
    /\ d = 0 => At(src.last, unit, Len(unit))
    /\ d = 1 => At(src.last, unit, Len(unit) + 1)

Linked(unit, src) ==
  (unit # << >> /\ Filled(unit)) =>
    Chain(unit) /\ (Len(unit) < UnitLimit => Ahead(unit, src))

Chained == \A a \in AudioSlots : Pid(filter, a) \in Pids => Linked(filter.unit[a], source[Pid(filter, a)])

LEMMA CounterAhead ==
  ASSUME NEW c \in Counters, NEW d \in 0 .. CounterMod - 1
  PROVE  /\ (c + d) % CounterMod = Successor(c) <=> d = 1
         /\ Successor((c + d) % CounterMod) = (c + (d + 1)) % CounterMod
         /\ Successor((c + d) % CounterMod) = Successor(c) <=> d = 0
<1>1. CounterMod \in Nat /\ CounterMod >= 2 /\ c \in 0 .. CounterMod - 1
  BY Constants DEF Counters
<1>2. \A x \in 0 .. 2 * CounterMod - 1 :
        x % CounterMod = IF x < CounterMod THEN x ELSE x - CounterMod
  BY <1>1
<1> QED
  BY SMTT(30), <1>1, <1>2 DEF Successor

\* What is held of a PES is shorter than the PES, if its packets have payload.
LEMMA FilledWhole ==
  ASSUME NEW unit \in Seq(PacketSet), unit # << >>, Filled(unit)
  PROVE  Whole(unit) <=> Len(unit) >= unit[1].of
<1>1. Len(unit) \in Nat /\ DOMAIN unit = 1 .. Len(unit)
  BY SequenceIs
<1>2. {i \in DOMAIN unit : unit[i].payload} = 1 .. Len(unit)
  BY <1>1 DEF Filled
<1>3. Cardinality(1 .. Len(unit)) = Len(unit)
  BY <1>1, FS_Interval
<1> QED
  BY <1>2, <1>3 DEF Whole

LEMMA FilledAppend ==
  ASSUME NEW unit \in Seq(PacketSet), NEW p \in PacketSet, Filled(Append(unit, p))
  PROVE  Filled(unit) /\ p.payload
BY SequenceIs DEF Filled

LEMMA ChainAppend ==
  ASSUME NEW unit \in Seq(PacketSet), unit # << >>, Chain(unit), NEW p \in PacketSet,
         At(p, unit, Len(unit) + 1)
  PROVE  Chain(Append(unit, p)) /\ Append(unit, p)[1] = unit[1]
<1> DEFINE n == Len(unit)
           u == Append(unit, p)
<1>1. /\ n \in Nat /\ n >= 1 /\ DOMAIN unit = 1 .. n /\ DOMAIN u = 1 .. n + 1
      /\ u[n + 1] = p /\ \A k \in 1 .. n : u[k] = unit[k]
  BY SequenceIs
<1>2. p.index = n + 1 /\ p.pes = unit[1].pes
  BY DEF At
<1> HIDE DEF n, u
<1>3. u[1] = unit[1]
  BY <1>1
<1>4. ASSUME NEW k \in 1 .. n + 1
      PROVE  u[k].index = k /\ u[k].pes = unit[1].pes
  <2>1. CASE k = n + 1
    BY <1>1, <1>2, <2>1
  <2>2. CASE k # n + 1
    <3>1. k \in 1 .. n
      BY <1>1, <2>2
    <3> QED
      BY <1>1, <3>1 DEF Chain
  <2> QED
    BY <2>1, <2>2
<1> QED
  BY <1>1, <1>3, <1>4 DEF Chain, u

\* The packet held last is the last one sent.
LEMMA AheadNone ==
  ASSUME NEW unit, NEW p \in PacketSet, NEW src, src.lost \in Nat, src.last.counter = p.counter,
         unit[Len(unit)] = p, At(src.last, unit, Len(unit))
  PROVE  Ahead(unit, src)
<1>1. p.counter \in Counters
  BY DEF PacketSet
<1>2. p.counter = (p.counter + 0) % CounterMod
  BY <1>1, Constants DEF Counters
<1>3. 0 \in 0 .. src.lost /\ ~(0 = 1)
  OBVIOUS
<1> QED
  BY <1>2, <1>3 DEF Ahead

\* What is held with one more packet, which is the last one sent by src and the next one of the
\* PES if its counter is.
LEMMA LinkKept ==
  ASSUME NEW unit \in Seq(PacketSet), Len(unit) <= UnitLimit, ~Whole(unit),
         (unit # << >> /\ Filled(unit)) => Chain(unit),
         NEW p \in PacketSet, p.start => p.index = 1,
         (/\ unit # << >> /\ Filled(unit) /\ Len(unit) < UnitLimit /\ p.payload /\ ~p.start
          /\ p.counter = Successor(unit[Len(unit)].counter))
           => At(p, unit, Len(unit) + 1),
         NEW src, src.lost \in Nat, src.last.counter = p.counter, src.last.index = p.index,
         src.last.pes = p.pes, src.last.of = p.of
  PROVE  /\ Linked(Accumulated(unit, p), src)
         /\ (Whole(Accumulated(unit, p)) /\ Filled(Accumulated(unit, p))) =>
              /\ Len(Accumulated(unit, p)) = Accumulated(unit, p)[1].of
              /\ Chain(Accumulated(unit, p))
<1> DEFINE g == Accumulated(unit, p)
<1>1. UnitLimit \in Nat /\ p.of \in Nat \ {0} /\ Len(unit) \in Nat
  BY Constants, SequenceIs DEF PacketSet
<1>2. CASE g = << >>
  BY <1>2 DEF Linked, Whole
<1>3. CASE p.start /\ g = <<p>>
  <2> DEFINE u == <<p>>
  <2>1. u \in Seq(PacketSet) /\ u # << >> /\ Len(u) = 1 /\ u[1] = p /\ DOMAIN u = {1}
    BY SequenceIs
  <2>2. u[Len(u)] = p /\ g = u /\ p.index = 1
    BY <1>3, <2>1
  <2> HIDE DEF u, g
  <2>3. Chain(u)
    BY <2>1, <2>2 DEF Chain
  <2>4. Ahead(u, src)
    <3>1. At(src.last, u, Len(u))
      BY <2>1, <2>2 DEF At
    <3> QED
      BY <2>2, <3>1, AheadNone
  <2>5. ASSUME Whole(u), Filled(u)
        PROVE  Len(u) = u[1].of
    <3>1. Len(u) >= u[1].of
      BY <2>1, <2>5, FilledWhole
    <3> QED
      BY <1>1, <2>1, <3>1
  <2> QED
    BY <2>2, <2>3, <2>4, <2>5 DEF Linked, g
<1>4. CASE /\ ~p.start /\ unit # << >> /\ Len(unit) < UnitLimit /\ g = Append(unit, p)
           /\ p.counter = Successor(unit[Len(unit)].counter)
  <2> DEFINE u == Append(unit, p)
  <2>1. /\ u \in Seq(PacketSet) /\ Len(u) = Len(unit) + 1 /\ u[Len(u)] = p /\ u # << >>
        /\ Len(unit) >= 1 /\ unit[1] \in PacketSet
    BY <1>4, SequenceIs
  <2>2. ASSUME Filled(u)
        PROVE  /\ Chain(u) /\ u[1] = unit[1] /\ At(p, unit, Len(unit) + 1)
               /\ ~(Len(unit) >= unit[1].of)
    <3>1. Filled(unit) /\ p.payload
      BY <2>2, FilledAppend
    <3>2. At(p, unit, Len(unit) + 1) /\ Chain(unit)
      BY <1>4, <3>1
    <3> QED
      BY <1>4, <3>1, <3>2, ChainAppend, FilledWhole
  <2>3. g = u /\ unit[1].of \in Nat \ {0}
    BY <1>4, <2>1 DEF PacketSet
  <2> HIDE DEF u, g
  <2>4. ASSUME Filled(u)
        PROVE  Ahead(u, src)
    <3>1. At(src.last, u, Len(u))
      BY <2>1, <2>2, <2>4 DEF At
    <3> QED
      BY <2>1, <3>1, AheadNone
  <2>5. ASSUME Filled(u), Whole(u)
        PROVE  Len(u) = u[1].of
    <3>1. Len(u) >= u[1].of
      BY <2>1, <2>5, FilledWhole
    <3> QED
      BY <1>1, <2>1, <2>2, <2>3, <2>5, <3>1
  <2> QED
    BY <2>2, <2>3, <2>4, <2>5 DEF Linked, g
<1>5. CASE Len(unit) = UnitLimit /\ g = unit
  BY <1>1, <1>5 DEF Linked
<1> QED
  BY <1>2, <1>3, <1>4, <1>5, AccumulatedIs

\* Held with one more packet, of a source that sends it or sends its last one again
NowLinked(unit, p, src) ==
  /\ Linked(Accumulated(unit, p), src)
  /\ (Whole(Accumulated(unit, p)) /\ Filled(Accumulated(unit, p))) =>
       Len(Accumulated(unit, p)) = Accumulated(unit, p)[1].of /\ Chain(Accumulated(unit, p))

LEMMA CounterOfLast ==
  ASSUME NEW unit \in Seq(PacketSet), unit # << >>
  PROVE  unit[Len(unit)].counter \in Counters
<1>1. unit[Len(unit)] \in PacketSet
  BY SequenceIs
<1> QED
  BY <1>1 DEF PacketSet

LEMMA ReceivedLinked ==
  ASSUME MaxBurst < CounterMod, SourceOK, clock \in Times, NEW pid \in Pids,
         NEW p \in Following(pid), NEW q \in PacketSet, Alike(q, p),
         NEW unit \in Seq(PacketSet), Len(unit) <= UnitLimit, ~Whole(unit), Linked(unit, source[pid])
  PROVE  NowLinked(unit, q, [last |-> p, lost |-> 0])
<1> DEFINE last == source[pid].last
           src == [last |-> p, lost |-> 0]
<1>1. /\ p \in PacketSet /\ p.counter = Successor(last.counter)
      /\ last.index < last.of => ~p.start
      /\ p.start => p.index = 1
      /\ ~p.start => p.index = last.index + 1 /\ p.pes = last.pes /\ p.of = last.of
  BY FollowingIs
<1>2. source[pid].lost \in 0 .. MaxBurst /\ MaxBurst \in Nat /\ CounterMod \in Nat
  BY Constants DEF SourceOK
<1> HIDE DEF last
<1>3. ASSUME unit # << >>, Filled(unit), Len(unit) < UnitLimit, ~q.start,
             q.counter = Successor(unit[Len(unit)].counter)
      PROVE  At(q, unit, Len(unit) + 1)
  <2>1. PICK d \in 0 .. source[pid].lost :
          /\ last.counter = (unit[Len(unit)].counter + d) % CounterMod
          /\ d = 0 => At(last, unit, Len(unit))
    BY <1>3 DEF Linked, Ahead, last
  <2>2. d \in 0 .. CounterMod - 1 /\ unit[Len(unit)].counter \in Counters
    BY <1>2, <1>3, CounterOfLast
  <2>3. Successor((unit[Len(unit)].counter + d) % CounterMod) = Successor(unit[Len(unit)].counter)
    BY <1>1, <1>3, <2>1 DEF Alike
  <2>4. d = 0
    BY <2>2, <2>3, CounterAhead
  <2> QED
    BY <1>1, <1>3, <2>1, <2>4 DEF At, Alike
<1>4. /\ src.lost \in Nat /\ src.last.counter = q.counter /\ src.last.index = q.index
      /\ src.last.pes = q.pes /\ src.last.of = q.of
      /\ q.start => q.index = 1
  BY <1>1 DEF Alike
<1> HIDE DEF src
<1>5. (unit # << >> /\ Filled(unit)) => Chain(unit)
  BY DEF Linked
<1>6. NowLinked(unit, q, src)
  BY <1>3, <1>4, <1>5, LinkKept DEF NowLinked
<1> QED
  BY <1>6 DEF src

LEMMA AgainLinked ==
  ASSUME MaxBurst < CounterMod, SourceOK, NEW pid \in Pids,
         NEW p \in OnceMore(source[pid].last),
         NEW unit \in Seq(PacketSet), Len(unit) <= UnitLimit, ~Whole(unit), Linked(unit, source[pid])
  PROVE  NowLinked(unit, p, source[pid])
<1>0. /\ p \in PacketSet /\ p.pid = pid
      /\ p.counter = source[pid].last.counter /\ p.index = source[pid].last.index
      /\ p.pes = source[pid].last.pes /\ p.of = source[pid].last.of
      /\ p.start => p.index = 1
      /\ p.payload => p = source[pid].last
  BY ONLY SourceOK, pid \in Pids, AgainIs,
          p \in OnceMore(source[pid].last)
<1> DEFINE src == source[pid]
           last == src.last
<1>1. /\ p \in PacketSet /\ p.counter = last.counter /\ p.index = last.index
      /\ p.pes = last.pes /\ p.of = last.of
      /\ p.start => p.index = 1
      /\ p.payload => p = last
  BY <1>0
<1>2. src.lost \in 0 .. MaxBurst /\ MaxBurst \in Nat /\ CounterMod \in Nat
  BY Constants DEF SourceOK
<1>3. Linked(unit, src)
  OBVIOUS
<1> HIDE DEF src
<1>4. ASSUME unit # << >>, Filled(unit), Len(unit) < UnitLimit,
             p.counter = Successor(unit[Len(unit)].counter)
      PROVE  At(p, unit, Len(unit) + 1)
  <2>1. PICK d \in 0 .. src.lost :
          /\ last.counter = (unit[Len(unit)].counter + d) % CounterMod
          /\ d = 1 => At(last, unit, Len(unit) + 1)
    BY <1>3, <1>4 DEF Linked, Ahead
  <2>2. d \in 0 .. CounterMod - 1 /\ unit[Len(unit)].counter \in Counters
    BY <1>2, <1>4, CounterOfLast
  <2> HIDE DEF last
  <2>3. d = 1
    <3>1. (unit[Len(unit)].counter + d) % CounterMod = Successor(unit[Len(unit)].counter)
      BY <1>1, <1>4, <2>1
    <3> QED
      BY <2>2, <3>1, CounterAhead
  <2> QED
    BY <1>1, <2>1, <2>3 DEF At
<1>5. (unit # << >> /\ Filled(unit)) => Chain(unit)
  BY <1>3 DEF Linked
<1>6. src.lost \in Nat
  BY <1>2
<1>7. NowLinked(unit, p, src)
  BY <1>1, <1>4, <1>5, <1>6, LinkKept DEF NowLinked
<1> QED
  BY <1>7 DEF src

LEMMA LostLinked ==
  ASSUME MaxBurst < CounterMod, SourceOK, clock \in Times, NEW pid \in Pids,
         NEW p \in Following(pid), NEW unit \in Seq(PacketSet), ~Whole(unit),
         Linked(unit, source[pid])
  PROVE  Linked(unit, [last |-> p, lost |-> source[pid].lost + 1])
<1> DEFINE last == source[pid].last
           lost == source[pid].lost
           src == [last |-> p, lost |-> lost + 1]
<1>1. /\ p.counter = Successor(last.counter)
      /\ last.index < last.of => ~p.start
      /\ ~p.start => p.index = last.index + 1 /\ p.pes = last.pes /\ p.of = last.of
  BY FollowingIs
<1>2. lost \in 0 .. MaxBurst /\ MaxBurst \in Nat /\ CounterMod \in Nat
  BY Constants DEF SourceOK
<1>3. src.last = p /\ src.lost = lost + 1
  OBVIOUS
<1> HIDE DEF last, lost, src
<1>4. ASSUME unit # << >>, Filled(unit), Len(unit) < UnitLimit
      PROVE  Ahead(unit, src)
  <2>1. PICK d \in 0 .. lost :
          /\ last.counter = (unit[Len(unit)].counter + d) % CounterMod
          /\ d = 0 => At(last, unit, Len(unit))
    BY <1>4 DEF Linked, Ahead, last, lost
  <2>2. d \in 0 .. CounterMod - 1 /\ unit[Len(unit)].counter \in Counters
    BY <1>2, <1>4, CounterOfLast
  <2>3. p.counter = (unit[Len(unit)].counter + (d + 1)) % CounterMod
    BY <1>1, <2>1, <2>2, CounterAhead
  <2>4. d = 0 => At(p, unit, Len(unit) + 1)
    <3>1. unit[1] \in PacketSet /\ Len(unit) \in Nat
      BY <1>4, SequenceIs
    <3>2. ~(Len(unit) >= unit[1].of)
      BY <1>4, FilledWhole
    <3>3. unit[1].of \in Nat
      BY <3>1 DEF PacketSet
    <3>4. d = 0 => last.index < last.of
      BY <2>1, <3>1, <3>2, <3>3 DEF At
    <3> QED
      BY <1>1, <2>1, <3>4 DEF At
  <2>5. d + 1 \in 0 .. lost + 1 /\ d + 1 # 0 /\ (d + 1 = 1 => d = 0)
    BY <1>2
  <2> QED
    BY <1>3, <2>3, <2>4, <2>5 DEF Ahead
<1>5. Linked(unit, src)
  BY <1>4 DEF Linked
<1> QED
  BY <1>5 DEF src, lost

WholeSet ==
  \A q \in ToSet(filter.packets) : q.kind \in PesKinds /\ Filled(q.unit) =>
    /\ Len(q.unit) = q.unit[1].of
    /\ Chain(q.unit) /\ OnPid(q.unit, q.unit[1].pid)

LEMMA WholeIs ==
  ASSUME WholeSet
  PROVE  AudioWhole
<1>1. \A i \in DOMAIN filter.packets : filter.packets[i] \in ToSet(filter.packets)
  BY DEF ToSet
<1> QED
  BY <1>1 DEF WholeSet, AudioWhole, Filled, Chain, OnPid, PesKinds

\* A packet of a stream: what is held for its PID goes on with it.
LEMMA StreamChained ==
  ASSUME Inv, Chained, NEW p \in PacketSet, StreamPacket(p),
         \A x \in Pids : x # p.pid => source'[x] = source[x],
         \A unit \in Seq(PacketSet) :
           Len(unit) <= UnitLimit /\ ~Whole(unit) /\ Linked(unit, source[p.pid]) =>
             NowLinked(unit, p, source'[p.pid])
  PROVE  Chained' /\ WholeSet'
<1>1. State(filter) /\ Collecting(filter) /\ TablesOK(filter) /\ Partial(filter)
      /\ Distinct(filter) /\ Selected(filter)
  BY DEF Inv, TablesOK
<1>2. /\ SameTables(filter, filter') /\ Taken(filter, filter', p)
      /\ \A q \in ToSet(filter'.packets) :
           \/ PcrAlone(q, filter) \/ Inserted(q, filter)
           \/ CarriesOn(q, filter, filter', p)
  BY <1>1, StreamIs
<1>3. p.pid \in Pids /\ p.pid # 0
  BY PidsIn DEF PacketSet
<1>4. \A x \in Slots : Pid(filter', x) = Pid(filter, x)
  BY <1>2 DEF SameTables, Pid
<1>5. AudioSlots \subseteq Slots
  BY DEF Slots
<1>6. ASSUME NEW a \in AudioSlots, Pid(filter, a) = p.pid
      PROVE  /\ NowLinked(filter.unit[a], p, source'[p.pid])
             /\ filter.unit[a] \in Seq(PacketSet) /\ Len(filter.unit[a]) <= UnitLimit
             /\ OnPid(filter.unit[a], p.pid)
  <2>1. /\ filter.unit[a] \in Seq(PacketSet) /\ Len(filter.unit[a]) <= UnitLimit
        /\ ~Whole(filter.unit[a]) /\ OnPid(filter.unit[a], p.pid)
    BY <1>1, <1>3, <1>6 DEF Collecting, Partial
  <2>2. Linked(filter.unit[a], source[p.pid])
    BY <1>3, <1>6 DEF Chained
  <2> QED
    BY <2>1, <2>2
<1>7. ASSUME NEW b \in AudioSlots, Pid(filter, b) \in Pids, Pid(filter, b) # p.pid
      PROVE  Linked(filter.unit[b], source'[Pid(filter, b)])
  BY <1>7 DEF Chained
<1>8. Chained'
  <2>1. CASE filter'.unit = filter.unit /\ \A a \in AudioSlots : Pid(filter, a) # p.pid
    BY <1>4, <1>5, <1>7, <2>1 DEF Chained
  <2>2. ASSUME NEW a \in AudioSlots, Pid(filter, a) = p.pid,
               filter'.unit = [filter.unit EXCEPT ![a] = Kept(Accumulated(filter.unit[a], p))]
        PROVE  Chained'
    <3> DEFINE unit == Accumulated(filter.unit[a], p)
    <3>1. Linked(unit, source'[p.pid])
      BY <1>6, <2>2 DEF NowLinked
    <3>2. filter'.unit[a] = Kept(unit) /\ \A b \in AudioSlots \ {a} : filter'.unit[b] = filter.unit[b]
      BY <1>1, <2>2 DEF State, Shape
    <3> HIDE DEF unit
    <3>3. Linked(Kept(unit), source'[p.pid])
      <4>1. Linked(<< >>, source'[p.pid])
        BY DEF Linked
      <4> QED
        BY <3>1, <4>1 DEF Kept
    <3>4. ASSUME NEW b \in AudioSlots, Pid(filter', b) \in Pids
          PROVE  Linked(filter'.unit[b], source'[Pid(filter', b)])
      <4>1. CASE b = a
        BY <1>4, <1>5, <2>2, <3>2, <3>3, <4>1
      <4>2. CASE b # a
        <5>1. Pid(filter, b) = Pid(filter', b) /\ Pid(filter, b) # p.pid
          BY <1>1, <1>3, <1>4, <1>5, <2>2, <4>2 DEF Distinct
        <5> QED
          BY <1>7, <3>2, <3>4, <4>2, <5>1
      <4> QED
        BY <4>1, <4>2
    <3> QED
      BY <3>4 DEF Chained
  <2> QED
    BY <1>2, <2>1, <2>2 DEF Taken
<1>9. ASSUME NEW q \in ToSet(filter'.packets), q.kind \in PesKinds, Filled(q.unit)
      PROVE  Len(q.unit) = q.unit[1].of /\ Chain(q.unit) /\ OnPid(q.unit, q.unit[1].pid)
  <2>1. PICK a \in AudioSlots :
          /\ Pid(filter, a) = p.pid /\ Whole(Accumulated(filter.unit[a], p))
          /\ PesOf(q, filter, a, Accumulated(filter.unit[a], p))
    BY <1>2, <1>9 DEF PesKinds, PcrAlone, Inserted, CarriesOn
  <2> DEFINE unit == Accumulated(filter.unit[a], p)
  <2>2. /\ q.unit = unit /\ NowLinked(filter.unit[a], p, source'[p.pid]) /\ OnPid(unit, p.pid)
        /\ unit \in Seq(PacketSet) /\ Whole(unit)
    BY <1>6, <2>1, AccumulatedOn, AccumulatedType DEF PesOf
  <2>3. Filled(unit) => Len(unit) = unit[1].of /\ Chain(unit)
    BY <2>2 DEF NowLinked
  <2> HIDE DEF unit
  <2>4. OnPid(unit, unit[1].pid)
    <3>1. 1 \in DOMAIN unit
      BY <2>2 DEF Whole
    <3> QED
      BY <2>2, <3>1 DEF OnPid
  <2> QED
    BY <1>9, <2>2, <2>3, <2>4
<1> QED
  BY <1>8, <1>9 DEF WholeSet

\* A packet with tables, or none: what is held stays linked or is dropped.
LEMMA HeldChained ==
  ASSUME Chained, HeldStill(filter, filter'), source' = source
  PROVE  Chained'
<1>1. ASSUME NEW a \in AudioSlots, Pid(filter', a) \in Pids
      PROVE  Linked(filter'.unit[a], source'[Pid(filter', a)])
  <2>1. CASE filter'.unit[a] = << >>
    BY <2>1 DEF Linked
  <2>2. CASE filter'.unit[a] = filter.unit[a] /\ Pid(filter', a) \in {Pid(filter, a), 0}
    <3>1. Pid(filter', a) = Pid(filter, a)
      BY <1>1, <2>2, PidsIn
    <3> QED
      BY <1>1, <2>2, <3>1 DEF Chained
  <2> QED
    BY <2>1, <2>2 DEF HeldStill
<1> QED
  BY <1>1 DEF Chained

LEMMA TablesChained ==
  ASSUME Chained, TablesSent(filter, filter'), source' = source
  PROVE  Chained' /\ WholeSet'
<1>1. Chained'
  BY HeldChained DEF TablesSent
<1>2. \A q \in ToSet(filter'.packets) : q.kind = "table"
  BY DEF TablesSent, OnlyTables
<1> QED
  BY <1>1, <1>2 DEF WholeSet, PesKinds

LEMMA ChainStep ==
  ASSUME MaxBurst < CounterMod, Inv, Chained, Next
  PROVE  Chained' /\ WholeSet'
<1>1. SourceOK /\ clock \in Times /\ State(filter) /\ TablesOK(filter) /\ Collecting(filter)
      /\ Partial(filter)
  BY DEF Inv
<1>2. CASE PatPacket
  BY <1>1, <1>2, PatIs, TablesChained DEF PatPacket
<1>3. CASE PmtPacket
  BY <1>1, <1>3, PmtIs, TablesChained DEF PmtPacket
<1>4. ASSUME NEW pid \in Pids, Receive(pid)
      PROVE  Chained' /\ WholeSet'
  <2>1. PICK p \in Following(pid), q \in PacketSet :
          /\ p \in PacketSet /\ Alike(q, p) /\ StreamPacket(q)
          /\ source' = [source EXCEPT ![pid] = [last |-> p, lost |-> 0]]
    BY <1>1, <1>4, ReceiveIs
  <2>2. q.pid = pid
    <3>1. p.pid = pid
      BY <1>1, FollowingIs
    <3> QED
      BY <2>1, <3>1 DEF Alike
  <2>3. /\ source'[pid] = [last |-> p, lost |-> 0]
        /\ \A x \in Pids : x # pid => source'[x] = source[x]
    BY <1>1, <2>1 DEF SourceOK
  <2>4. \A unit \in Seq(PacketSet) :
          Len(unit) <= UnitLimit /\ ~Whole(unit) /\ Linked(unit, source[pid]) =>
            NowLinked(unit, q, source'[pid])
    BY <1>1, <2>1, <2>3, ReceivedLinked
  <2> QED
    BY <2>1, <2>2, <2>3, <2>4, StreamChained
<1>5. ASSUME NEW pid \in Pids, Lose(pid)
      PROVE  Chained' /\ WholeSet'
  <2>1. /\ Same(filter, filter') /\ ToSet(filter'.packets) = {}
        /\ \E p \in Following(pid) :
             source' = [source EXCEPT ![pid] = [last |-> p, lost |-> source[pid].lost + 1]]
    BY <1>5, LoseIs
  <2>2. PICK p \in Following(pid) :
          source' = [source EXCEPT ![pid] = [last |-> p, lost |-> source[pid].lost + 1]]
    BY <2>1
  <2>3. /\ source'[pid] = [last |-> p, lost |-> source[pid].lost + 1]
        /\ \A x \in Pids : x # pid => source'[x] = source[x]
    BY <1>1, <2>2 DEF SourceOK
  <2>4. ASSUME NEW a \in AudioSlots, Pid(filter', a) \in Pids
        PROVE  Linked(filter'.unit[a], source'[Pid(filter', a)])
    <3>1. filter'.unit[a] = filter.unit[a] /\ Pid(filter', a) = Pid(filter, a)
      BY <2>1 DEF Same, SameTables, Pid
    <3>2. /\ filter.unit[a] \in Seq(PacketSet) /\ ~Whole(filter.unit[a])
          /\ Linked(filter.unit[a], source[Pid(filter, a)])
      BY <1>1, <2>4, <3>1 DEF Collecting, Partial, Chained
    <3>3. CASE Pid(filter, a) = pid
      <4>1. Linked(filter.unit[a], source'[pid])
        BY <1>1, <2>3, <3>2, <3>3, LostLinked
      <4> QED
        BY <3>1, <3>3, <4>1
    <3>4. CASE Pid(filter, a) # pid
      BY <2>3, <2>4, <3>1, <3>2, <3>4
    <3> QED
      BY <3>3, <3>4
  <2> QED
    BY <2>1, <2>4 DEF Chained, WholeSet
<1>6. ASSUME NEW pid \in Pids, Again(pid)
      PROVE  Chained' /\ WholeSet'
  <2>1. PICK p \in OnceMore(source[pid].last) :
          StreamPacket(p)
    BY <1>6 DEF Again, OnceMore
  <2>2. p \in PacketSet /\ p.pid = pid
    BY <1>1, <2>1, AgainIs
  <2>3. source' = source
    BY <1>6 DEF Again
  <2>4. \A unit \in Seq(PacketSet) :
          Len(unit) <= UnitLimit /\ ~Whole(unit) /\ Linked(unit, source[pid]) =>
            NowLinked(unit, p, source'[pid])
    BY <1>1, <2>1, <2>3, AgainLinked
  <2> QED
    BY <2>1, <2>2, <2>3, <2>4, StreamChained
<1> QED
  BY <1>2, <1>3, <1>4, <1>5, <1>6 DEF Next

LEMMA ChainUnchanged ==
  ASSUME Chained, WholeSet, UNCHANGED vars
  PROVE  Chained' /\ WholeSet'
BY DEF Chained, WholeSet, vars

LEMMA ChainInit ==
  ASSUME Init
  PROVE  Chained /\ WholeSet
<1>1. \A a \in AudioSlots : filter.unit[a] = << >>
  BY InvInit
<1>2. filter.packets = << >>
  BY DEF Init
<1> QED
  BY <1>1, <1>2, NoneIs DEF Chained, Linked, WholeSet

\* Audio goes out in whole PES, each put together from the packets of one PES and nothing else,
\* unless a packet without payload was taken for it: whatever is lost or repeated and however
\* the selection changes, as long as fewer packets are lost in a row than there are counters.
THEOREM WholeAudio ==
  ASSUME MaxBurst < CounterMod
  PROVE  Spec => []AudioWhole
<1>1. Inv /\ Chained /\ WholeSet /\ [Next]_vars => (Chained /\ WholeSet)'
  BY ChainStep, ChainUnchanged
<1>2. Init => Chained /\ WholeSet
  BY ChainInit
<1>3. WholeSet => AudioWhole
  BY WholeIs
<1> QED
  BY <1>1, <1>2, <1>3, InvAlways, PTL DEF Spec
=============================================================================
