------------------------- MODULE Id3ConverterProofs -------------------------
(***************************************************************************)
(* Theorems about Id3Converter: type correctness, the PMT and the PID of   *)
(* the metadata, the PTS sent, and that the metadata are made of whole     *)
(* PES, and of each that came undisturbed.                                 *)
(***************************************************************************)
EXTENDS Id3Converter, IndexLemmas, FiniteSetTheorems

Counters == 0 .. CounterMod - 1

PacketSet == [pid : Pids, start : BOOLEAN, counter : Counters, payload : BOOLEAN,
              pes : Nat, index : Nat, of : Nat, kind : {"own", "pcr", "other"}]

HeldSet == [counter : Counters, unit : Seq(PacketSet)]

SectionSet == UNION {Sections[pid] : pid \in DOMAIN Sections}

TableSet == [id3 : Pids \cup {0}, streams : SUBSET Pids, source : SUBSET Pids,
             pid : [Roles -> Pids \cup {0}], section : SectionSet]

\* The packets that are sent
PassedSet == [pid : Nat, kind : {"packet"}]
PmtSet == [pid : DOMAIN Sections, kind : {"pmt"}, table : TableSet]
Id3Set == [pid : Pids \cup {0}, kind : {"id3"}, pts : Times, unit : Seq(PacketSet)]
SentSet == PassedSet \cup PmtSet \cup Id3Set

ConvSet == [opt : Options, pat : Pats \cup {<< >>}, firstPid : DOMAIN Sections \cup {0},
            section : SectionSet \cup {NoSection}, remove : SUBSET Pids,
            pid : [Roles -> Pids \cup {0}], pes : [Roles -> HeldSet],
            pcrPid : Nat \ TextPids, pcr : Times \cup {NoTime}, id3Pid : Pids \cup {0},
            id3Counter : Int, pmtCounter : Int, last : Times \cup {NoTime},
            packets : Seq(SentSet)]

-----------------------------------------------------------------------------
(* The tables.                                                             *)

LEMMA Constants ==
  /\ CounterMod \in Nat /\ CounterMod >= 2 /\ PtsMod \in Nat \ {0}
  /\ TextPids \subseteq Pids /\ Pids \subseteq Nat \ {0}
  /\ PesLength \in Nat \ {0} /\ PesMod \in Nat \ {0} /\ MaxBurst \in Nat
  /\ Accept \in 1 .. PtsMod - 1
  /\ DOMAIN Sections \subseteq Nat \ (Pids \cup {0})
BY ConverterAssumption, TablesAssumption, PtsAssumption

LEMMA SectionIs ==
  ASSUME NEW s \in SectionSet
  PROVE  /\ s.parts \in Nat \ {0} /\ s.pcrPid \in Nat \ TextPids /\ s.fits \in BOOLEAN
         /\ s.es \in Seq([tag : STRING, pid : Pids])
         /\ \A i, j \in DOMAIN s.es : s.es[i].pid = s.es[j].pid => i = j
         /\ s # NoSection
<1>1. PICK pid \in DOMAIN Sections : s \in Sections[pid]
  BY DEF SectionSet
<1>2. s \in [parts : Nat \ {0}, pcrPid : Nat \ TextPids, fits : BOOLEAN,
             es : Seq([tag : STRING, pid : Pids])]
  BY <1>1, TablesAssumption
<1>3. s.parts # 0 /\ NoSection.parts = 0
  BY <1>2 DEF NoSection
<1> QED
  BY <1>1, <1>2, <1>3, TablesAssumption

LEMMA ElementIs ==
  ASSUME NEW S, NEW seq \in Seq(S)
  PROVE  \A i \in DOMAIN seq : seq[i] \in S
OBVIOUS

\* Of some PIDs one is the smallest.
LEMMA SmallestPid ==
  ASSUME NEW S \in SUBSET Pids, S # {}
  PROVE  Min(S) \in S
<1>1. PICK n \in S : TRUE
  OBVIOUS
<1> DEFINE T == {i \in S : i <= n}
<1>2. n \in Nat /\ S \subseteq Nat
  BY Constants
<1>3. T \in SUBSET (0 .. n) /\ T # {}
  <2>1. \A i \in T : i \in Nat /\ i <= n
    BY <1>2
  <2>2. n \in T
    BY <1>1, <1>2
  <2> HIDE DEF T
  <2> QED
    BY <1>2, <2>1, <2>2
<1>4. Min(T) \in T /\ \A i \in T : Min(T) <= i
  <2> HIDE DEF T
  <2> QED
    BY <1>2, <1>3, LowestOffset
<1>5. Min(T) \in S /\ \A i \in S : Min(T) <= i
  <2> DEFINE m == Min(T)
  <2>1. m \in S /\ m <= n /\ \A i \in S : i <= n => m <= i
    BY <1>4
  <2> HIDE DEF m
  <2>2. \A i \in S : m <= i
    BY <1>2, <2>1
  <2> QED
    BY <2>1, <2>2 DEF m
<1> QED
  BY <1>5 DEF Min

\* The tags that give a stream a role
TagsOf(f, r) ==
  IF r = "caption" THEN {"caption", "captionC"}
  ELSE {"superimpose", "superimposeC"} \cup (IF f.opt.unknown THEN {"unknown"} ELSE {})

LEMMA LastOfIs ==
  ASSUME NEW es \in Seq([tag : STRING, pid : Pids]), NEW tags, LastOf(es, tags) # 0
  PROVE  \E i \in DOMAIN es : es[i].tag \in tags /\ es[i].pid = LastOf(es, tags)
<1> DEFINE on == {i \in DOMAIN es : es[i].tag \in tags}
<1>1. on # {}
  BY DEF LastOf
<1>2. on \in SUBSET (1 .. Len(es)) /\ Len(es) \in Nat
  OBVIOUS
<1>3. Max(on) \in on
  <2> HIDE DEF on
  <2> QED
    BY <1>1, <1>2, HighestIndex
<1>4. LastOf(es, tags) = es[Max(on)].pid
  BY <1>1 DEF LastOf
<1> QED
  BY <1>3, <1>4

\* A role is taken by a stream with one of its tags, or by none.
LEMMA RoleIs ==
  ASSUME NEW f, NEW r \in Roles, NEW es \in Seq([tag : STRING, pid : Pids]),
         RolePid(f, es, r) # 0
  PROVE  \E i \in DOMAIN es : es[i].tag \in TagsOf(f, r) /\ es[i].pid = RolePid(f, es, r)
<1> DEFINE second == IF r = "caption" THEN {"captionC"}
                     ELSE {"superimposeC"} \cup (IF f.opt.unknown THEN {"unknown"} ELSE {})
<1>1. RolePid(f, es, r) = IF LastOf(es, {r}) # 0 THEN LastOf(es, {r}) ELSE LastOf(es, second)
  BY DEF RolePid
<1>2. {r} \subseteq TagsOf(f, r) /\ second \subseteq TagsOf(f, r)
  BY DEF TagsOf, Roles
<1>3. CASE LastOf(es, {r}) # 0
  <2>1. PICK i \in DOMAIN es : es[i].tag \in {r} /\ es[i].pid = LastOf(es, {r})
    BY <1>3, LastOfIs
  <2> QED
    BY <1>1, <1>2, <1>3, <2>1
<1>4. CASE LastOf(es, {r}) = 0
  <2> HIDE DEF second
  <2>1. PICK i \in DOMAIN es : es[i].tag \in second /\ es[i].pid = LastOf(es, second)
    BY <1>1, <1>4, LastOfIs
  <2> QED
    BY <1>1, <1>2, <1>4, <2>1
<1> QED
  BY <1>3, <1>4

-----------------------------------------------------------------------------
(* What a PMT changes.                                                     *)

Gone(f, s) == {e.pid : e \in Removed(f, s.es)}
Stay(f, s) == {e.pid : e \in ToSet(s.es) \ Removed(f, s.es)}
PidsOf(f, s) == [r \in Roles |-> RolePid(f, s.es, r)]
Id3Of(f, s) == Id3Pid(f, Gone(f, s), Stay(f, s))
TableOf(f, s) == [id3 |-> Id3Of(f, s), streams |-> Stay(f, s), source |-> Gone(f, s) \cup Stay(f, s),
                  pid |-> PidsOf(f, s), section |-> s]
PmtOut(f, s) == [pid |-> f.firstPid, kind |-> "pmt", table |-> TableOf(f, s)]

\* The PIDs of a section: what is taken out and what stays are different ones, those of the
\* roles are taken out and different, and that of the metadata is none that stays.
LEMMA PidsAre ==
  ASSUME NEW f \in ConvSet, NEW s \in SectionSet
  PROVE  /\ Gone(f, s) \subseteq Pids /\ Stay(f, s) \subseteq Pids
         /\ Gone(f, s) \cap Stay(f, s) = {}
         /\ PidsOf(f, s) \in [Roles -> Gone(f, s) \cup {0}]
         /\ PidsOf(f, s)["caption"] = PidsOf(f, s)["superimpose"] => PidsOf(f, s)["caption"] = 0
         /\ Id3Of(f, s) \in Pids \cup {0}
         /\ Id3Of(f, s) \notin Stay(f, s)
         /\ Gone(f, s) # {} => Id3Of(f, s) # 0
<1> DEFINE es == s.es
<1>1. /\ es \in Seq([tag : STRING, pid : Pids])
      /\ \A i, j \in DOMAIN es : es[i].pid = es[j].pid => i = j
  BY SectionIs
<1>2. \A e \in ToSet(es) : \E i \in DOMAIN es : e = es[i]
  BY DEF ToSet
<1>3. \A i \in DOMAIN es : es[i] \in ToSet(es) /\ es[i] \in [tag : STRING, pid : Pids]
  <2> HIDE DEF es
  <2>1. \A i \in DOMAIN es : es[i] \in ToSet(es)
    BY DEF ToSet
  <2>2. \A i \in DOMAIN es : es[i] \in [tag : STRING, pid : Pids]
    BY <1>1, ElementIs
  <2> QED
    BY <2>1, <2>2
<1> HIDE DEF es
<1>4. \A e \in ToSet(es) : e.pid \in Pids
  BY <1>2, <1>3
<1>5. \A d, e \in ToSet(es) : d.pid = e.pid => d = e
  BY <1>1, <1>2
<1>6. Removed(f, es) \subseteq ToSet(es)
  BY DEF Removed
<1>7. Gone(f, s) \subseteq Pids /\ Stay(f, s) \subseteq Pids
  BY <1>4, <1>6 DEF Gone, Stay, es
<1>8. Gone(f, s) \cap Stay(f, s) = {}
  BY <1>5, <1>6 DEF Gone, Stay, es
<1>9. ASSUME NEW r \in Roles, RolePid(f, es, r) # 0
      PROVE  RolePid(f, es, r) \in Gone(f, s)
  <2>1. PICK i \in DOMAIN es : es[i].tag \in TagsOf(f, r) /\ es[i].pid = RolePid(f, es, r)
    BY <1>1, <1>9, RoleIs
  <2>2. es[i] \in Removed(f, es)
    BY <1>3, <2>1 DEF Removed, TagsOf, Roles
  <2> QED
    BY <2>1, <2>2 DEF Gone, es
<1>10. PidsOf(f, s) \in [Roles -> Gone(f, s) \cup {0}]
  BY <1>9 DEF PidsOf, es
<1>11. ASSUME RolePid(f, es, "caption") = RolePid(f, es, "superimpose"),
              RolePid(f, es, "caption") # 0
       PROVE  FALSE
  <2>1. PICK i \in DOMAIN es : /\ es[i].tag \in TagsOf(f, "caption")
                               /\ es[i].pid = RolePid(f, es, "caption")
    BY <1>1, <1>11, RoleIs DEF Roles
  <2>2. PICK j \in DOMAIN es : /\ es[j].tag \in TagsOf(f, "superimpose")
                               /\ es[j].pid = RolePid(f, es, "superimpose")
    BY <1>1, <1>11, RoleIs DEF Roles
  <2>3. i = j
    BY <1>1, <1>11, <2>1, <2>2
  <2> QED
    BY <2>1, <2>2, <2>3 DEF TagsOf
<1>12. PidsOf(f, s)["caption"] = PidsOf(f, s)["superimpose"] => PidsOf(f, s)["caption"] = 0
  BY <1>11 DEF PidsOf, Roles, es
<1>13. /\ Id3Of(f, s) \in Pids \cup {0} /\ Id3Of(f, s) \notin Stay(f, s)
       /\ Gone(f, s) # {} => Id3Of(f, s) # 0
  <2>1. Gone(f, s) # {} => Min(Gone(f, s)) \in Gone(f, s)
    BY <1>7, SmallestPid
  <2>2. 0 \notin Pids /\ f.id3Pid \in Pids \cup {0}
    BY Constants DEF ConvSet
  <2> QED
    BY <1>7, <1>8, <2>1, <2>2 DEF Id3Of, Id3Pid
<1> QED
  BY <1>7, <1>8, <1>10, <1>12, <1>13

LEMMA OutIs ==
  ASSUME NEW f \in ConvSet, NEW q \in SentSet
  PROVE  /\ Out(f, q) \in ConvSet
         /\ Out(f, q) = [f EXCEPT !.packets = Append(f.packets, q)]
         /\ Out(f, q).packets = Append(f.packets, q)
         /\ \A field \in DOMAIN f \ {"packets"} : Out(f, q)[field] = f[field]
<1>1. f.packets \in Seq(SentSet)
  BY DEF ConvSet
<1>2. Append(f.packets, q) \in Seq(SentSet)
  <2> HIDE DEF SentSet
  <2> QED
    BY <1>1
<1> QED
  BY <1>2 DEF Out, ConvSet

\* A PMT that does not fit changes what is known of the PCR, and nothing else.
LEMMA UnfitPmt ==
  ASSUME NEW f \in ConvSet, NEW s \in SectionSet, ~s.fits
  PROVE  /\ AddPmt(f, s) \in ConvSet
         /\ AddPmt(f, s) = [f EXCEPT !.pcrPid = s.pcrPid, !.pcr = IF s.pcrPid = NullPid THEN NoTime ELSE @]
         /\ \A field \in DOMAIN f \ {"pcrPid", "pcr"} : AddPmt(f, s)[field] = f[field]
<1>1. AddPmt(f, s) = [f EXCEPT !.pcrPid = s.pcrPid, !.pcr = IF s.pcrPid = NullPid THEN NoTime ELSE @]
  BY DEF AddPmt
<1>2. s.pcrPid \in Nat \ TextPids
  BY SectionIs
<1>3. AddPmt(f, s) \in ConvSet
  BY <1>1, <1>2 DEF ConvSet
<1> QED
  BY <1>1, <1>3 DEF ConvSet

\* A PMT that fits is sent; what is held of a role that moves is dropped.
LEMMA FitPmt ==
  ASSUME NEW f \in ConvSet, f.firstPid # 0, NEW s \in SectionSet, s.fits
  PROVE  LET g == AddPmt(f, s)
         IN  /\ g \in ConvSet /\ PmtOut(f, s) \in PmtSet
             /\ g.opt = f.opt /\ g.pat = f.pat /\ g.firstPid = f.firstPid /\ g.section = f.section
             /\ g.last = f.last /\ g.pcrPid = s.pcrPid
             /\ g.remove = Gone(f, s) /\ g.pid = PidsOf(f, s) /\ g.id3Pid = Id3Of(f, s)
             /\ g.pes = HeldUnlessMoved(f, PidsOf(f, s))
             /\ g.packets = Append(f.packets, PmtOut(f, s))
<1> DEFINE counted == (f.pmtCounter + s.parts) % CounterMod
           pcr == IF s.pcrPid = NullPid THEN NoTime ELSE f.pcr
           h == [f EXCEPT !.pcrPid = s.pcrPid, !.pcr = pcr, !.remove = Gone(f, s),
                          !.pid = PidsOf(f, s), !.pes = HeldUnlessMoved(f, PidsOf(f, s)),
                          !.id3Pid = Id3Of(f, s), !.pmtCounter = counted]
<1>1. AddPmt(f, s) = Out(h, PmtOut(f, s))
  BY Zenon DEF AddPmt, PmtOut, TableOf, Gone, Stay, PidsOf, Id3Of
<1>2. s.pcrPid \in Nat \ TextPids /\ s.parts \in Nat
  BY SectionIs
<1>3. pcr \in Times \cup {NoTime}
  BY DEF ConvSet
<1>4. counted \in Int
  BY <1>2, Constants DEF ConvSet
<1>5. /\ Gone(f, s) \in SUBSET Pids /\ Stay(f, s) \in SUBSET Pids
      /\ PidsOf(f, s) \in [Roles -> Pids \cup {0}] /\ Id3Of(f, s) \in Pids \cup {0}
  BY PidsAre
<1>6. HeldUnlessMoved(f, PidsOf(f, s)) \in [Roles -> HeldSet]
  <2>1. f.pes \in [Roles -> HeldSet]
    BY DEF ConvSet
  <2>2. << >> \in Seq(PacketSet)
    OBVIOUS
  <2>3. \A held \in HeldSet : [held EXCEPT !.unit = << >>] \in HeldSet
    BY <2>2 DEF HeldSet
  <2> QED
    BY <2>1, <2>3 DEF HeldUnlessMoved
<1> HIDE DEF counted, pcr
<1>7. /\ h \in ConvSet
      /\ h.opt = f.opt /\ h.pat = f.pat /\ h.firstPid = f.firstPid /\ h.section = f.section
      /\ h.last = f.last /\ h.pcrPid = s.pcrPid
      /\ h.remove = Gone(f, s) /\ h.pid = PidsOf(f, s) /\ h.id3Pid = Id3Of(f, s)
      /\ h.pes = HeldUnlessMoved(f, PidsOf(f, s)) /\ h.packets = f.packets
  BY ZenonT(30), <1>2, <1>3, <1>4, <1>5, <1>6 DEF ConvSet
<1>8. PmtOut(f, s) \in PmtSet
  <2>1. TableOf(f, s) \in TableSet
    BY <1>5 DEF TableOf, TableSet
  <2>2. f.firstPid \in DOMAIN Sections
    BY DEF ConvSet
  <2> QED
    BY <2>1, <2>2 DEF PmtOut, PmtSet
<1>9. PmtOut(f, s) \in SentSet
  BY <1>8 DEF SentSet
<1> HIDE DEF h
<1>10. /\ Out(h, PmtOut(f, s)) \in ConvSet
       /\ Out(h, PmtOut(f, s)) = [h EXCEPT !.packets = Append(h.packets, PmtOut(f, s))]
       /\ Out(h, PmtOut(f, s)).packets = Append(h.packets, PmtOut(f, s))
       /\ \A field \in DOMAIN h \ {"packets"} : Out(h, PmtOut(f, s))[field] = h[field]
  BY <1>7, <1>9, OutIs
<1> DEFINE g == Out(h, PmtOut(f, s))
<1>11. /\ g.opt = h.opt /\ g.pat = h.pat /\ g.firstPid = h.firstPid /\ g.section = h.section
       /\ g.last = h.last /\ g.pcrPid = h.pcrPid /\ g.remove = h.remove /\ g.pid = h.pid
       /\ g.id3Pid = h.id3Pid /\ g.pes = h.pes
  <2> HIDE DEF g
  <2>1. \A field \in DOMAIN h \ {"packets"} : g[field] = h[field]
    BY <1>10 DEF g
  <2>2. {"opt", "pat", "firstPid", "section", "last", "pcrPid", "remove", "pid", "id3Pid", "pes"}
          \subseteq DOMAIN h \ {"packets"}
    BY <1>7 DEF ConvSet
  <2> QED
    BY <2>1, <2>2
<1> HIDE DEF g
<1>12. g \in ConvSet /\ g.packets = Append(f.packets, PmtOut(f, s))
  BY <1>7, <1>10 DEF g
<1>13. AddPmt(f, s) = g
  BY <1>1 DEF g
<1> QED
  BY <1>7, <1>8, <1>11, <1>12, <1>13

-----------------------------------------------------------------------------
(* The invariant on tables.                                                *)

\* The packets of a kind that were sent last
LastOfKind(packets, kind, none) ==
  LET of == {i \in DOMAIN packets : packets[i].kind = kind}
  IN  IF of = {} THEN none ELSE packets[Max(of)]

\* The history once these packets are sent
PmtAfter(packets, m) ==
  LET last == LastOfKind(packets, "pmt", [table |-> m]).table
  IN  [id3 |-> last.id3, streams |-> last.streams, source |-> last.source]

\* What is held of the PMT came on its PID.
SectionHeld(f) == f.section # NoSection => f.firstPid # 0 /\ f.section \in Sections[f.firstPid]

\* PMT that were sent go out on the PID that their section came on.
Sourced(packets) ==
  \A i \in DOMAIN packets : packets[i].kind = "pmt" => packets[i].table.section \in Sections[packets[i].pid]

\* The PIDs known agree with each other, and with the PMT last sent.
Agreed(f, m) ==
  /\ \A r \in Roles : f.pid[r] \in f.remove \cup {0}
  /\ f.pid["caption"] = f.pid["superimpose"] => f.pid["caption"] = 0
  /\ f.remove # {} => f.id3Pid # 0
  /\ m.id3 = f.id3Pid /\ m.id3 \notin m.streams /\ m.streams \subseteq Pids
  /\ m.source = f.remove \cup m.streams

\* What was held of a PES is still held for the same PID, or dropped.
HeldStill(f, g) ==
  \A r \in Roles : g.pes[r].unit = << >> \/ (g.pes[r] = f.pes[r] /\ g.pid[r] = f.pid[r])

\* No PES held is all there.
Partial(f) == \A r \in Roles : ~Complete(f.pes[r].unit)

LEMMA LastAppended ==
  ASSUME NEW packets \in Seq(SentSet), NEW q \in SentSet, NEW none
  PROVE  /\ LastOfKind(Append(packets, q), q.kind, none) = q
         /\ ToSet(Append(packets, q)) = ToSet(packets) \cup {q}
<1> DEFINE more == Append(packets, q)
           n == Len(packets) + 1
           of == {i \in DOMAIN more : more[i].kind = q.kind}
<1>1. n \in Nat /\ DOMAIN more = 1 .. n /\ more[n] = q /\ n \in 1 .. n
  OBVIOUS
<1>2. \A i \in 1 .. n : i # n => i \in DOMAIN packets /\ more[i] = packets[i]
  OBVIOUS
<1>3. \A i \in DOMAIN packets : i \in 1 .. n /\ more[i] = packets[i]
  OBVIOUS
<1> HIDE DEF more, n
<1>4. of \in SUBSET (1 .. n) /\ n \in of /\ \A i \in of : i <= n
  BY <1>1
<1>5. Max(of) = n
  <2>1. Max(of) \in of /\ \A i \in of : i <= Max(of)
    <3> HIDE DEF of
    <3> QED
      BY <1>1, <1>4, HighestIndex
  <2> DEFINE m == Max(of)
  <2>2. m \in 1 .. n /\ m <= n /\ n <= m
    BY <1>4, <2>1
  <2> HIDE DEF m
  <2>3. m = n
    BY <1>1, <2>2
  <2> QED
    BY <2>3 DEF m
<1>6. LastOfKind(more, q.kind, none) = q
  BY <1>1, <1>4, <1>5 DEF LastOfKind
<1>7. ToSet(more) = ToSet(packets) \cup {q}
  BY <1>1, <1>2, <1>3 DEF ToSet
<1> QED
  BY <1>6, <1>7 DEF more

LEMMA NoneOfKind ==
  ASSUME NEW packets, NEW kind, NEW none, \A i \in DOMAIN packets : packets[i].kind # kind
  PROVE  LastOfKind(packets, kind, none) = none
BY DEF LastOfKind

\* What a PMT with this section does to the tables, be it sent or not.
LEMMA PmtAgrees ==
  ASSUME NEW f \in ConvSet, f.firstPid # 0, NEW s \in Sections[f.firstPid],
         NEW m, Agreed(f, PmtAfter(f.packets, m)), Sourced(f.packets), Partial(f)
  PROVE  LET g == AddPmt(f, s)
         IN  /\ g \in ConvSet /\ g.opt = f.opt /\ g.firstPid = f.firstPid /\ g.section = f.section
             /\ g.last = f.last
             /\ Agreed(g, PmtAfter(g.packets, m)) /\ Sourced(g.packets) /\ Partial(g)
             /\ HeldStill(f, g)
             /\ (\A i \in DOMAIN f.packets : f.packets[i].kind = "pmt")
                  => \A i \in DOMAIN g.packets : g.packets[i].kind = "pmt"
<1> DEFINE g == AddPmt(f, s)
<1>1. s \in SectionSet /\ f.firstPid \in DOMAIN Sections
  BY DEF SectionSet, ConvSet
<1>2. CASE ~s.fits
  <2>1. g \in ConvSet /\ \A field \in DOMAIN f \ {"pcrPid", "pcr"} : g[field] = f[field]
    BY <1>1, <1>2, UnfitPmt
  <2>2. /\ g.opt = f.opt /\ g.firstPid = f.firstPid /\ g.section = f.section /\ g.last = f.last
        /\ g.remove = f.remove /\ g.pid = f.pid /\ g.id3Pid = f.id3Pid /\ g.pes = f.pes
        /\ g.packets = f.packets
    BY <2>1 DEF ConvSet
  <2> HIDE DEF g
  <2>3. Agreed(g, PmtAfter(g.packets, m)) /\ Sourced(g.packets) /\ Partial(g) /\ HeldStill(f, g)
    BY <2>2 DEF Agreed, Partial, HeldStill
  <2> QED
    BY <2>1, <2>2, <2>3 DEF g
<1>3. CASE s.fits
  <2> DEFINE q == PmtOut(f, s)
  <2>1. /\ g \in ConvSet /\ q \in PmtSet
        /\ g.opt = f.opt /\ g.firstPid = f.firstPid /\ g.section = f.section /\ g.last = f.last
        /\ g.remove = Gone(f, s) /\ g.pid = PidsOf(f, s) /\ g.id3Pid = Id3Of(f, s)
        /\ g.pes = HeldUnlessMoved(f, PidsOf(f, s))
        /\ g.packets = Append(f.packets, q)
    BY <1>1, <1>3, FitPmt
  <2>2. f.packets \in Seq(SentSet) /\ q \in SentSet /\ q.kind = "pmt" /\ q.pid = f.firstPid
    BY <2>1 DEF ConvSet, SentSet, PmtOut
  <2>3. q.table = TableOf(f, s) /\ TableOf(f, s).section = s
    BY DEF PmtOut, TableOf
  <2> HIDE DEF g, q
  <2>4. /\ LastOfKind(g.packets, "pmt", [table |-> m]) = q
        /\ ToSet(g.packets) = ToSet(f.packets) \cup {q}
    <3> DEFINE none == [table |-> m]
    <3> HIDE DEF none
    <3>1. /\ LastOfKind(Append(f.packets, q), q.kind, none) = q
          /\ ToSet(Append(f.packets, q)) = ToSet(f.packets) \cup {q}
      BY <2>2, LastAppended
    <3> QED
      BY <2>1, <2>2, <3>1 DEF none
  <2>5. Sourced(g.packets)
    <3>1. q.table.section \in Sections[q.pid]
      BY <2>2, <2>3
    <3>2. \A i \in DOMAIN f.packets : f.packets[i].kind = "pmt"
            => f.packets[i].table.section \in Sections[f.packets[i].pid]
      BY DEF Sourced
    <3>3. \A p \in ToSet(f.packets) : p.kind = "pmt" => p.table.section \in Sections[p.pid]
      BY <3>2 DEF ToSet
    <3>4. \A i \in DOMAIN g.packets : g.packets[i] \in ToSet(f.packets) \cup {q}
      BY <2>4 DEF ToSet
    <3> QED
      BY <3>1, <3>3, <3>4 DEF Sourced
  <2>6. PmtAfter(g.packets, m) = [id3 |-> Id3Of(f, s), streams |-> Stay(f, s),
                                  source |-> Gone(f, s) \cup Stay(f, s)]
    BY <2>3, <2>4 DEF PmtAfter, TableOf
  <2>7. Agreed(g, PmtAfter(g.packets, m))
    <3>1. /\ Stay(f, s) \subseteq Pids
          /\ PidsOf(f, s) \in [Roles -> Gone(f, s) \cup {0}]
          /\ PidsOf(f, s)["caption"] = PidsOf(f, s)["superimpose"] => PidsOf(f, s)["caption"] = 0
          /\ Id3Of(f, s) \notin Stay(f, s)
          /\ Gone(f, s) # {} => Id3Of(f, s) # 0
      BY <1>1, PidsAre
    <3> QED
      BY <2>1, <2>6, <3>1 DEF Agreed
  <2>8. Partial(g)
    <3>1. \A r \in Roles : g.pes[r].unit \in {f.pes[r].unit, << >>}
      BY <2>1 DEF HeldUnlessMoved, ConvSet, HeldSet
    <3>2. ~Complete(<< >>)
      BY DEF Complete
    <3> QED
      BY <3>1, <3>2 DEF Partial
  <2>9. (\A i \in DOMAIN f.packets : f.packets[i].kind = "pmt")
          => \A i \in DOMAIN g.packets : g.packets[i].kind = "pmt"
    BY ZenonT(30), <2>2, <2>4 DEF ToSet
  <2>10. HeldStill(f, g)
    <3>1. \A r \in Roles : g.pes[r] = IF g.pid[r] = f.pid[r] THEN f.pes[r]
                                     ELSE [f.pes[r] EXCEPT !.unit = << >>]
      BY <2>1 DEF HeldUnlessMoved
    <3>2. \A r \in Roles : [f.pes[r] EXCEPT !.unit = << >>].unit = << >>
      BY DEF ConvSet, HeldSet
    <3>3. ASSUME NEW r \in Roles
          PROVE  g.pes[r].unit = << >> \/ (g.pes[r] = f.pes[r] /\ g.pid[r] = f.pid[r])
      <4> DEFINE dropped == [f.pes[r] EXCEPT !.unit = << >>]
      <4>1. g.pes[r] = (IF g.pid[r] = f.pid[r] THEN f.pes[r] ELSE dropped) /\ dropped.unit = << >>
        BY <3>1, <3>2
      <4> HIDE DEF dropped
      <4> QED
        BY <4>1
    <3> QED
      BY <3>3 DEF HeldStill
  <2> QED
    BY <2>1, <2>5, <2>7, <2>8, <2>9, <2>10 DEF g
<1> QED
  BY <1>1, <1>2, <1>3, SectionIs

OnlyPmt(packets) == \A i \in DOMAIN packets : packets[i].kind = "pmt"

\* A call of extract_psi, and what is done with the section held after it
LEMMA Extracting ==
  ASSUME NEW f \in ConvSet, f.firstPid # 0, NEW section \in Sections[f.firstPid] \cup {NoSection},
         NEW m, Agreed(f, PmtAfter(f.packets, m)), Sourced(f.packets), Partial(f), OnlyPmt(f.packets)
  PROVE  LET g == Extracted(f, section)
         IN  /\ g \in ConvSet /\ g.opt = f.opt /\ g.firstPid = f.firstPid /\ g.last = f.last
             /\ SectionHeld(g) /\ Agreed(g, PmtAfter(g.packets, m))
             /\ Sourced(g.packets) /\ Partial(g) /\ OnlyPmt(g.packets) /\ HeldStill(f, g)
<1> DEFINE h == [f EXCEPT !.section = section]
<1>1. f.firstPid \in DOMAIN Sections
  BY DEF ConvSet
<1>2. section \in SectionSet \cup {NoSection}
  BY <1>1 DEF SectionSet
<1>3. /\ h \in ConvSet /\ h.opt = f.opt /\ h.firstPid = f.firstPid /\ h.last = f.last
      /\ h.section = section /\ h.packets = f.packets /\ h.remove = f.remove
      /\ h.pid = f.pid /\ h.id3Pid = f.id3Pid /\ h.pes = f.pes
  BY <1>2 DEF ConvSet
<1>4. Extracted(f, section) = IF section = NoSection THEN h ELSE AddPmt(h, section)
  BY DEF Extracted
<1> HIDE DEF h
<1>5. Agreed(h, PmtAfter(h.packets, m)) /\ Sourced(h.packets) /\ Partial(h) /\ OnlyPmt(h.packets)
  BY <1>3 DEF Agreed, Partial
<1>6. CASE section = NoSection
  <2>1. SectionHeld(h) /\ HeldStill(f, h)
    BY <1>3, <1>6 DEF SectionHeld, HeldStill
  <2> QED
    BY <1>3, <1>4, <1>5, <1>6, <2>1
<1>7. CASE section # NoSection
  <2>1. section \in Sections[h.firstPid] /\ h.firstPid # 0
    BY <1>3, <1>7
  <2> DEFINE g == AddPmt(h, section)
  <2>2. /\ g \in ConvSet /\ g.opt = h.opt /\ g.firstPid = h.firstPid /\ g.section = h.section
        /\ g.last = h.last
        /\ Agreed(g, PmtAfter(g.packets, m)) /\ Sourced(g.packets) /\ Partial(g)
        /\ OnlyPmt(g.packets) /\ HeldStill(h, g)
    BY <1>3, <1>5, <2>1, PmtAgrees DEF OnlyPmt
  <2> HIDE DEF g
  <2>3. SectionHeld(g)
    BY <1>3, <2>1, <2>2 DEF SectionHeld
  <2>4. HeldStill(f, g)
    BY <1>3, <2>2 DEF HeldStill
  <2> QED
    BY <1>3, <1>4, <1>7, <2>2, <2>3, <2>4 DEF g
<1> QED
  BY <1>6, <1>7

-----------------------------------------------------------------------------
(* The packets of streams.                                                 *)

\* What CheckPrivateDataPes makes of a PES, with this PTS
SentText(f, unit, pts) ==
  LET m == IF f.opt.monotonous THEN Monotonous(f, pts) ELSE [pts |-> pts, last |-> f.last]
  IN  Out([f EXCEPT !.last = m.last, !.id3Counter = (@ + Len(unit)) % CounterMod],
          [pid |-> f.id3Pid, kind |-> "id3", pts |-> m.pts, unit |-> unit])

LEMMA ConvertedIs ==
  ASSUME NEW f \in ConvSet, NEW unit \in Seq(PacketSet), unit # << >>, NEW g \in Converted(f, unit)
  PROVE  g = f \/ \E pts \in Times : g = SentText(f, unit, pts)
<1>1. unit[1] \in PacketSet
  BY ElementIs
<1>2. unit[1].kind \in {"own", "pcr", "other"} /\ f.pcr \in Times \cup {NoTime}
  BY <1>1 DEF PacketSet, ConvSet
<1>3. Converted(f, unit) =
        CASE unit[1].kind = "own"   -> {SentText(f, unit, pts) : pts \in Times}
          [] unit[1].kind = "pcr"   -> IF f.pcr # NoTime THEN {SentText(f, unit, f.pcr)} ELSE {f}
          [] unit[1].kind = "other" -> {f}
  BY DEF Converted, SentText
<1> QED
  BY <1>2, <1>3

\* Metadata are sent for this PES, after the PTS last.
Sends(packets, id3Pid, unit, monotonous, last, newLast) ==
  \E sent \in Times :
    /\ packets = <<[pid |-> id3Pid, kind |-> "id3", pts |-> sent, unit |-> unit]>>
    /\ newLast = IF monotonous THEN sent ELSE last
    /\ monotonous /\ last # NoTime => Past(last, sent) = 0 \/ Past(last, sent) >= Accept

\* The members of the filter that only tables change
SameTables(f, g) ==
  /\ g.opt = f.opt /\ g.pat = f.pat /\ g.firstPid = f.firstPid /\ g.section = f.section
  /\ g.remove = f.remove /\ g.pid = f.pid /\ g.pcrPid = f.pcrPid /\ g.id3Pid = f.id3Pid

\* The PTS sent does not go back behind that sent last, and is remembered.
LEMMA SentTextIs ==
  ASSUME NEW f \in ConvSet, NEW unit \in Seq(PacketSet), NEW pts \in Times, f.packets = << >>
  PROVE  /\ SentText(f, unit, pts) \in ConvSet
         /\ SameTables(f, SentText(f, unit, pts)) /\ SentText(f, unit, pts).pes = f.pes
         /\ Sends(SentText(f, unit, pts).packets, f.id3Pid, unit, f.opt.monotonous,
                  f.last, SentText(f, unit, pts).last)
<1> DEFINE m == IF f.opt.monotonous THEN Monotonous(f, pts) ELSE [pts |-> pts, last |-> f.last]
           counted == (f.id3Counter + Len(unit)) % CounterMod
           q == [pid |-> f.id3Pid, kind |-> "id3", pts |-> m.pts, unit |-> unit]
           h == [f EXCEPT !.last = m.last, !.id3Counter = counted]
<1>1. /\ f.last \in Times \cup {NoTime} /\ f.opt.monotonous \in BOOLEAN
      /\ f.id3Counter \in Int /\ f.id3Pid \in Pids \cup {0}
  BY ConverterAssumption DEF ConvSet
<1>2. /\ m.pts \in Times /\ m.last = IF f.opt.monotonous THEN m.pts ELSE f.last
      /\ f.opt.monotonous /\ f.last # NoTime
           => Past(f.last, m.pts) = 0 \/ Past(f.last, m.pts) >= Accept
  <2>1. CASE f.opt.monotonous /\ f.last # NoTime /\ Past(f.last, pts) < Accept
    <3>1. f.last \in Times
      BY <1>1, <2>1
    <3>2. Past(f.last, f.last) = 0
      <4>1. f.last \in Int /\ PtsMod \in Nat \ {0}
        BY <3>1, Constants DEF Times
      <4>2. PtsMod + f.last - f.last = PtsMod /\ PtsMod % PtsMod = 0
        BY <4>1
      <4> QED
        BY <4>2 DEF Past
    <3>3. m = [pts |-> f.last, last |-> f.last]
      BY <2>1 DEF Monotonous
    <3> QED
      BY <2>1, <3>1, <3>2, <3>3
  <2>2. CASE f.opt.monotonous /\ ~(f.last # NoTime /\ Past(f.last, pts) < Accept)
    <3>1. m = [pts |-> pts, last |-> pts]
      BY <2>2 DEF Monotonous
    <3>2. f.last # NoTime => Past(f.last, pts) \in Int
      <4>1. f.last # NoTime => f.last \in Int
        BY <1>1, Constants DEF Times
      <4>2. pts \in Int /\ PtsMod \in Nat \ {0}
        BY Constants DEF Times
      <4> QED
        BY <4>1, <4>2 DEF Past
    <3> QED
      BY <2>2, <3>1, <3>2, Constants
  <2>3. CASE ~f.opt.monotonous
    BY <2>3
  <2> QED
    BY <2>1, <2>2, <2>3
<1>3. counted \in Int
  BY <1>1, Constants
<1>4. m.last \in Times \cup {NoTime}
  BY <1>1, <1>2
<1> HIDE DEF counted, m
<1>5. h \in ConvSet /\ \A field \in DOMAIN f \ {"last", "id3Counter"} : h[field] = f[field]
  BY <1>3, <1>4 DEF ConvSet
<1>6. DOMAIN h = DOMAIN f /\ h.last = m.last /\ h.packets = << >> /\ "packets" \in DOMAIN f
      /\ "last" \in DOMAIN f
  BY DEF ConvSet
<1>7. q \in SentSet
  BY <1>1, <1>2 DEF SentSet, Id3Set
<1> HIDE DEF h
<1>8. Out(h, q) \in ConvSet /\ Out(h, q).packets = Append(h.packets, q)
      /\ \A field \in DOMAIN h \ {"packets"} : Out(h, q)[field] = h[field]
  BY <1>5, <1>7, OutIs
<1>9. SentText(f, unit, pts) = Out(h, q)
  BY DEF SentText, h, q, m, counted
<1>10. Out(h, q).packets = <<q>>
  BY <1>6, <1>8
<1>11. Out(h, q).last = m.last
  BY <1>6, <1>8
<1>12. \A field \in DOMAIN f \ {"last", "id3Counter", "packets"} : Out(h, q)[field] = f[field]
  BY <1>5, <1>6, <1>8
<1> DEFINE g == SentText(f, unit, pts)
<1>13. {"opt", "pat", "firstPid", "section", "remove", "pid", "pcrPid", "id3Pid", "pes"}
          \subseteq DOMAIN f \ {"last", "id3Counter", "packets"}
  BY DEF ConvSet
<1>14. SameTables(f, g) /\ g.pes = f.pes
  <2> HIDE DEF g
  <2>1. \A field \in DOMAIN f \ {"last", "id3Counter", "packets"} : g[field] = f[field]
    BY <1>9, <1>12 DEF g
  <2> QED
    BY <1>13, <2>1 DEF SameTables
<1>15. g.packets = <<q>> /\ g.last = m.last /\ g \in ConvSet
  BY <1>8, <1>9, <1>10, <1>11
<1> HIDE DEF g
<1>16. Sends(g.packets, f.id3Pid, unit, f.opt.monotonous, f.last, g.last)
  BY <1>2, <1>15 DEF Sends
<1> QED
  BY <1>14, <1>15, <1>16 DEF g

LEMMA CollectedIs ==
  ASSUME NEW held \in HeldSet, NEW p \in PacketSet
  PROVE  Collected(held, p) \in HeldSet
<1>1. held.counter \in Counters /\ held.unit \in Seq(PacketSet) /\ p.counter \in Counters
  BY DEF HeldSet, PacketSet
<1>2. <<p>> \in Seq(PacketSet) /\ << >> \in Seq(PacketSet) /\ Append(held.unit, p) \in Seq(PacketSet)
  <2> HIDE DEF PacketSet
  <2> QED
    BY <1>1
<1>3. Successor(held.counter) \in Counters
  BY <1>1, Constants DEF Successor, Counters
<1>4. Continued(held, p) \in HeldSet
  BY <1>2, <1>3 DEF Continued, HeldSet
<1>5. [counter |-> p.counter, unit |-> <<p>>] \in HeldSet
  BY <1>1, <1>2 DEF HeldSet
<1> QED
  BY <1>4, <1>5 DEF Collected

\* What is held once a PES that is all there has been converted
Kept(held) == IF Complete(held.unit) THEN [held EXCEPT !.unit = << >>] ELSE held

LEMMA KeptIs ==
  ASSUME NEW held \in HeldSet
  PROVE  Kept(held) \in HeldSet /\ ~Complete(Kept(held).unit)
<1>1. [held EXCEPT !.unit = << >>] \in HeldSet /\ [held EXCEPT !.unit = << >>].unit = << >>
  <2>1. << >> \in Seq(PacketSet)
    OBVIOUS
  <2> QED
    BY <2>1 DEF HeldSet
<1>2. ~Complete(<< >>)
  BY DEF Complete
<1> QED
  BY <1>1, <1>2 DEF Kept

LEMMA TextStep ==
  ASSUME NEW f \in ConvSet, f.packets = << >>, NEW r \in Roles, NEW p \in PacketSet,
         NEW g \in AddText(f, r, p)
  PROVE  LET held == Collected(f.pes[r], p)
         IN  /\ g \in ConvSet /\ SameTables(f, g)
             /\ g.pes = [f.pes EXCEPT ![r] = Kept(held)]
             /\ \/ g.packets = << >> /\ g.last = f.last
                \/ Complete(held.unit) /\ Sends(g.packets, f.id3Pid, held.unit, f.opt.monotonous, f.last, g.last)
<1> DEFINE held == Collected(f.pes[r], p)
           h == [f EXCEPT !.pes[r] = Kept(held)]
<1>1. f.pes \in [Roles -> HeldSet] /\ f.pes[r] \in HeldSet
  BY DEF ConvSet
<1>2. held \in HeldSet
  BY <1>1, CollectedIs
<1>3. held.unit \in Seq(PacketSet)
  BY <1>2 DEF HeldSet
<1> HIDE DEF held
<1>4. Kept(held) \in HeldSet
  BY <1>2, KeptIs
<1>5. /\ h \in ConvSet /\ SameTables(f, h) /\ h.last = f.last /\ h.packets = << >>
      /\ h.pes = [f.pes EXCEPT ![r] = Kept(held)]
  <2>1. [f.pes EXCEPT ![r] = Kept(held)] \in [Roles -> HeldSet]
    BY <1>1, <1>4
  <2>2. h = [f EXCEPT !.pes = [f.pes EXCEPT ![r] = Kept(held)]]
    BY DEF ConvSet
  <2> QED
    BY <2>1, <2>2 DEF ConvSet, SameTables
<1>6. AddText(f, r, p) = IF Complete(held.unit) THEN Converted(h, held.unit) ELSE {h}
  BY DEF AddText, held, Kept
<1> HIDE DEF h
<1>7. CASE g = h
  BY <1>5, <1>7 DEF held
<1>8. CASE Complete(held.unit) /\ g # h
  <2>1. g \in Converted(h, held.unit) /\ held.unit # << >>
    BY <1>6, <1>8 DEF Complete
  <2>2. PICK pts \in Times : g = SentText(h, held.unit, pts)
    BY <1>3, <1>5, <1>8, <2>1, ConvertedIs
  <2>3. /\ g \in ConvSet /\ SameTables(h, g) /\ g.pes = h.pes
        /\ Sends(g.packets, h.id3Pid, held.unit, h.opt.monotonous, h.last, g.last)
    BY <1>3, <1>5, <2>2, SentTextIs
  <2>6. SameTables(f, g) /\ h.id3Pid = f.id3Pid /\ h.opt = f.opt
    BY <1>5, <2>3 DEF SameTables
  <2> QED
    BY <1>5, <1>8, <2>3, <2>6 DEF held
<1> QED
  BY <1>6, <1>7, <1>8

\* A packet of a stream passes, is collected for its role, or is dropped.
LEMMA StreamStep ==
  ASSUME conv \in ConvSet, \A r \in Roles : conv.pid[r] \in conv.remove \cup {0},
         NEW p \in PacketSet, StreamPacket(p)
  PROVE  /\ conv' \in ConvSet /\ SameTables(conv, conv')
         /\ \/ /\ conv'.packets = <<[pid |-> p.pid, kind |-> "packet"]>>
               /\ p.pid = conv.pcrPid \/ p.pid \notin conv.remove
               /\ conv'.pes = conv.pes /\ conv'.last = conv.last
            \/ /\ p.pid \in conv.remove /\ \A r \in Roles : conv.pid[r] # p.pid
               /\ conv'.packets = << >> /\ conv'.pes = conv.pes /\ conv'.last = conv.last
            \/ \E r \in Roles :
                 LET held == Collected(conv.pes[r], p)
                 IN  /\ p.pid \in conv.remove /\ conv.pid[r] = p.pid
                     /\ conv'.pes = [conv.pes EXCEPT ![r] = Kept(held)]
                     /\ \/ conv'.packets = << >> /\ conv'.last = conv.last
                        \/ /\ Complete(held.unit)
                           /\ Sends(conv'.packets, conv.id3Pid, held.unit, conv.opt.monotonous,
                                    conv.last, conv'.last)
<1> DEFINE f == [conv EXCEPT !.packets = << >>]
           pass == [pid |-> p.pid, kind |-> "packet"]
<1>1. /\ f \in ConvSet /\ SameTables(conv, f) /\ f.pes = conv.pes /\ f.last = conv.last
      /\ f.pcr = conv.pcr /\ f.packets = << >>
  <2>1. << >> \in Seq(SentSet)
    OBVIOUS
  <2> QED
    BY <2>1 DEF ConvSet, SameTables
<1>2. p.pid \in Pids /\ p.pid \in Nat
  BY Constants DEF PacketSet
<1>3. pass \in SentSet
  BY <1>2 DEF SentSet, PassedSet
<1> HIDE DEF pass
<1>4. conv' \in IF p.pid = f.pcrPid THEN {Out([f EXCEPT !.pcr = t], pass) : t \in Times \cup {f.pcr}}
                ELSE IF p.pid \notin f.remove THEN {Out(f, pass)}
                ELSE IF p.pid = f.pid["caption"] THEN AddText(f, "caption", p)
                ELSE IF p.pid = f.pid["superimpose"] THEN AddText(f, "superimpose", p)
                ELSE {f}
  BY DEF StreamPacket, pass
<1> HIDE DEF f
<1>5. ASSUME NEW h \in ConvSet, SameTables(f, h), h.pes = f.pes, h.last = f.last, h.packets = << >>,
             conv' = Out(h, pass)
      PROVE  /\ conv' \in ConvSet /\ SameTables(conv, conv') /\ conv'.packets = <<pass>>
             /\ conv'.pes = conv.pes /\ conv'.last = conv.last
  <2>1. /\ Out(h, pass) \in ConvSet /\ Out(h, pass).packets = Append(h.packets, pass)
        /\ \A field \in DOMAIN h \ {"packets"} : Out(h, pass)[field] = h[field]
    BY <1>3, <1>5, OutIs
  <2>2. {"opt", "pat", "firstPid", "section", "remove", "pid", "pcrPid", "id3Pid", "pes", "last"}
          \subseteq DOMAIN h \ {"packets"}
    BY DEF ConvSet
  <2>3. SameTables(h, conv') /\ conv'.pes = h.pes /\ conv'.last = h.last
    BY <1>5, <2>1, <2>2 DEF SameTables
  <2>4. conv'.packets = <<pass>>
    BY <1>5, <2>1
  <2> QED
    BY <1>1, <1>5, <2>1, <2>3, <2>4 DEF SameTables
<1>6. CASE p.pid = f.pcrPid
  <2>1. PICK t \in Times \cup {f.pcr} : conv' = Out([f EXCEPT !.pcr = t], pass)
    BY <1>4, <1>6
  <2> DEFINE h == [f EXCEPT !.pcr = t]
  <2>2. /\ h \in ConvSet /\ SameTables(f, h) /\ h.pes = f.pes /\ h.last = f.last
        /\ h.packets = << >>
    BY <1>1 DEF ConvSet, SameTables
  <2>3. conv' = Out(h, pass)
    BY <2>1
  <2> HIDE DEF h
  <2> QED
    BY <1>1, <1>5, <1>6, <2>2, <2>3 DEF SameTables, pass
<1>7. CASE p.pid # f.pcrPid /\ p.pid \notin f.remove
  <2>1. conv' = Out(f, pass) /\ SameTables(f, f)
    BY <1>4, <1>7 DEF SameTables
  <2> QED
    BY <1>1, <1>5, <1>7, <2>1 DEF SameTables, pass
<1>8. ASSUME NEW r \in Roles, p.pid \in f.remove, p.pid = f.pid[r], conv' \in AddText(f, r, p)
      PROVE  LET held == Collected(conv.pes[r], p)
             IN  /\ conv' \in ConvSet /\ SameTables(conv, conv')
                 /\ p.pid \in conv.remove /\ conv.pid[r] = p.pid
                 /\ conv'.pes = [conv.pes EXCEPT ![r] = Kept(held)]
                 /\ \/ conv'.packets = << >> /\ conv'.last = conv.last
                    \/ /\ Complete(held.unit)
                       /\ Sends(conv'.packets, conv.id3Pid, held.unit, conv.opt.monotonous,
                                conv.last, conv'.last)
  <2> DEFINE held == Collected(f.pes[r], p)
  <2>1. /\ conv' \in ConvSet /\ SameTables(f, conv')
        /\ conv'.pes = [f.pes EXCEPT ![r] = Kept(held)]
        /\ \/ conv'.packets = << >> /\ conv'.last = f.last
           \/ Complete(held.unit) /\ Sends(conv'.packets, f.id3Pid, held.unit, f.opt.monotonous, f.last, conv'.last)
    BY <1>1, <1>8, TextStep
  <2>2. held = Collected(conv.pes[r], p)
    BY <1>1
  <2> HIDE DEF held
  <2>3. /\ f.id3Pid = conv.id3Pid /\ f.opt = conv.opt /\ f.last = conv.last /\ f.pes = conv.pes
        /\ f.pid = conv.pid /\ f.remove = conv.remove
    BY <1>1 DEF SameTables
  <2>4. SameTables(conv, conv')
    BY <1>1, <2>1 DEF SameTables
  <2> QED
    BY <1>8, <2>1, <2>2, <2>3, <2>4
<1>9. CASE p.pid # f.pcrPid /\ p.pid \in f.remove /\ p.pid = f.pid["caption"]
  <2>1. conv' \in AddText(f, "caption", p) /\ "caption" \in Roles
    BY <1>4, <1>9 DEF Roles
  <2> QED
    BY <1>8, <1>9, <2>1
<1>10. CASE p.pid # f.pcrPid /\ p.pid \in f.remove /\ p.pid # f.pid["caption"] /\ p.pid = f.pid["superimpose"]
  <2>1. conv' \in AddText(f, "superimpose", p) /\ "superimpose" \in Roles
    BY <1>4, <1>10 DEF Roles
  <2> QED
    BY <1>8, <1>10, <2>1
<1>11. CASE p.pid # f.pcrPid /\ p.pid \in f.remove /\ p.pid # f.pid["caption"] /\ p.pid # f.pid["superimpose"]
  <2>1. conv' = f
    BY <1>4, <1>11
  <2>2. \A r \in Roles : conv.pid[r] # p.pid
    BY <1>1, <1>11 DEF SameTables, Roles
  <2> QED
    BY <1>1, <1>11, <2>1, <2>2 DEF SameTables
<1> QED
  BY <1>6, <1>7, <1>9, <1>10, <1>11

-----------------------------------------------------------------------------
(* The sources.                                                            *)

\* The last packet of a source is a packet of one of its PES.
SourceOK ==
  /\ source \in [TextPids -> [last : PacketSet, lost : 0 .. MaxBurst]]
  /\ \A pid \in TextPids :
       LET p == source[pid].last
       IN  /\ p.pid = pid /\ p.payload /\ p.of = PesLength /\ p.index \in 1 .. PesLength
           /\ p.kind = "own" /\ (p.start => p.index = 1)

LEMMA FollowingIs ==
  ASSUME SourceOK, NEW pid \in TextPids
  PROVE  LET p == Following(pid)
             last == source[pid].last
         IN  /\ p \in PacketSet /\ p.pid = pid /\ p.payload /\ p.of = PesLength
             /\ p.index \in 1 .. PesLength /\ p.kind = "own"
             /\ p.counter = Successor(last.counter)
             /\ p.start = ~(last.index < PesLength)
             /\ p.start => p.index = 1
             /\ ~p.start => p.index = last.index + 1 /\ p.pes = last.pes
<1> DEFINE last == source[pid].last
           more == last.index < PesLength
           pes == IF more THEN last.pes ELSE (last.pes + 1) % PesMod
           index == IF more THEN last.index + 1 ELSE 1
           p == [last EXCEPT !.start = ~more, !.counter = Successor(last.counter), !.pes = pes, !.index = index]
<1>1. /\ last \in PacketSet /\ last.pid = pid /\ last.payload /\ last.of = PesLength
      /\ last.index \in 1 .. PesLength /\ last.kind = "own"
  BY DEF SourceOK
<1>2. Following(pid) = p
  BY <1>1 DEF Following, PacketSet
<1> HIDE DEF last
<1>3. more \in BOOLEAN /\ pes \in Nat /\ index \in 1 .. PesLength
  BY <1>1, Constants DEF PacketSet
<1>4. last.counter \in Counters
  BY <1>1 DEF PacketSet
<1>5. Successor(last.counter) \in Counters
  BY <1>4, Constants DEF Successor, Counters
<1>6. (~more => index = 1) /\ (more => index = last.index + 1 /\ pes = last.pes)
  OBVIOUS
<1> HIDE DEF pes, index, more
<1>7. index \in Nat
  BY <1>3, Constants
<1>8. p \in PacketSet /\ p.pid = pid /\ p.payload /\ p.of = PesLength /\ p.kind = "own"
  BY <1>1, <1>3, <1>5, <1>7 DEF PacketSet
<1>9. p.start = ~more /\ p.counter = Successor(last.counter) /\ p.pes = pes /\ p.index = index
  BY <1>1 DEF PacketSet
<1>10. p.start = ~(last.index < PesLength)
  BY <1>9 DEF more
<1> QED
  BY <1>2, <1>3, <1>6, <1>8, <1>9, <1>10 DEF last

LEMMA SingleIs ==
  ASSUME NEW pid \in Pids, NEW kind \in {"own", "pcr", "other"}
  PROVE  Single(pid, kind) \in PacketSet
BY Constants DEF Single, PacketSet, Counters

\* The packets that Again brings: the last one, and the same without its payload.
OnceMore(last) == {last, [last EXCEPT !.payload = FALSE, !.start = FALSE]}

LEMMA AgainIs ==
  ASSUME SourceOK, NEW pid \in TextPids,
         NEW p \in OnceMore(source[pid].last)
  PROVE  /\ p \in PacketSet /\ p.pid = pid
         /\ p.counter = source[pid].last.counter /\ p.index = source[pid].last.index
         /\ p.pes = source[pid].last.pes /\ p.of = source[pid].last.of
         /\ p.start => p = source[pid].last
         /\ p.payload => p = source[pid].last
<1> DEFINE last == source[pid].last
           empty == [last EXCEPT !.payload = FALSE, !.start = FALSE]
<1>1. last \in PacketSet /\ last.pid = pid
  BY DEF SourceOK
<1>2. p \in {last, empty}
  BY DEF OnceMore
<1> HIDE DEF last
<1>3. /\ empty \in PacketSet /\ ~empty.payload /\ ~empty.start
      /\ empty.pid = last.pid /\ empty.counter = last.counter /\ empty.index = last.index
      /\ empty.pes = last.pes /\ empty.of = last.of
  BY <1>1 DEF PacketSet
<1> HIDE DEF empty
<1> QED
  BY <1>1, <1>2, <1>3 DEF last

-----------------------------------------------------------------------------
(* The steps.                                                              *)

MSet == [id3 : Pids \cup {0}, streams : SUBSET Pids, source : SUBSET Pids]

\* Tables, PES held and history agree.
Consistent ==
  /\ conv \in ConvSet /\ SectionHeld(conv) /\ Agreed(conv, pmt) /\ Partial(conv)
  /\ pmt \in MSet
  /\ conv.opt.monotonous => shown = conv.last

LEMMA NotedIs ==
  ASSUME NEW received, NEW touched, Noted(received, touched)
  PROVE  /\ pmt' = PmtAfter(conv'.packets, pmt)
         /\ shown' = LastOfKind(conv'.packets, "id3", [pts |-> shown]).pts
BY Zenon DEF Noted, LastSent, PmtAfter, LastOfKind

LEMMA NoPmtSent ==
  ASSUME pmt \in MSet, NEW packets, \A i \in DOMAIN packets : packets[i].kind # "pmt"
  PROVE  PmtAfter(packets, pmt) = pmt
<1>1. LastOfKind(packets, "pmt", [table |-> pmt]) = [table |-> pmt]
  BY NoneOfKind
<1> QED
  BY <1>1 DEF PmtAfter, MSet

LEMMA NoTextSent ==
  ASSUME NEW packets, \A i \in DOMAIN packets : packets[i].kind # "id3"
  PROVE  LastOfKind(packets, "id3", [pts |-> shown]).pts = shown
<1>1. LastOfKind(packets, "id3", [pts |-> shown]) = [pts |-> shown]
  BY NoneOfKind
<1> QED
  BY <1>1

\* What a step may send: PMT on the PID of their section, metadata on the PID announced and
\* not before the PTS last, and nothing else on that PID.
SendsOwn ==
  \A q \in ToSet(conv'.packets) :
    /\ q.kind = "id3" => q.pid = pmt'.id3 /\ q.pid # 0 /\ pmt'.id3 \notin pmt'.streams
    /\ (q.kind = "packet" /\ q.pid \in pmt'.source /\ q.pid # conv'.pcrPid) => q.pid # pmt'.id3

SendsSourced ==
  \A q \in ToSet(conv'.packets) : q.kind = "pmt" => q.table.section \in Sections[q.pid]

SendsLater ==
  \A q \in ToSet(conv'.packets) :
    (q.kind = "id3" /\ conv.opt.monotonous /\ shown # NoTime)
      => Past(shown, q.pts) = 0 \/ Past(shown, q.pts) >= Accept

SendsWell == SendsOwn /\ SendsSourced /\ SendsLater

\* A PAT: a section held of another PMT is dropped.
LEMMA PatStep ==
  ASSUME Consistent, PatPacket, NEW received, NEW touched, Noted(received, touched)
  PROVE  Consistent' /\ SendsWell /\ conv'.pid = conv.pid /\ conv'.pes = conv.pes
                     /\ \A q \in ToSet(conv'.packets) : q.kind = "packet"
<1> DEFINE q == [pid |-> 0, kind |-> "packet"]
<1>1. PICK pat \in Pats \cup {conv.pat} :
        conv' = [conv EXCEPT !.pat = pat, !.firstPid = FirstPmt(pat).pid,
                             !.section = SectionOfPid(conv, FirstPmt(pat).pid), !.packets = <<q>>]
  BY DEF PatPacket
<1> DEFINE pid == FirstPmt(pat).pid
<1>2. pat \in Pats \cup {<< >>}
  BY DEF Consistent, ConvSet
<1>3. pid \in DOMAIN Sections \cup {0}
  <2> DEFINE programs == {i \in DOMAIN pat : pat[i].program # 0}
  <2>1. CASE programs = {}
    BY <2>1 DEF FirstPmt, NoRef
  <2>2. CASE programs # {}
    <3>1. pat \in Pats
      BY <1>2, <2>2
    <3>2. pat \in Seq([program : Nat, pid : Nat])
      BY <3>1, TablesAssumption
    <3>3. Len(pat) \in Nat /\ DOMAIN pat = 1 .. Len(pat)
      BY <3>2
    <3>4. programs \in SUBSET (0 .. Len(pat))
      BY <3>3
    <3>5. Min(programs) \in programs
      <4> HIDE DEF programs
      <4> QED
        BY <2>2, <3>3, <3>4, LowestOffset
    <3>6. FirstPmt(pat) = pat[Min(programs)]
      BY <2>2 DEF FirstPmt
    <3> QED
      BY <3>1, <3>5, <3>6, TablesAssumption
  <2> QED
    BY <2>1, <2>2
<1> HIDE DEF pid
<1>4. q \in SentSet /\ <<q>> \in Seq(SentSet)
  BY DEF SentSet, PassedSet
<1>5. SectionOfPid(conv, pid) \in SectionSet \cup {NoSection}
  BY DEF SectionOfPid, Consistent, ConvSet
<1>6. conv' = [conv EXCEPT !.pat = pat, !.firstPid = pid, !.section = SectionOfPid(conv, pid), !.packets = <<q>>]
  BY <1>1 DEF pid
<1>7. /\ conv' \in ConvSet /\ conv'.opt = conv.opt /\ conv'.firstPid = pid
      /\ conv'.section = SectionOfPid(conv, pid) /\ conv'.remove = conv.remove
      /\ conv'.pid = conv.pid /\ conv'.pes = conv.pes /\ conv'.id3Pid = conv.id3Pid
      /\ conv'.last = conv.last /\ conv'.packets = <<q>> /\ conv'.pcrPid = conv.pcrPid
  BY <1>2, <1>3, <1>4, <1>5, <1>6 DEF Consistent, ConvSet
<1>8. SectionHeld(conv')
  BY <1>7 DEF SectionHeld, SectionOfPid, Consistent
<1>9. \A i \in DOMAIN conv'.packets : conv'.packets[i] = q
  BY <1>7
<1>10. pmt' = pmt /\ shown' = shown
  BY <1>9, NotedIs, NoPmtSent, NoTextSent DEF Consistent
<1>11. Agreed(conv', pmt') /\ Partial(conv')
  BY <1>7, <1>10 DEF Agreed, Partial, Consistent
<1>12. \A p \in ToSet(conv'.packets) : p = q
  BY <1>9 DEF ToSet
<1>13. SendsWell
  <2>1. 0 \notin pmt'.source
    BY <1>10, Constants DEF Consistent, MSet
  <2> QED
    BY <1>12, <2>1 DEF SendsWell, SendsOwn, SendsSourced, SendsLater
<1> QED
  BY <1>7, <1>8, <1>10, <1>11, <1>12, <1>13 DEF Consistent

\* The PMT: one or two calls of extract_psi.
LEMMA PmtStep ==
  ASSUME Consistent, PmtPacket, NEW received, NEW touched, Noted(received, touched)
  PROVE  Consistent' /\ SendsWell /\ HeldStill(conv, conv') /\ OnlyPmt(conv'.packets)
<1> DEFINE e == [conv EXCEPT !.packets = << >>]
           Well(g) == /\ g \in ConvSet /\ g.opt = conv.opt /\ g.firstPid = conv.firstPid
                      /\ g.last = conv.last
                      /\ Agreed(g, PmtAfter(g.packets, pmt)) /\ Sourced(g.packets) /\ Partial(g)
                      /\ OnlyPmt(g.packets) /\ HeldStill(conv, g)
<1>1. /\ e \in ConvSet /\ e.packets = << >> /\ e.opt = conv.opt /\ e.firstPid = conv.firstPid
      /\ e.last = conv.last /\ e.remove = conv.remove /\ e.pid = conv.pid /\ e.id3Pid = conv.id3Pid
      /\ e.pes = conv.pes /\ e.section = conv.section
  <2>1. << >> \in Seq(SentSet)
    OBVIOUS
  <2> QED
    BY <2>1 DEF Consistent, ConvSet
<1>2. conv.firstPid # 0
  BY DEF PmtPacket
<1>3. PICK first \in Sections[conv.firstPid] \cup {conv.section, NoSection} :
        \/ conv' = Extracted(e, first)
        \/ \E second \in Sections[conv.firstPid] \cup {NoSection} :
             conv' = Extracted(Extracted(e, first), second)
  BY DEF PmtPacket
<1> HIDE DEF e
<1>4. Well(e)
  <2>1. PmtAfter(e.packets, pmt) = pmt
    BY <1>1, NoPmtSent DEF Consistent
  <2>2. Agreed(e, pmt) /\ Partial(e)
    BY <1>1 DEF Agreed, Partial, Consistent
  <2>3. Sourced(e.packets) /\ OnlyPmt(e.packets) /\ HeldStill(conv, e)
    BY <1>1 DEF Sourced, OnlyPmt, HeldStill
  <2> QED
    BY <1>1, <2>1, <2>2, <2>3
<1>5. ASSUME NEW f, Well(f), NEW section \in Sections[conv.firstPid] \cup {NoSection}
      PROVE  Well(Extracted(f, section)) /\ SectionHeld(Extracted(f, section))
  <2> DEFINE g == Extracted(f, section)
  <2>1. /\ f \in ConvSet /\ f.firstPid # 0 /\ section \in Sections[f.firstPid] \cup {NoSection}
        /\ Agreed(f, PmtAfter(f.packets, pmt)) /\ Sourced(f.packets) /\ Partial(f) /\ OnlyPmt(f.packets)
    BY <1>2, <1>5
  <2>2. /\ g \in ConvSet /\ g.opt = f.opt /\ g.firstPid = f.firstPid /\ g.last = f.last
        /\ SectionHeld(g) /\ Agreed(g, PmtAfter(g.packets, pmt))
        /\ Sourced(g.packets) /\ Partial(g) /\ OnlyPmt(g.packets) /\ HeldStill(f, g)
    BY <2>1, Extracting
  <2> HIDE DEF g
  <2>3. HeldStill(conv, g)
    BY <1>5, <2>2 DEF HeldStill
  <2> QED
    BY <1>5, <2>2, <2>3 DEF g
<1>6. first \in Sections[conv.firstPid] \cup {NoSection}
  BY <1>3 DEF Consistent, SectionHeld
<1> HIDE DEF Well
<1>7. Well(Extracted(e, first)) /\ SectionHeld(Extracted(e, first))
  BY <1>4, <1>5, <1>6
<1>8. Well(conv') /\ SectionHeld(conv')
  BY <1>3, <1>5, <1>7
<1>9. pmt' = PmtAfter(conv'.packets, pmt) /\ shown' = shown
  <2>1. \A i \in DOMAIN conv'.packets : conv'.packets[i].kind # "id3"
    BY <1>8 DEF Well, OnlyPmt
  <2> QED
    BY <2>1, NotedIs, NoTextSent
<1>10. pmt' \in MSet
  <2>1. pmt' = [id3 |-> pmt'.id3, streams |-> pmt'.streams, source |-> pmt'.source]
    BY <1>9 DEF PmtAfter
  <2>2. Agreed(conv', pmt') /\ conv' \in ConvSet
    BY <1>8, <1>9 DEF Well
  <2>3. pmt'.id3 \in Pids \cup {0} /\ pmt'.streams \in SUBSET Pids /\ pmt'.source \in SUBSET Pids
    BY <2>2 DEF Agreed, ConvSet
  <2> QED
    BY <2>1, <2>3 DEF MSet
<1>11. SendsWell
  <2>1. \A q \in ToSet(conv'.packets) : q.kind = "pmt" /\ q.table.section \in Sections[q.pid]
    BY <1>8 DEF Well, OnlyPmt, Sourced, ToSet
  <2> QED
    BY <2>1 DEF SendsWell, SendsOwn, SendsSourced, SendsLater
<1> QED
  BY <1>8, <1>9, <1>10, <1>11 DEF Well, Consistent

\* What a step with a packet of a stream does to what is held of the PES
PesAfter(p) ==
  \/ conv'.pes = conv.pes /\ \A r \in Roles : conv.pid[r] # p.pid
  \/ \E r \in Roles : /\ conv.pid[r] = p.pid
                      /\ conv'.pes = [conv.pes EXCEPT ![r] = Kept(Collected(conv.pes[r], p))]

\* A packet of a stream.  That of the PCR is none of a source of captions.
LEMMA PacketStep ==
  ASSUME Consistent, NEW p \in PacketSet, StreamPacket(p),
         NEW received, NEW touched, Noted(received, touched)
  PROVE  /\ Consistent' /\ SendsWell /\ conv'.pid = conv.pid
         /\ conv'.pes = conv.pes \/ PesAfter(p)
         /\ p.pid \in TextPids => PesAfter(p)
         /\ \A q \in ToSet(conv'.packets) : q.kind = "id3" =>
              \E r \in Roles : /\ conv.pid[r] = p.pid
                               /\ q.unit = Collected(conv.pes[r], p).unit /\ Complete(q.unit)
<1>1. conv \in ConvSet /\ (\A r \in Roles : conv.pid[r] \in conv.remove \cup {0})
  BY DEF Consistent, Agreed
<1>2. conv' \in ConvSet /\ SameTables(conv, conv')
  BY <1>1, StreamStep
<1>3. p.pid \in Pids /\ p.pid # 0 /\ conv.pcrPid \notin TextPids
  BY <1>1, Constants DEF PacketSet, ConvSet
<1>4. SectionHeld(conv') /\ conv'.pid = conv.pid /\ conv'.opt = conv.opt
      /\ conv'.id3Pid = conv.id3Pid /\ conv'.remove = conv.remove /\ conv'.pcrPid = conv.pcrPid
  BY <1>2 DEF SectionHeld, SameTables, Consistent
<1>5. pmt' = pmt => Agreed(conv', pmt') /\ pmt' \in MSet
  BY <1>4 DEF Agreed, Consistent
<1>6. ASSUME conv'.packets = << >>, conv'.last = conv.last
      PROVE  pmt' = pmt /\ (conv'.opt.monotonous => shown' = conv'.last) /\ SendsWell
  <2>1. pmt' = pmt /\ shown' = shown
    BY <1>6, NotedIs, NoPmtSent, NoTextSent DEF Consistent
  <2>2. ToSet(conv'.packets) = {}
    BY <1>6 DEF ToSet
  <2> QED
    BY <1>4, <1>6, <2>1, <2>2 DEF Consistent, SendsWell, SendsOwn, SendsSourced, SendsLater
<1>7. CASE /\ conv'.packets = <<[pid |-> p.pid, kind |-> "packet"]>>
           /\ p.pid = conv.pcrPid \/ p.pid \notin conv.remove
           /\ conv'.pes = conv.pes /\ conv'.last = conv.last
  <2> DEFINE q == [pid |-> p.pid, kind |-> "packet"]
  <2>1. \A i \in DOMAIN conv'.packets : conv'.packets[i] = q
    BY <1>7
  <2>2. pmt' = pmt /\ shown' = shown
    BY <2>1, NotedIs, NoPmtSent, NoTextSent DEF Consistent
  <2>3. \A u \in ToSet(conv'.packets) : u = q
    BY <2>1 DEF ToSet
  <2>4. SendsWell
    <3>1. p.pid \in pmt'.source /\ p.pid # conv'.pcrPid => p.pid # pmt'.id3
      BY <1>4, <1>7, <2>2 DEF Consistent, Agreed
    <3> QED
      BY <2>3, <3>1 DEF SendsWell, SendsOwn, SendsSourced, SendsLater
  <2>5. p.pid \in TextPids => \A r \in Roles : conv.pid[r] # p.pid
    BY <1>1, <1>3, <1>7
  <2>6. Partial(conv')
    BY <1>7 DEF Partial, Consistent
  <2> QED
    BY <1>2, <1>4, <1>5, <1>7, <2>2, <2>3, <2>4, <2>5, <2>6 DEF Consistent, PesAfter
<1>8. CASE /\ p.pid \in conv.remove /\ \A r \in Roles : conv.pid[r] # p.pid
           /\ conv'.packets = << >> /\ conv'.pes = conv.pes /\ conv'.last = conv.last
  <2>1. Partial(conv')
    BY <1>8 DEF Partial, Consistent
  <2>2. ToSet(conv'.packets) = {}
    BY <1>8 DEF ToSet
  <2> QED
    BY <1>2, <1>4, <1>5, <1>6, <1>8, <2>1, <2>2 DEF Consistent, PesAfter
<1>9. ASSUME NEW r \in Roles, p.pid \in conv.remove, conv.pid[r] = p.pid,
             NEW held, held = Collected(conv.pes[r], p),
             conv'.pes = [conv.pes EXCEPT ![r] = Kept(held)],
             \/ conv'.packets = << >> /\ conv'.last = conv.last
             \/ /\ Complete(held.unit)
                /\ Sends(conv'.packets, conv.id3Pid, held.unit, conv.opt.monotonous, conv.last, conv'.last)
      PROVE  /\ Consistent' /\ SendsWell /\ PesAfter(p)
             /\ \A q \in ToSet(conv'.packets) : q.kind = "id3" =>
                  q.unit = held.unit /\ Complete(q.unit)
  <2>1. Partial(conv')
    <3>1. conv.pes \in [Roles -> HeldSet]
      BY <1>1 DEF ConvSet
    <3>2. held \in HeldSet
      BY <1>9, <3>1, CollectedIs
    <3>3. ~Complete(Kept(held).unit)
      BY <3>2, KeptIs
    <3> QED
      BY <1>9, <3>1, <3>3 DEF Partial, Consistent
  <2>2. PesAfter(p)
    BY <1>9 DEF PesAfter
  <2>3. CASE conv'.packets = << >> /\ conv'.last = conv.last
    <3>1. ToSet(conv'.packets) = {}
      BY <2>3 DEF ToSet
    <3> QED
      BY <1>2, <1>4, <1>5, <1>6, <2>1, <2>2, <2>3, <3>1 DEF Consistent
  <2>4. CASE /\ Complete(held.unit)
             /\ Sends(conv'.packets, conv.id3Pid, held.unit, conv.opt.monotonous, conv.last, conv'.last)
    <3>1. PICK sent \in Times :
            /\ conv'.packets = <<[pid |-> conv.id3Pid, kind |-> "id3", pts |-> sent, unit |-> held.unit]>>
            /\ conv'.last = IF conv.opt.monotonous THEN sent ELSE conv.last
            /\ conv.opt.monotonous /\ conv.last # NoTime
                 => Past(conv.last, sent) = 0 \/ Past(conv.last, sent) >= Accept
      BY <2>4 DEF Sends
    <3> DEFINE q == [pid |-> conv.id3Pid, kind |-> "id3", pts |-> sent, unit |-> held.unit]
    <3>2. \A i \in DOMAIN conv'.packets : conv'.packets[i] = q
      BY <3>1
    <3>3. DOMAIN conv'.packets = {1}
      BY <3>1
    <3>4. pmt' = pmt
      BY <3>2, NotedIs, NoPmtSent DEF Consistent
    <3>5. shown' = sent
      <4>1. LastOfKind(conv'.packets, "id3", [pts |-> shown]) = q
        <5> DEFINE of == {i \in DOMAIN conv'.packets : conv'.packets[i].kind = "id3"}
        <5>1. of = {1}
          BY <3>2, <3>3
        <5>2. Max(of) \in of
          <6>1. of \in SUBSET (1 .. 1) /\ of # {}
            BY <5>1
          <6> HIDE DEF of
          <6> QED
            BY <6>1, HighestIndex
        <5>3. LastOfKind(conv'.packets, "id3", [pts |-> shown]) = conv'.packets[Max(of)]
          BY <5>1 DEF LastOfKind
        <5> HIDE DEF of
        <5> QED
          BY <3>2, <3>3, <5>1, <5>2, <5>3
      <4> QED
        BY <4>1, NotedIs
    <3>6. \A u \in ToSet(conv'.packets) : u = q
      BY <3>2 DEF ToSet
    <3>7. conv.id3Pid # 0 /\ conv.id3Pid = pmt.id3 /\ pmt.id3 \notin pmt.streams
      BY <1>9 DEF Consistent, Agreed
    <3>8. SendsWell
      BY <3>1, <3>4, <3>6, <3>7 DEF SendsWell, SendsOwn, SendsSourced, SendsLater, Consistent
    <3>9. conv'.opt.monotonous => shown' = conv'.last
      BY <1>4, <3>1, <3>5
    <3> QED
      BY <1>2, <1>4, <1>5, <2>1, <2>2, <2>4, <3>4, <3>6, <3>8, <3>9 DEF Consistent
  <2> QED
    BY <1>9, <2>3, <2>4
<1>10. CASE \E r \in Roles :
              LET held == Collected(conv.pes[r], p)
              IN  /\ p.pid \in conv.remove /\ conv.pid[r] = p.pid
                  /\ conv'.pes = [conv.pes EXCEPT ![r] = Kept(held)]
                  /\ \/ conv'.packets = << >> /\ conv'.last = conv.last
                     \/ /\ Complete(held.unit)
                        /\ Sends(conv'.packets, conv.id3Pid, held.unit, conv.opt.monotonous,
                                 conv.last, conv'.last)
  BY <1>4, <1>9, <1>10
<1> QED
  BY <1>1, <1>7, <1>8, <1>10, StreamStep

-----------------------------------------------------------------------------
(* Types, tables and PTS.                                                  *)

\* A packet is lost.
LEMMA LoseStep ==
  ASSUME Consistent, conv' = [conv EXCEPT !.packets = << >>],
         NEW received, NEW touched, Noted(received, touched)
  PROVE  /\ Consistent' /\ SendsWell /\ conv'.pid = conv.pid /\ conv'.pes = conv.pes
         /\ ToSet(conv'.packets) = {}
<1>1. /\ conv' \in ConvSet /\ conv'.packets = << >> /\ conv'.opt = conv.opt
      /\ conv'.firstPid = conv.firstPid /\ conv'.section = conv.section /\ conv'.remove = conv.remove
      /\ conv'.pid = conv.pid /\ conv'.pes = conv.pes /\ conv'.id3Pid = conv.id3Pid
      /\ conv'.last = conv.last
  <2>1. << >> \in Seq(SentSet)
    OBVIOUS
  <2> QED
    BY <2>1 DEF Consistent, ConvSet
<1>2. pmt' = pmt /\ shown' = shown
  BY <1>1, NotedIs, NoPmtSent, NoTextSent DEF Consistent
<1>3. ToSet(conv'.packets) = {}
  BY <1>1 DEF ToSet
<1>4. SectionHeld(conv') /\ Agreed(conv', pmt') /\ Partial(conv')
  BY <1>1, <1>2 DEF Consistent, SectionHeld, Agreed, Partial
<1> QED
  BY <1>1, <1>2, <1>3, <1>4 DEF Consistent, SendsWell, SendsOwn, SendsSourced, SendsLater

Inv == Consistent /\ SourceOK

LEMMA ReceivedOK ==
  ASSUME SourceOK, NEW pid \in TextPids, NEW lost \in 0 .. MaxBurst,
         source' = [source EXCEPT ![pid] = [last |-> Following(pid), lost |-> lost]]
  PROVE  SourceOK'
<1> DEFINE q == Following(pid)
           entry == [last |-> q, lost |-> lost]
<1>1. /\ q \in PacketSet /\ q.pid = pid /\ q.payload /\ q.of = PesLength
      /\ q.index \in 1 .. PesLength /\ q.kind = "own"
      /\ q.start => q.index = 1
  BY FollowingIs
<1>2. source' = [source EXCEPT ![pid] = entry]
  OBVIOUS
<1> HIDE DEF q
<1>3. source \in [TextPids -> [last : PacketSet, lost : 0 .. MaxBurst]]
  BY DEF SourceOK
<1>4. entry \in [last : PacketSet, lost : 0 .. MaxBurst] /\ entry.last = q
  BY <1>1
<1> HIDE DEF entry
<1>5. source' \in [TextPids -> [last : PacketSet, lost : 0 .. MaxBurst]]
  BY <1>2, <1>3, <1>4
<1>6. ASSUME NEW x \in TextPids
      PROVE  LET p == source'[x].last
             IN  /\ p.pid = x /\ p.payload /\ p.of = PesLength /\ p.index \in 1 .. PesLength
                 /\ p.kind = "own" /\ (p.start => p.index = 1)
  <2>1. CASE x = pid
    <3>1. source'[x].last = q
      BY <1>2, <1>3, <1>4, <2>1
    <3> QED
      BY <1>1, <2>1, <3>1
  <2>2. CASE x # pid
    <3>1. source'[x] = source[x]
      BY <1>2, <1>3, <2>2
    <3> QED
      BY <3>1 DEF SourceOK
  <2> QED
    BY <2>1, <2>2
<1> QED
  BY <1>5, <1>6 DEF SourceOK

LEMMA InvStep ==
  ASSUME Inv, Next
  PROVE  Inv' /\ SendsWell
<1> USE DEF Inv
<1>1. CASE (PatPacket \/ PmtPacket) /\ UNCHANGED source /\ Noted(0, 0)
  BY <1>1, PatStep, PmtStep DEF SourceOK
<1>2. ASSUME NEW pid \in Pids \ TextPids, ReceiveSingle(pid), Noted(0, 0)
      PROVE  Inv' /\ SendsWell
  <2>1. PICK kind \in {"own", "pcr", "other"} : StreamPacket(Single(pid, kind))
    BY <1>2 DEF ReceiveSingle
  <2>2. Consistent' /\ SendsWell
    BY <1>2, <2>1, SingleIs, PacketStep
  <2> QED
    BY <1>2, <2>2 DEF ReceiveSingle, SourceOK
<1>3. ASSUME NEW pid \in TextPids, Receive(pid), Noted(pid, 0)
      PROVE  Inv' /\ SendsWell
  <2>1. Following(pid) \in PacketSet
    BY FollowingIs
  <2>2. Consistent' /\ SendsWell
    BY <1>3, <2>1, PacketStep DEF Receive
  <2>3. 0 \in 0 .. MaxBurst
    BY Constants
  <2> QED
    BY <1>3, <2>2, <2>3, ReceivedOK DEF Receive
<1>4. ASSUME NEW pid \in TextPids, Lose(pid), Noted(0, pid)
      PROVE  Inv' /\ SendsWell
  <2>1. Consistent' /\ SendsWell
    BY <1>4, LoseStep DEF Lose
  <2>2. source[pid].lost + 1 \in 0 .. MaxBurst
    BY <1>4, Constants DEF Lose, SourceOK
  <2>3. source' = [source EXCEPT ![pid] = [last |-> Following(pid), lost |-> source[pid].lost + 1]]
    BY <1>4 DEF Lose, SourceOK
  <2> QED
    BY <2>1, <2>2, <2>3, ReceivedOK
<1>5. ASSUME NEW pid \in TextPids, Again(pid), Noted(0, pid)
      PROVE  Inv' /\ SendsWell
  <2>1. PICK p \in OnceMore(source[pid].last) :
          StreamPacket(p)
    BY <1>5 DEF Again, OnceMore
  <2>2. p \in PacketSet
    BY AgainIs
  <2>3. Consistent' /\ SendsWell
    BY <1>5, <2>1, <2>2, PacketStep
  <2> QED
    BY <1>5, <2>3 DEF Again, SourceOK
<1> QED
  BY <1>1, <1>2, <1>3, <1>4, <1>5 DEF Next

LEMMA InvInit ==
  ASSUME Init
  PROVE  Inv
<1>1. PICK opt \in Options :
        conv = [opt |-> opt, pat |-> << >>, firstPid |-> 0, section |-> NoSection, remove |-> {},
                pid |-> [r \in Roles |-> 0], pes |-> [r \in Roles |-> Nothing],
                pcrPid |-> 0, pcr |-> NoTime, id3Pid |-> 0, id3Counter |-> 0, pmtCounter |-> 0,
                last |-> NoTime, packets |-> << >>]
  BY DEF Init
<1>2. Nothing \in HeldSet
  <2>1. << >> \in Seq(PacketSet) /\ 0 \in Counters
    BY Constants DEF Counters
  <2> QED
    BY <2>1 DEF Nothing, HeldSet
<1>3. 0 \in Nat \ TextPids /\ << >> \in Seq(SentSet)
  BY Constants
<1>4. conv \in ConvSet
  BY <1>1, <1>2, <1>3 DEF ConvSet
<1>5. SectionHeld(conv)
  BY <1>1 DEF SectionHeld
<1>6. pmt = NoPmt /\ NoPmt \in MSet /\ 0 \notin Pids
  BY Constants DEF Init, NoPmt, MSet
<1>7. Agreed(conv, pmt)
  BY <1>1, <1>6 DEF Agreed, NoPmt, Roles
<1>8. Partial(conv)
  BY <1>1 DEF Partial, Nothing, Complete
<1>9. shown = conv.last
  BY <1>1 DEF Init
<1>10. SourceOK
  <2> DEFINE first(pid) == [Single(pid, "own") EXCEPT !.start = FALSE, !.index = PesLength, !.of = PesLength]
  <2>1. ASSUME NEW pid \in TextPids
        PROVE  /\ first(pid) \in PacketSet /\ first(pid).pid = pid /\ first(pid).payload
               /\ first(pid).of = PesLength /\ first(pid).index = PesLength /\ ~first(pid).start
               /\ first(pid).kind = "own"
    <3> DEFINE one == Single(pid, "own")
    <3>1. one \in PacketSet
      BY Constants, SingleIs
    <3>2. one.pid = pid /\ one.payload /\ one.kind = "own"
      BY DEF Single
    <3> HIDE DEF one
    <3>3. PesLength \in Nat
      BY Constants
    <3> QED
      BY <3>1, <3>2, <3>3 DEF PacketSet, one
  <2>2. source = [pid \in TextPids |-> [last |-> first(pid), lost |-> 0]]
    BY DEF Init
  <2> HIDE DEF first
  <2>3. 0 \in 0 .. MaxBurst /\ PesLength \in 1 .. PesLength
    BY Constants
  <2>4. source \in [TextPids -> [last : PacketSet, lost : 0 .. MaxBurst]]
    BY <2>1, <2>2, <2>3
  <2>5. \A pid \in TextPids : source[pid].last = first(pid)
    BY <2>2
  <2> QED
    BY <2>1, <2>3, <2>4, <2>5 DEF SourceOK
<1> QED
  BY <1>4, <1>5, <1>6, <1>7, <1>8, <1>9, <1>10 DEF Inv, Consistent

LEMMA InvTypeOK ==
  ASSUME Inv
  PROVE  TypeOK
<1>1. Range(Sections) = {Sections[pid] : pid \in DOMAIN Sections}
  BY DEF Range
<1>2. SectionSet = UNION Range(Sections)
  BY <1>1 DEF SectionSet
<1>3. conv \in ConvSet
  BY DEF Inv, Consistent
<1>4. conv.opt \in Options /\ conv.pat \in Pats \cup {<< >>}
  BY <1>3 DEF ConvSet
<1>5. conv.section \in (UNION Range(Sections)) \cup {NoSection}
  BY <1>2, <1>3 DEF ConvSet
<1>6. conv.remove \subseteq Pids /\ conv.id3Pid \in Pids \cup {0}
  BY <1>3 DEF ConvSet
<1>7. {conv.pcr, conv.last} \subseteq Times \cup {NoTime}
  BY <1>3 DEF ConvSet
<1>8. \A r \in Roles : conv.pid[r] \in conv.remove \cup {0} /\ ~Complete(conv.pes[r].unit)
  BY DEF Inv, Consistent, Agreed, Partial
<1> QED
  BY <1>4, <1>5, <1>6, <1>7, <1>8 DEF TypeOK

LEMMA InvUnchanged ==
  ASSUME Inv, UNCHANGED vars
  PROVE  Inv'
BY DEF Inv, Consistent, SectionHeld, Agreed, Partial, SourceOK, vars

\* The members of the filter have their types, and no more of a PES is held than it takes to
\* convert it, for every set of tables, streams and losses.
THEOREM ConverterTypes == Spec => []TypeOK
<1>1. Inv /\ [Next]_vars => Inv'
  BY InvStep, InvUnchanged
<1> QED
  BY <1>1, InvInit, InvTypeOK, PTL DEF Spec

\* A PMT goes out on the PID that its section came on, whatever became of the PAT.
THEOREM PmtOnItsPid == Spec => PmtOfPid
<1>1. Inv /\ [Next]_vars => Inv'
  BY InvStep, InvUnchanged
<1>2. Inv /\ [Next]_vars => [\A q \in ToSet(conv'.packets) : q.kind = "pmt" => q.table.section \in Sections[q.pid]]_vars
  BY InvStep DEF SendsWell, SendsSourced
<1> QED
  BY <1>1, <1>2, InvInit, PTL DEF Spec, PmtOfPid

\* The PID of the metadata is theirs alone: the metadata come on the PID that the PMT sent
\* announces, and no stream it lists has that PID.
THEOREM MetadataOwnPid == Spec => Id3PidOwn
<1>1. Inv /\ [Next]_vars => Inv'
  BY InvStep, InvUnchanged
<1>2. Inv /\ [Next]_vars =>
        [\A q \in ToSet(conv'.packets) :
           /\ q.kind = "id3" => q.pid = pmt'.id3 /\ q.pid # 0 /\ pmt'.id3 \notin pmt'.streams
           /\ (q.kind = "packet" /\ q.pid \in pmt'.source /\ q.pid # conv'.pcrPid)
                => q.pid # pmt'.id3]_vars
  BY InvStep DEF SendsWell, SendsOwn
<1> QED
  BY <1>1, <1>2, InvInit, PTL DEF Spec, Id3PidOwn

\* PTS made monotonous never go back, but by the difference that counts as a jump, also
\* around the wrap.
THEOREM PtsKeepUp == Spec => PtsMonotonous
<1>1. Inv /\ [Next]_vars => Inv'
  BY InvStep, InvUnchanged
<1>2. Inv /\ [Next]_vars =>
        [\A q \in ToSet(conv'.packets) :
           (q.kind = "id3" /\ conv.opt.monotonous /\ shown # NoTime)
             => Past(shown, q.pts) = 0 \/ Past(shown, q.pts) >= Accept]_vars
  BY InvStep DEF SendsWell, SendsLater
<1> QED
  BY <1>1, <1>2, InvInit, PTL DEF Spec, PtsMonotonous

-----------------------------------------------------------------------------
(* Metadata are made of whole PES, and of each that came undisturbed.  The *)
(* counter of a packet tells how many were lost since the last one taken,  *)
(* as long as fewer are lost in a row than counters there are.             *)

\* Every packet of it has payload.
Filled(unit) == \A k \in DOMAIN unit : unit[k].payload

\* The packets of one PES of a PID from its first one on
ChainOf(unit, pid) ==
  /\ Len(unit) <= PesLength
  /\ \A k \in DOMAIN unit : /\ unit[k].index = k /\ unit[k].of = PesLength
                            /\ unit[k].pes = unit[1].pes /\ unit[k].pid = pid

\* The packets sent since the one taken last: how far the counter is ahead tells whether the
\* last of them is that packet, the next one of its PES, or neither.
Ahead(held, src) ==
  \E d \in 0 .. src.lost :
    /\ src.last.counter = (held.counter + d) % CounterMod
    /\ d = 0 => src.last.index = Len(held.unit) /\ src.last.pes = held.unit[1].pes
    /\ d = 1 => src.last.index = Len(held.unit) + 1 /\ src.last.pes = held.unit[1].pes

Linked(held, pid, src) ==
  held.unit # << >> =>
    /\ pid \in TextPids
    /\ Filled(held.unit) => ChainOf(held.unit, pid) /\ Ahead(held, src[pid])

Chained == \A r \in Roles : Linked(conv.pes[r], conv.pid[r], source)

-----------------------------------------------------------------------------
(* What Collected does.                                                    *)

LEMMA CollectedCases ==
  ASSUME NEW held \in HeldSet, NEW p \in PacketSet, Collected(held, p).unit # << >>
  PROVE  LET g == Collected(held, p)
         IN  /\ g.counter = p.counter \/ (~p.start /\ held.unit = << >>)
             /\ \/ p.start /\ g.unit = <<p>>
                \/ /\ ~p.start /\ held.unit # << >> /\ g.unit = Append(held.unit, p)
                   /\ p.counter = Successor(held.counter)
<1>1. CASE p.start
  BY <1>1 DEF Collected
<1>2. CASE ~p.start /\ held.unit # << >>
  <2>1. Collected(held, p) = Continued(held, p)
    BY <1>2 DEF Collected
  <2>2. Successor(held.counter) = p.counter
    BY <2>1 DEF Continued
  <2> QED
    BY <1>2, <2>1, <2>2 DEF Continued
<1>3. CASE ~p.start /\ held.unit = << >>
  BY <1>3 DEF Collected
<1> QED
  BY <1>1, <1>2, <1>3

\* A PES of one packet is all there at once.
LEMMA OneComplete ==
  ASSUME NEW p \in PacketSet, p.payload, p.of = 1
  PROVE  Complete(<<p>>)
<1>1. {i \in DOMAIN <<p>> : <<p>>[i].payload} = 1 .. 1
  OBVIOUS
<1>2. Cardinality({1}) = 1 /\ 1 .. 1 = {1}
  BY FS_Singleton
<1> QED
  BY <1>1, <1>2 DEF Complete

\* A PES whose packets all have payload is all there when it has as many as it takes.
LEMMA FilledComplete ==
  ASSUME NEW unit \in Seq(PacketSet), unit # << >>, Filled(unit)
  PROVE  Complete(unit) <=> Len(unit) >= unit[1].of
<1>1. Len(unit) \in Nat /\ DOMAIN unit = 1 .. Len(unit)
  OBVIOUS
<1>2. {i \in DOMAIN unit : unit[i].payload} = 1 .. Len(unit)
  BY <1>1 DEF Filled
<1>3. Cardinality(1 .. Len(unit)) = Len(unit)
  BY <1>1, FS_Interval
<1> QED
  BY <1>2, <1>3 DEF Complete

LEMMA FirstOfChain ==
  ASSUME NEW p \in PacketSet, p.index = 1, p.of = PesLength
  PROVE  ChainOf(<<p>>, p.pid)
<1>1. Len(<<p>>) = 1 /\ <<p>>[1] = p /\ DOMAIN <<p>> = {1}
  OBVIOUS
<1> QED
  BY <1>1, Constants DEF ChainOf

LEMMA NextOfChain ==
  ASSUME NEW unit \in Seq(PacketSet), unit # << >>, NEW pid, ChainOf(unit, pid), Len(unit) < PesLength,
         NEW p \in PacketSet, p.index = Len(unit) + 1, p.of = PesLength,
         p.pes = unit[1].pes, p.pid = pid
  PROVE  /\ ChainOf(Append(unit, p), pid)
         /\ Len(Append(unit, p)) = Len(unit) + 1 /\ Append(unit, p)[1] = unit[1]
<1> DEFINE n == Len(unit)
           u == Append(unit, p)
<1>1. /\ n \in Nat /\ n >= 1 /\ DOMAIN unit = 1 .. n
      /\ Len(u) = n + 1 /\ DOMAIN u = 1 .. n + 1
      /\ u[n + 1] = p /\ \A k \in 1 .. n : u[k] = unit[k]
  <2> HIDE DEF PacketSet
  <2> QED
    OBVIOUS
<1>2. n < PesLength /\ p.index = n + 1
  OBVIOUS
<1> HIDE DEF n, u
<1>3. PesLength \in Nat
  BY Constants
<1>4. n + 1 <= PesLength
  BY <1>1, <1>2, <1>3
<1>5. u[1] = unit[1]
  BY <1>1
<1>6. ASSUME NEW k \in 1 .. n + 1
      PROVE  u[k].index = k /\ u[k].of = PesLength /\ u[k].pes = unit[1].pes /\ u[k].pid = pid
  <2>1. CASE k = n + 1
    BY <1>1, <1>2, <2>1
  <2>2. CASE k # n + 1
    <3>1. k \in 1 .. n
      BY <1>1, <2>2
    <3> QED
      BY <1>1, <3>1 DEF ChainOf
  <2> QED
    BY <2>1, <2>2
<1> QED
  BY <1>1, <1>4, <1>5, <1>6 DEF ChainOf, u, n

-----------------------------------------------------------------------------
(* Counters.                                                               *)

LEMMA CounterAhead ==
  ASSUME NEW c \in Counters, NEW d \in 0 .. CounterMod - 1
  PROVE  /\ (c + d) % CounterMod = c <=> d = 0
         /\ (c + d) % CounterMod = Successor(c) <=> d = 1
         /\ Successor((c + d) % CounterMod) = (c + (d + 1)) % CounterMod
         /\ Successor((c + d) % CounterMod) = Successor(c) <=> d = 0
<1>1. CounterMod \in Nat /\ CounterMod >= 2 /\ c \in 0 .. CounterMod - 1
  BY Constants DEF Counters
<1>2. \A x \in 0 .. 2 * CounterMod - 1 :
        x % CounterMod = IF x < CounterMod THEN x ELSE x - CounterMod
  BY <1>1
<1>3. (c + d) % CounterMod = IF c + d < CounterMod THEN c + d ELSE c + d - CounterMod
  BY <1>1, <1>2
<1>4. (c + (d + 1)) % CounterMod
        = IF c + d + 1 < CounterMod THEN c + d + 1 ELSE c + d + 1 - CounterMod
  BY <1>1, <1>2
<1>5. \A x \in 0 .. CounterMod - 1 : Successor(x) = IF x + 1 < CounterMod THEN x + 1 ELSE 0
  BY <1>1, <1>2 DEF Successor
<1>6. (c + d) % CounterMod \in 0 .. CounterMod - 1
  BY <1>1, <1>3
<1>7. (c + d) % CounterMod = c <=> d = 0
  BY <1>1, <1>3
<1>8. (c + d) % CounterMod = Successor(c) <=> d = 1
  BY <1>1, <1>3, <1>5
<1>9. Successor((c + d) % CounterMod) = (c + (d + 1)) % CounterMod
  BY <1>1, <1>3, <1>4, <1>5, <1>6
<1>10. Successor((c + d) % CounterMod) = Successor(c) <=> d = 0
  BY <1>1, <1>3, <1>5, <1>6
<1> QED
  BY Zenon, <1>7, <1>8, <1>9, <1>10

-----------------------------------------------------------------------------
(* A packet received, lost, or received again.                             *)

\* What is held of a PES is shorter than the PES.
LEMMA ShortChain ==
  ASSUME NEW held \in HeldSet, held.unit # << >>, Filled(held.unit), ~Complete(held.unit),
         NEW pid, ChainOf(held.unit, pid)
  PROVE  Len(held.unit) < PesLength /\ held.unit \in Seq(PacketSet) /\ Len(held.unit) \in Nat
<1>1. held.unit \in Seq(PacketSet)
  BY DEF HeldSet
<1>2. held.unit[1].of = PesLength /\ Len(held.unit) \in Nat
  <2> DEFINE unit == held.unit
  <2>1. 1 \in DOMAIN unit /\ Len(unit) \in Nat
    BY <1>1
  <2> QED
    BY <2>1 DEF ChainOf
<1>3. ~(Len(held.unit) >= PesLength)
  BY <1>1, <1>2, FilledComplete
<1> QED
  BY <1>1, <1>2, <1>3, Constants

\* The packets are Filled when the one appended has payload, and so had those before.
LEMMA FilledAppend ==
  ASSUME NEW unit \in Seq(PacketSet), NEW p \in PacketSet, Filled(Append(unit, p))
  PROVE  Filled(unit) /\ p.payload
<1>1. /\ Len(unit) \in Nat /\ DOMAIN unit = 1 .. Len(unit)
      /\ DOMAIN Append(unit, p) = 1 .. Len(unit) + 1
      /\ Append(unit, p)[Len(unit) + 1] = p
      /\ \A k \in 1 .. Len(unit) : Append(unit, p)[k] = unit[k]
  <2> HIDE DEF PacketSet
  <2> QED
    OBVIOUS
<1> QED
  BY <1>1 DEF Filled

\* What has been collected, with a packet that is the next one of its PES if its counter is.
LEMMA LinkKept ==
  ASSUME MaxBurst < CounterMod, NEW pid \in TextPids, NEW p \in PacketSet,
         p.pid = pid, p.of = PesLength, p.start => p.index = 1,
         NEW held \in HeldSet, ~Complete(held.unit),
         (held.unit # << >> /\ Filled(held.unit)) => ChainOf(held.unit, pid),
         (/\ held.unit # << >> /\ Filled(held.unit) /\ p.payload /\ ~p.start
          /\ p.counter = Successor(held.counter))
           => p.index = Len(held.unit) + 1 /\ p.pes = held.unit[1].pes,
         Collected(held, p).unit # << >>, Filled(Collected(held, p).unit)
  PROVE  LET g == Collected(held, p)
         IN  /\ ChainOf(g.unit, pid) /\ g.counter = p.counter
             /\ p.index = Len(g.unit) /\ p.pes = g.unit[1].pes
<1> DEFINE g == Collected(held, p)
<1>1. /\ g.counter = p.counter \/ (~p.start /\ held.unit = << >>)
      /\ \/ p.start /\ g.unit = <<p>>
         \/ /\ ~p.start /\ held.unit # << >> /\ g.unit = Append(held.unit, p)
            /\ p.counter = Successor(held.counter)
  BY CollectedCases
<1>2. held.unit \in Seq(PacketSet)
  BY DEF HeldSet
<1> HIDE DEF g
<1>3. CASE p.start /\ g.unit = <<p>>
  <2>1. ChainOf(<<p>>, pid) /\ Len(<<p>>) = 1 /\ <<p>>[1] = p
    BY <1>3, FirstOfChain
  <2> QED
    BY <1>1, <1>3, <2>1 DEF g
<1>4. CASE /\ ~p.start /\ held.unit # << >> /\ g.unit = Append(held.unit, p)
           /\ p.counter = Successor(held.counter)
  <2>1. Filled(held.unit) /\ p.payload
    BY <1>2, <1>4, FilledAppend DEF g
  <2>2. ChainOf(held.unit, pid) /\ p.index = Len(held.unit) + 1 /\ p.pes = held.unit[1].pes
    BY <1>4, <2>1
  <2>3. Len(held.unit) < PesLength
    BY <1>4, <2>1, <2>2, ShortChain
  <2>4. /\ ChainOf(g.unit, pid) /\ Len(g.unit) = Len(held.unit) + 1 /\ g.unit[1] = held.unit[1]
    BY <1>2, <1>4, <2>2, <2>3, NextOfChain
  <2> QED
    BY <1>1, <1>4, <2>2, <2>4 DEF g
<1> QED
  BY <1>1, <1>3, <1>4

\* The packet taken is the last one sent.
LEMMA AheadNone ==
  ASSUME NEW p \in PacketSet, NEW lost \in Nat, NEW g, g.counter = p.counter,
         p.index = Len(g.unit), p.pes = g.unit[1].pes
  PROVE  Ahead(g, [last |-> p, lost |-> lost])
<1> DEFINE src == [last |-> p, lost |-> lost]
<1>1. p.counter \in Counters
  BY DEF PacketSet
<1>2. p.counter = (p.counter + 0) % CounterMod
  BY SMTT(30), <1>1, Constants DEF Counters
<1>3. src.last = p /\ src.lost = lost /\ 0 \in 0 .. lost
  OBVIOUS
<1> HIDE DEF src
<1>4. src.last.counter = (g.counter + 0) % CounterMod
  BY <1>2, <1>3
<1>5. /\ 0 = 0 => src.last.index = Len(g.unit) /\ src.last.pes = g.unit[1].pes
      /\ 0 = 1 => src.last.index = Len(g.unit) + 1 /\ src.last.pes = g.unit[1].pes
  BY <1>3
<1>6. Ahead(g, src)
  BY <1>3, <1>4, <1>5 DEF Ahead
<1> QED
  BY <1>6 DEF src

LEMMA ReceivedLinked ==
  ASSUME MaxBurst < CounterMod, SourceOK, NEW pid \in TextPids, NEW held \in HeldSet,
         Linked(held, pid, source), ~Complete(held.unit)
  PROVE  LET g == Collected(held, Following(pid))
         IN  (g.unit # << >> /\ Filled(g.unit)) =>
               ChainOf(g.unit, pid) /\ Ahead(g, [last |-> Following(pid), lost |-> 0])
<1> DEFINE p == Following(pid)
           last == source[pid].last
           g == Collected(held, p)
<1>1. /\ p \in PacketSet /\ p.pid = pid /\ p.payload /\ p.of = PesLength
      /\ p.index \in 1 .. PesLength
      /\ p.counter = Successor(last.counter)
      /\ p.start => p.index = 1
      /\ ~p.start => p.index = last.index + 1 /\ p.pes = last.pes
  BY FollowingIs
<1>2. held.counter \in Counters
  BY DEF HeldSet
<1>3. source[pid].lost \in 0 .. MaxBurst /\ MaxBurst \in Nat /\ CounterMod \in Nat
  BY Constants DEF SourceOK
<1> HIDE DEF p
<1>4. ASSUME held.unit # << >>, Filled(held.unit), ~p.start, p.counter = Successor(held.counter)
      PROVE  p.index = Len(held.unit) + 1 /\ p.pes = held.unit[1].pes
  <2>1. PICK d \in 0 .. source[pid].lost :
          /\ last.counter = (held.counter + d) % CounterMod
          /\ d = 0 => last.index = Len(held.unit) /\ last.pes = held.unit[1].pes
    BY <1>4 DEF Linked, Ahead
  <2>2. d \in 0 .. CounterMod - 1
    BY <1>3
  <2> HIDE DEF last
  <2>3. d = 0
    <3>1. Successor((held.counter + d) % CounterMod) = Successor(held.counter)
      BY <1>1, <1>4, <2>1
    <3> QED
      BY <1>2, <2>2, <3>1, CounterAhead
  <2> QED
    BY <1>1, <1>4, <2>1, <2>3
<1> HIDE DEF last
<1>5. ASSUME g.unit # << >>, Filled(g.unit)
      PROVE  /\ ChainOf(g.unit, pid) /\ g.counter = p.counter
             /\ p.index = Len(g.unit) /\ p.pes = g.unit[1].pes
  BY <1>1, <1>4, <1>5, LinkKept DEF Linked
<1>6. ASSUME g.unit # << >>, Filled(g.unit)
      PROVE  ChainOf(g.unit, pid) /\ Ahead(g, [last |-> p, lost |-> 0])
  <2>1. /\ ChainOf(g.unit, pid) /\ g.counter = p.counter
        /\ p.index = Len(g.unit) /\ p.pes = g.unit[1].pes
    BY <1>5, <1>6
  <2> HIDE DEF g
  <2> QED
    BY <1>1, <2>1, AheadNone
<1> QED
  BY <1>6 DEF p

LEMMA AgainLinked ==
  ASSUME MaxBurst < CounterMod, SourceOK, NEW pid \in TextPids, NEW held \in HeldSet,
         Linked(held, pid, source), ~Complete(held.unit),
         NEW p \in OnceMore(source[pid].last)
  PROVE  LET g == Collected(held, p)
         IN  (g.unit # << >> /\ Filled(g.unit)) => ChainOf(g.unit, pid) /\ Ahead(g, source[pid])
<1> DEFINE last == source[pid].last
           g == Collected(held, p)
<1>1. /\ p \in PacketSet /\ p.pid = pid /\ p.counter = last.counter /\ p.index = last.index
      /\ p.pes = last.pes /\ p.of = last.of
      /\ p.start => p = last
      /\ p.payload => p = last
  BY AgainIs
<1>2. held.counter \in Counters
  BY DEF HeldSet
<1>3. /\ source[pid].lost \in 0 .. MaxBurst /\ MaxBurst \in Nat /\ CounterMod \in Nat
      /\ source[pid] \in [last : PacketSet, lost : 0 .. MaxBurst]
      /\ last.of = PesLength
      /\ last.start => last.index = 1
  BY Constants DEF SourceOK
<1>4. ASSUME held.unit # << >>, Filled(held.unit), p.payload, ~p.start,
             p.counter = Successor(held.counter)
      PROVE  p.index = Len(held.unit) + 1 /\ p.pes = held.unit[1].pes
  <2>1. PICK d \in 0 .. source[pid].lost :
          /\ last.counter = (held.counter + d) % CounterMod
          /\ d = 1 => last.index = Len(held.unit) + 1 /\ last.pes = held.unit[1].pes
    BY <1>4 DEF Linked, Ahead
  <2>2. d \in 0 .. CounterMod - 1
    BY <1>3
  <2> HIDE DEF last
  <2>3. d = 1
    BY <1>1, <1>2, <1>4, <2>1, <2>2, CounterAhead
  <2> QED
    BY <1>1, <1>4, <2>1, <2>3
<1> DEFINE lost == source[pid].lost
<1>5. source[pid] = [last |-> last, lost |-> lost]
  BY <1>3
<1> HIDE DEF last, lost
<1>6. ASSUME g.unit # << >>, Filled(g.unit)
      PROVE  ChainOf(g.unit, pid) /\ Ahead(g, source[pid])
  <2>1. /\ ChainOf(g.unit, pid) /\ g.counter = p.counter
        /\ p.index = Len(g.unit) /\ p.pes = g.unit[1].pes
    BY <1>1, <1>3, <1>4, <1>6, LinkKept DEF Linked
  <2> HIDE DEF g
  <2>2. last \in PacketSet /\ lost \in Nat
    BY <1>3 DEF last, lost
  <2>3. Ahead(g, [last |-> last, lost |-> lost])
    BY <1>1, <2>1, <2>2, AheadNone
  <2> QED
    BY <1>5, <2>1, <2>3
<1> QED
  BY <1>6

LEMMA LostLinked ==
  ASSUME MaxBurst < CounterMod, SourceOK, NEW pid \in TextPids, NEW held \in HeldSet,
         Linked(held, pid, source), ~Complete(held.unit), held.unit # << >>, Filled(held.unit)
  PROVE  Ahead(held, [last |-> Following(pid), lost |-> source[pid].lost + 1])
<1> DEFINE p == Following(pid)
           last == source[pid].last
           lost == source[pid].lost
<1>1. /\ p.counter = Successor(last.counter)
      /\ p.start = ~(last.index < PesLength)
      /\ ~p.start => p.index = last.index + 1 /\ p.pes = last.pes
  BY FollowingIs
<1>2. held.counter \in Counters
  BY DEF HeldSet
<1>3. /\ lost \in 0 .. MaxBurst /\ MaxBurst \in Nat /\ CounterMod \in Nat
      /\ last.index \in Nat
  BY Constants DEF SourceOK, PacketSet
<1>4. PICK d \in 0 .. lost :
        /\ last.counter = (held.counter + d) % CounterMod
        /\ d = 0 => last.index = Len(held.unit) /\ last.pes = held.unit[1].pes
  BY DEF Linked, Ahead
<1>5. Len(held.unit) < PesLength
  BY ShortChain DEF Linked
<1> HIDE DEF p, last, lost
<1>6. d \in 0 .. CounterMod - 1
  BY <1>3
<1>7. p.counter = (held.counter + (d + 1)) % CounterMod
  BY <1>1, <1>2, <1>4, <1>6, CounterAhead
<1>8. d = 0 => p.index = Len(held.unit) + 1 /\ p.pes = held.unit[1].pes
  BY <1>1, <1>4, <1>5
<1>9. d + 1 \in 0 .. lost + 1 /\ d + 1 # 0 /\ (d + 1 = 1 => d = 0)
  BY <1>3
<1> QED
  BY <1>7, <1>8, <1>9 DEF Ahead, p, lost

-----------------------------------------------------------------------------
(* The steps.                                                              *)

\* Metadata are made of whole PES, if all their packets have payload.
SendsWhole ==
  \A q \in ToSet(conv'.packets) :
    q.kind = "id3" /\ (\A k \in DOMAIN q.unit : q.unit[k].payload) =>
      /\ Len(q.unit) = q.unit[1].of
      /\ \A k \in DOMAIN q.unit :
           /\ q.unit[k].index = k
           /\ q.unit[k].pes = q.unit[1].pes /\ q.unit[k].pid = q.unit[1].pid

\* The chain of a PES that is all there
LEMMA WholeUnit ==
  ASSUME NEW unit \in Seq(PacketSet), Complete(unit), Filled(unit), NEW pid, ChainOf(unit, pid)
  PROVE  /\ Len(unit) = unit[1].of
         /\ \A k \in DOMAIN unit :
              /\ unit[k].index = k
              /\ unit[k].pes = unit[1].pes /\ unit[k].pid = unit[1].pid
<1>1. unit # << >>
  BY DEF Complete
<1>2. 1 \in DOMAIN unit /\ Len(unit) \in Nat
  BY <1>1
<1>3. unit[1].of = PesLength /\ unit[1].pid = pid /\ Len(unit) <= PesLength
  BY <1>2 DEF ChainOf
<1>4. Len(unit) >= PesLength
  BY <1>1, <1>3, FilledComplete
<1> QED
  BY <1>2, <1>3, <1>4, Constants DEF ChainOf

\* A packet of a source: what is held for its PID goes on with it, for the other role nothing
\* changes.
LEMMA ChainedAfter ==
  ASSUME Inv, Chained, NEW pid \in TextPids, NEW p \in PacketSet, p.pid = pid,
         PesAfter(p), conv'.pid = conv.pid, conv.pes \in [Roles -> HeldSet],
         \A x \in TextPids : x # pid => source'[x] = source[x],
         \A r \in Roles : conv.pid[r] = pid =>
           Linked(Collected(conv.pes[r], p), pid, source')
  PROVE  Chained'
<1>1. pid # 0 /\ 0 \notin TextPids
  BY Constants
<1>2. ASSUME NEW x \in TextPids, x # pid, NEW held, Linked(held, x, source)
      PROVE  Linked(held, x, source')
  BY <1>2 DEF Linked, Ahead
<1>3. ASSUME NEW r \in Roles, conv.pid[r] # pid
      PROVE  Linked(conv.pes[r], conv.pid[r], source')
  <2>1. CASE conv.pid[r] \in TextPids
    BY <1>2, <1>3, <2>1 DEF Chained
  <2>2. CASE conv.pid[r] \notin TextPids
    BY <2>2 DEF Chained, Linked
  <2> QED
    BY <2>1, <2>2
<1>4. CASE conv'.pes = conv.pes /\ \A r \in Roles : conv.pid[r] # pid
  BY <1>3, <1>4 DEF Chained
<1>5. ASSUME NEW r \in Roles, conv.pid[r] = pid,
             conv'.pes = [conv.pes EXCEPT ![r] = Kept(Collected(conv.pes[r], p))]
      PROVE  Chained'
  <2> DEFINE g == Collected(conv.pes[r], p)
  <2>1. g \in HeldSet /\ Linked(g, pid, source')
    BY <1>5, CollectedIs
  <2> HIDE DEF g
  <2>2. Linked(Kept(g), pid, source')
    <3>1. Kept(g) = g \/ Kept(g).unit = << >>
      BY <2>1 DEF Kept, HeldSet
    <3> QED
      BY <2>1, <3>1 DEF Linked
  <2>3. ASSUME NEW s \in Roles
        PROVE  Linked(conv'.pes[s], conv'.pid[s], source')
    <3>1. CASE s = r
      <4>1. conv'.pes[s] = Kept(g)
        BY <1>5, <3>1 DEF g
      <4> QED
        BY <1>5, <2>2, <3>1, <4>1
    <3>2. CASE s # r
      <4>1. conv'.pes[s] = conv.pes[s]
        BY <1>5, <3>2
      <4>2. conv.pid[s] # pid
        BY <1>1, <1>5, <3>2 DEF Inv, Consistent, Agreed, Roles
      <4> QED
        BY <1>3, <4>1, <4>2
    <3> QED
      BY <3>1, <3>2
  <2> QED
    BY <2>3 DEF Chained
<1> QED
  BY <1>4, <1>5 DEF PesAfter

LEMMA TablesChained ==
  ASSUME Chained, HeldStill(conv, conv'), source' = source
  PROVE  Chained'
<1>1. ASSUME NEW r \in Roles
      PROVE  Linked(conv'.pes[r], conv'.pid[r], source')
  <2>1. CASE conv'.pes[r].unit = << >>
    BY <2>1 DEF Linked
  <2>2. CASE conv'.pes[r] = conv.pes[r] /\ conv'.pid[r] = conv.pid[r]
    BY <2>2 DEF Chained
  <2> QED
    BY <2>1, <2>2 DEF HeldStill
<1> QED
  BY <1>1 DEF Chained

LEMMA ChainStep ==
  ASSUME MaxBurst < CounterMod, Inv, Chained, Next
  PROVE  Chained' /\ SendsWhole
<1>1. Consistent /\ SourceOK /\ Partial(conv) /\ conv.pes \in [Roles -> HeldSet]
  BY DEF Inv, Consistent, ConvSet
<1>2. CASE (PatPacket \/ PmtPacket) /\ UNCHANGED source /\ Noted(0, 0)
  <2>1. CASE PatPacket
    <3>1. /\ conv'.pid = conv.pid /\ conv'.pes = conv.pes
          /\ \A q \in ToSet(conv'.packets) : q.kind = "packet"
      BY <1>1, <1>2, <2>1, PatStep
    <3>2. HeldStill(conv, conv')
      BY <3>1 DEF HeldStill
    <3> QED
      BY <1>2, <3>1, <3>2, TablesChained DEF SendsWhole
  <2>2. CASE PmtPacket
    <3>1. HeldStill(conv, conv') /\ OnlyPmt(conv'.packets)
      BY <1>1, <1>2, <2>2, PmtStep
    <3>2. \A q \in ToSet(conv'.packets) : q.kind = "pmt"
      BY <3>1 DEF OnlyPmt, ToSet
    <3> QED
      BY <1>2, <3>1, <3>2, TablesChained DEF SendsWhole
  <2> QED
    BY <1>2, <2>1, <2>2
<1>3. ASSUME NEW pid \in Pids \ TextPids, ReceiveSingle(pid), Noted(0, 0)
      PROVE  Chained' /\ SendsWhole
  <2>1. PICK kind \in {"own", "pcr", "other"} : StreamPacket(Single(pid, kind))
    BY <1>3 DEF ReceiveSingle
  <2> DEFINE p == Single(pid, kind)
  <2>2. p \in PacketSet /\ p.pid = pid /\ p.payload /\ p.start /\ p.of = 1 /\ p.index = 1
    <3>1. p \in PacketSet
      BY <1>3, SingleIs
    <3> QED
      BY <3>1 DEF Single
  <2> HIDE DEF p
  <2>3. /\ conv'.pid = conv.pid
        /\ conv'.pes = conv.pes \/ PesAfter(p)
        /\ \A q \in ToSet(conv'.packets) : q.kind = "id3" =>
             \E r \in Roles : q.unit = Collected(conv.pes[r], p).unit
    BY <1>1, <1>3, <2>1, <2>2, PacketStep DEF p
  <2>4. \A held : Collected(held, p).unit = <<p>>
    BY <2>2 DEF Collected
  <2>5. Complete(<<p>>)
    BY <2>2, OneComplete
  <2>6. HeldStill(conv, conv')
    <3>1. CASE conv'.pes = conv.pes
      BY <2>3, <3>1 DEF HeldStill
    <3>2. ASSUME NEW r \in Roles, conv'.pes = [conv.pes EXCEPT ![r] = Kept(Collected(conv.pes[r], p))]
          PROVE  HeldStill(conv, conv')
      <4> DEFINE g == Collected(conv.pes[r], p)
      <4>1. Complete(g.unit) /\ g \in HeldSet
        BY <1>1, <2>2, <2>4, <2>5, CollectedIs
      <4> HIDE DEF g
      <4>2. Kept(g).unit = << >>
        BY <4>1 DEF Kept, HeldSet
      <4>3. conv'.pes = [conv.pes EXCEPT ![r] = Kept(g)]
        BY <3>2 DEF g
      <4> QED
        BY <1>1, <2>3, <4>2, <4>3 DEF HeldStill
    <3> QED
      BY <2>3, <3>1, <3>2 DEF PesAfter
  <2>7. SendsWhole
    <3>1. \A q \in ToSet(conv'.packets) : q.kind = "id3" => q.unit = <<p>>
      BY <2>3, <2>4
    <3>2. Len(<<p>>) = 1 /\ DOMAIN <<p>> = {1} /\ <<p>>[1] = p
      OBVIOUS
    <3> QED
      BY <2>2, <3>1, <3>2 DEF SendsWhole
  <2> QED
    BY <1>3, <2>6, <2>7, TablesChained DEF ReceiveSingle
<1>4. ASSUME NEW pid \in TextPids, NEW p \in PacketSet, p.pid = pid, StreamPacket(p),
             NEW received, NEW touched, Noted(received, touched),
             \A x \in TextPids : x # pid => source'[x] = source[x],
             \A held \in HeldSet :
               Linked(held, pid, source) /\ ~Complete(held.unit) =>
                 LET g == Collected(held, p)
                 IN  (g.unit # << >> /\ Filled(g.unit)) =>
                       ChainOf(g.unit, pid) /\ Ahead(g, source'[pid])
      PROVE  Chained' /\ SendsWhole
  <2>1. /\ conv'.pid = conv.pid /\ PesAfter(p)
        /\ \A q \in ToSet(conv'.packets) : q.kind = "id3" =>
             \E r \in Roles : /\ conv.pid[r] = p.pid
                              /\ q.unit = Collected(conv.pes[r], p).unit /\ Complete(q.unit)
    BY <1>1, <1>4, PacketStep
  <2>2. ASSUME NEW r \in Roles, conv.pid[r] = pid
        PROVE  Linked(Collected(conv.pes[r], p), pid, source')
    <3>1. conv.pes[r] \in HeldSet /\ Linked(conv.pes[r], pid, source) /\ ~Complete(conv.pes[r].unit)
      BY <1>1, <2>2 DEF Chained, Partial
    <3> QED
      BY <1>4, <3>1 DEF Linked
  <2>3. Chained'
    BY <1>1, <1>4, <2>1, <2>2, ChainedAfter
  <2>4. ASSUME NEW q \in ToSet(conv'.packets), q.kind = "id3", Filled(q.unit)
        PROVE  q.unit \in Seq(PacketSet) /\ Complete(q.unit) /\ ChainOf(q.unit, pid)
    <3>1. PICK r \in Roles : /\ conv.pid[r] = pid
                             /\ q.unit = Collected(conv.pes[r], p).unit /\ Complete(q.unit)
      BY <1>4, <2>1, <2>4
    <3>2. Collected(conv.pes[r], p) \in HeldSet
      BY <1>1, CollectedIs
    <3>3. Linked(Collected(conv.pes[r], p), pid, source')
      BY <2>2, <3>1
    <3>4. q.unit # << >>
      BY <3>1 DEF Complete
    <3> QED
      BY <2>4, <3>1, <3>2, <3>3, <3>4 DEF Linked, HeldSet
  <2>5. SendsWhole
    <3>1. ASSUME NEW q \in ToSet(conv'.packets), q.kind = "id3",
                 \A k \in DOMAIN q.unit : q.unit[k].payload
          PROVE  /\ Len(q.unit) = q.unit[1].of
                 /\ \A k \in DOMAIN q.unit :
                      /\ q.unit[k].index = k
                      /\ q.unit[k].pes = q.unit[1].pes /\ q.unit[k].pid = q.unit[1].pid
      <4>1. Filled(q.unit)
        BY <3>1 DEF Filled
      <4> QED
        BY <2>4, <3>1, <4>1, WholeUnit
    <3> QED
      BY <3>1 DEF SendsWhole
  <2> QED
    BY <2>3, <2>5
<1>5. ASSUME NEW pid \in TextPids, Receive(pid), Noted(pid, 0)
      PROVE  Chained' /\ SendsWhole
  <2> DEFINE p == Following(pid)
  <2>1. p \in PacketSet /\ p.pid = pid /\ StreamPacket(p)
    BY <1>1, <1>5, FollowingIs DEF Receive
  <2>2. /\ \A x \in TextPids : x # pid => source'[x] = source[x]
        /\ source'[pid] = [last |-> p, lost |-> 0]
    BY <1>1, <1>5 DEF Receive, SourceOK
  <2>3. \A held \in HeldSet :
          Linked(held, pid, source) /\ ~Complete(held.unit) =>
            LET g == Collected(held, p)
            IN  (g.unit # << >> /\ Filled(g.unit)) =>
                  ChainOf(g.unit, pid) /\ Ahead(g, source'[pid])
    BY <1>1, <2>2, ReceivedLinked
  <2> HIDE DEF p
  <2> QED
    BY <1>4, <1>5, <2>1, <2>2, <2>3
<1>6. ASSUME NEW pid \in TextPids, Lose(pid), Noted(0, pid)
      PROVE  Chained' /\ SendsWhole
  <2>1. conv'.pid = conv.pid /\ conv'.pes = conv.pes /\ ToSet(conv'.packets) = {}
    BY <1>1, <1>6, LoseStep DEF Lose
  <2>2. /\ \A x \in TextPids : x # pid => source'[x] = source[x]
        /\ source'[pid] = [last |-> Following(pid), lost |-> source[pid].lost + 1]
    BY <1>1, <1>6 DEF Lose, SourceOK
  <2>3. ASSUME NEW r \in Roles
        PROVE  Linked(conv.pes[r], conv.pid[r], source')
    <3> DEFINE held == conv.pes[r]
    <3>1. Linked(held, conv.pid[r], source) /\ held \in HeldSet /\ ~Complete(held.unit)
      BY <1>1 DEF Chained, Partial
    <3> HIDE DEF held
    <3>2. CASE conv.pid[r] = pid
      <4>1. held.unit # << >> /\ Filled(held.unit) => Ahead(held, source'[pid])
        BY <1>1, <2>2, <3>1, <3>2, LostLinked
      <4> QED
        BY <3>1, <3>2, <4>1 DEF Linked, held
    <3>3. CASE conv.pid[r] # pid
      BY <2>2, <3>1, <3>3 DEF Linked, held
    <3> QED
      BY <3>2, <3>3
  <2> QED
    BY <2>1, <2>3 DEF Chained, SendsWhole
<1>7. ASSUME NEW pid \in TextPids, Again(pid), Noted(0, pid)
      PROVE  Chained' /\ SendsWhole
  <2>1. PICK p \in OnceMore(source[pid].last) :
          StreamPacket(p)
    BY <1>7 DEF Again, OnceMore
  <2>2. p \in PacketSet /\ p.pid = pid
    BY <1>1, <2>1, AgainIs
  <2>3. source' = source
    BY <1>7 DEF Again
  <2>4. \A held \in HeldSet :
          Linked(held, pid, source) /\ ~Complete(held.unit) =>
            LET g == Collected(held, p)
            IN  (g.unit # << >> /\ Filled(g.unit)) =>
                  ChainOf(g.unit, pid) /\ Ahead(g, source'[pid])
    BY <1>1, <2>1, <2>3, AgainLinked
  <2> QED
    BY <1>4, <1>7, <2>1, <2>2, <2>3, <2>4
<1> QED
  BY <1>2, <1>3, <1>5, <1>6, <1>7 DEF Next

LEMMA ChainInit ==
  ASSUME Init
  PROVE  Chained
<1>1. PICK opt \in Options :
        conv = [opt |-> opt, pat |-> << >>, firstPid |-> 0, section |-> NoSection, remove |-> {},
                pid |-> [r \in Roles |-> 0], pes |-> [r \in Roles |-> Nothing],
                pcrPid |-> 0, pcr |-> NoTime, id3Pid |-> 0, id3Counter |-> 0, pmtCounter |-> 0,
                last |-> NoTime, packets |-> << >>]
  BY DEF Init
<1>2. \A r \in Roles : conv.pes[r].unit = << >>
  BY <1>1 DEF Nothing
<1> QED
  BY <1>2 DEF Chained, Linked

LEMMA ChainUnchanged ==
  ASSUME Chained, UNCHANGED vars
  PROVE  Chained'
BY DEF Chained, vars

\* Metadata are made of whole PES, each from the packets of one PES and nothing else, unless a
\* packet without payload was taken for it: whatever is lost, comes twice or comes in between,
\* as long as fewer packets are lost in a row than there are counters.
THEOREM WholePes ==
  ASSUME MaxBurst < CounterMod
  PROVE  Spec => Id3Whole
<1>1. Inv /\ Chained /\ [Next]_vars => (Inv /\ Chained)'
  BY InvStep, InvUnchanged, ChainStep, ChainUnchanged
<1>2. Inv /\ Chained /\ [Next]_vars =>
        [\A q \in ToSet(conv'.packets) :
           q.kind = "id3" /\ (\A k \in DOMAIN q.unit : q.unit[k].payload) =>
             /\ Len(q.unit) = q.unit[1].of
             /\ \A k \in DOMAIN q.unit :
                  /\ q.unit[k].index = k
                  /\ q.unit[k].pes = q.unit[1].pes /\ q.unit[k].pid = q.unit[1].pid]_vars
  BY ChainStep DEF SendsWhole
<1>3. Init => Inv /\ Chained
  BY InvInit, ChainInit
<1> QED
  BY <1>1, <1>2, <1>3, PTL DEF Spec, Id3Whole
-----------------------------------------------------------------------------
(* PES that come undisturbed.                                              *)

\* All packets so far of the PES that the last packet of its PID belongs to are held.
HeldSoFar(held, last) ==
  /\ held.unit # << >> /\ held.counter = last.counter /\ Len(held.unit) = last.index
  /\ Filled(held.unit) /\ held.unit[1].of = PesLength /\ held.unit[1].kind = "own"

EntireAt(pid) ==
  intact[pid] /\ source[pid].last.index < PesLength =>
    \E r \in Roles : conv.pid[r] = pid /\ HeldSoFar(conv.pes[r], source[pid].last)

Entire == \A pid \in TextPids : EntireAt(pid)

\* The last packet of a PES that came undisturbed sends metadata that end with it.
SendsAt(pid) ==
  LET p == source'[pid].last
  IN  (source' # source /\ source'[pid] # source[pid] /\ intact'[pid] /\ p.index = PesLength)
        => \E q \in ToSet(conv'.packets) : q.kind = "id3" /\ Last(q.unit) = p

LEMMA OneRole ==
  ASSUME Consistent, NEW pid \in TextPids, NEW r \in Roles, NEW s \in Roles,
         conv.pid[r] = pid, conv.pid[s] = pid
  PROVE  r = s
BY Constants DEF Consistent, Agreed, Roles

LEMMA RoleFound ==
  ASSUME NEW pid, Cardinality(RoleOf(conv, pid)) = 1
  PROVE  \E r \in Roles : conv.pid[r] = pid
<1>1. RoleOf(conv, pid) # {}
  BY FS_EmptySet
<1> QED
  BY <1>1 DEF RoleOf

\* What the history says of a PID that came undisturbed
LEMMA IntactIs ==
  ASSUME NEW received, NEW touched, Noted(received, touched), NEW x \in TextPids, intact'[x]
  PROVE  /\ x # touched /\ (x # received => intact[x])
         /\ source'[x].last.start \/ intact[x]
         /\ \E r \in Roles : conv.pid[r] = x
         /\ \A q \in ToSet(conv'.packets) : q.kind = "pmt" => RoleOf(q.table, x) = RoleOf(conv, x)
<1>1. x # touched /\ Undisturbed(x, x = received)
  BY DEF Noted
<1>2. \E r \in Roles : conv.pid[r] = x
  BY <1>1, RoleFound DEF Undisturbed
<1> QED
  BY <1>1, <1>2 DEF Undisturbed

\* The next packet joins those held, or is the first one of the next PES.
LEMMA HeldFurther ==
  ASSUME SourceOK, NEW pid \in TextPids, NEW held \in HeldSet,
         Following(pid).start \/ HeldSoFar(held, source[pid].last)
  PROVE  /\ HeldSoFar(Collected(held, Following(pid)), Following(pid))
         /\ Last(Collected(held, Following(pid)).unit) = Following(pid)
<1> DEFINE p == Following(pid)
           last == source[pid].last
           g == Collected(held, p)
<1>1. /\ p \in PacketSet /\ p.payload /\ p.of = PesLength /\ p.kind = "own"
      /\ p.counter = Successor(last.counter)
      /\ p.start => p.index = 1
      /\ ~p.start => p.index = last.index + 1
  BY FollowingIs
<1>2. p.start \/ HeldSoFar(held, last)
  OBVIOUS
<1>3. held.unit \in Seq(PacketSet)
  BY DEF HeldSet
<1> HIDE DEF p, last
<1>4. ASSUME p.start
      PROVE  HeldSoFar(g, p) /\ Last(g.unit) = p
  <2> DEFINE u == <<p>>
  <2>1. g = [counter |-> p.counter, unit |-> u]
    BY <1>4 DEF Collected
  <2>2. u # << >> /\ Len(u) = 1 /\ DOMAIN u = {1} /\ u[1] = p /\ Last(u) = p
    BY DEF Last
  <2> HIDE DEF u
  <2>3. g.counter = p.counter /\ g.unit = u
    BY <2>1
  <2> HIDE DEF g
  <2>4. Filled(u)
    BY <1>1, <2>2 DEF Filled
  <2> QED
    BY <1>1, <1>4, <2>2, <2>3, <2>4 DEF HeldSoFar
<1>5. ASSUME ~p.start
      PROVE  HeldSoFar(g, p) /\ Last(g.unit) = p
  <2>1. HeldSoFar(held, last)
    BY <1>2, <1>5
  <2> DEFINE n == Len(held.unit)
             u == Append(held.unit, p)
  <2>2. /\ n \in Nat /\ n >= 1 /\ n = last.index /\ held.counter = last.counter
        /\ held.unit # << >> /\ held.unit[1].of = PesLength /\ held.unit[1].kind = "own"
    BY <1>3, <2>1 DEF HeldSoFar
  <2>3. /\ u # << >> /\ Len(u) = n + 1 /\ DOMAIN u = 1 .. n + 1 /\ u[n + 1] = p
        /\ \A k \in 1 .. n : k \in DOMAIN held.unit /\ u[k] = held.unit[k]
    BY <1>1, <1>3, <2>2
  <2>4. Successor(held.counter) = p.counter
    BY <1>1, <2>2
  <2>5. g = [counter |-> Successor(held.counter), unit |-> u]
    BY <1>5, <2>2, <2>4 DEF Collected, Continued
  <2> HIDE DEF u, n
  <2>6. g.counter = p.counter /\ g.unit = u
    BY <2>4, <2>5
  <2> HIDE DEF g
  <2>7. u[1] = held.unit[1] /\ Last(u) = p
    BY <2>2, <2>3 DEF Last
  <2>8. ASSUME NEW k \in 1 .. n + 1
        PROVE  u[k].payload
    <3>1. CASE k = n + 1
      BY <1>1, <2>3, <3>1
    <3>2. CASE k # n + 1
      <4>1. k \in 1 .. n
        BY <2>2, <3>2
      <4> QED
        BY <2>1, <2>3, <4>1 DEF HeldSoFar, Filled
    <3> QED
      BY <3>1, <3>2
  <2>9. Filled(u)
    BY <2>3, <2>8 DEF Filled
  <2>10. HeldSoFar(g, p)
    BY <1>1, <1>5, <2>2, <2>3, <2>6, <2>7, <2>9 DEF HeldSoFar
  <2> QED
    BY <2>6, <2>7, <2>10
<1>6. HeldSoFar(g, p) /\ Last(g.unit) = p
  BY <1>4, <1>5
<1> QED
  BY <1>6 DEF p

\* It is all there with the last packet, and not before.
LEMMA HeldComplete ==
  ASSUME NEW held \in HeldSet, NEW last, last.index \in Nat, HeldSoFar(held, last)
  PROVE  /\ Complete(held.unit) => last.index >= PesLength
         /\ last.index >= PesLength => Complete(held.unit)
<1>1. held.unit \in Seq(PacketSet) /\ held.unit # << >> /\ Filled(held.unit)
  BY DEF HeldSet, HeldSoFar
<1>2. Complete(held.unit) <=> Len(held.unit) >= held.unit[1].of
  BY <1>1, FilledComplete
<1>3. Len(held.unit) = last.index /\ held.unit[1].of = PesLength
  BY DEF HeldSoFar
<1> QED
  BY <1>2, <1>3

-----------------------------------------------------------------------------
(* What is sent and what is kept.                                          *)

\* A PES with a PTS of its own is sent as soon as it is all there.
LEMMA OwnConverted ==
  ASSUME NEW f \in ConvSet, f.packets = << >>, NEW r \in Roles, NEW p \in PacketSet,
         NEW g \in AddText(f, r, p), NEW held, held = Collected(f.pes[r], p),
         Complete(held.unit), held.unit[1].kind = "own"
  PROVE  \E q \in ToSet(g.packets) : q.kind = "id3" /\ q.unit = held.unit
<1> DEFINE pes == [f.pes EXCEPT ![r] = [held EXCEPT !.unit = << >>]]
           h == [f EXCEPT !.pes = pes]
<1>1. f.pes \in [Roles -> HeldSet] /\ held \in HeldSet
  BY CollectedIs DEF ConvSet
<1>2. [held EXCEPT !.unit = << >>] \in HeldSet /\ held.unit \in Seq(PacketSet)
  <2>1. << >> \in Seq(PacketSet)
    OBVIOUS
  <2> QED
    BY <1>1, <2>1 DEF HeldSet
<1>3. pes \in [Roles -> HeldSet]
  BY <1>1, <1>2
<1>4. AddText(f, r, p) = Converted(h, held.unit)
  <2>1. [f EXCEPT !.pes[r] = [held EXCEPT !.unit = << >>]] = h
    BY DEF ConvSet
  <2> QED
    BY <2>1 DEF AddText
<1> HIDE DEF pes
<1>5. h \in ConvSet /\ h.packets = << >>
  BY <1>3 DEF ConvSet
<1> HIDE DEF h
<1>6. Converted(h, held.unit) = {SentText(h, held.unit, pts) : pts \in Times}
  BY DEF Converted, SentText
<1>7. PICK pts \in Times : g = SentText(h, held.unit, pts)
  BY <1>4, <1>6
<1>8. Sends(g.packets, h.id3Pid, held.unit, h.opt.monotonous, h.last, g.last)
  BY <1>2, <1>5, <1>7, SentTextIs
<1>9. PICK sent \in Times :
        g.packets = <<[pid |-> h.id3Pid, kind |-> "id3", pts |-> sent, unit |-> held.unit]>>
  BY <1>8 DEF Sends
<1> DEFINE q == [pid |-> h.id3Pid, kind |-> "id3", pts |-> sent, unit |-> held.unit]
<1>10. q.kind = "id3" /\ q.unit = held.unit
  OBVIOUS
<1>11. g.packets = <<q>>
  BY <1>9
<1> HIDE DEF q
<1>12. q \in ToSet(g.packets)
  BY <1>11 DEF ToSet
<1> QED
  BY <1>10, <1>12

LEMMA OwnSent ==
  ASSUME Consistent, NEW p \in PacketSet, p.pid \in TextPids, StreamPacket(p),
         NEW r \in Roles, conv.pid[r] = p.pid, NEW held, held = Collected(conv.pes[r], p),
         Complete(held.unit), held.unit[1].kind = "own"
  PROVE  \E q \in ToSet(conv'.packets) : q.kind = "id3" /\ q.unit = held.unit
<1> DEFINE f == [conv EXCEPT !.packets = << >>]
           pass == [pid |-> p.pid, kind |-> "packet"]
<1>1. /\ f \in ConvSet /\ f.packets = << >> /\ f.pcrPid = conv.pcrPid /\ f.remove = conv.remove
      /\ f.pid = conv.pid /\ f.pes = conv.pes
  <2>1. << >> \in Seq(SentSet)
    OBVIOUS
  <2> QED
    BY <2>1 DEF Consistent, ConvSet
<1>2. conv' \in IF p.pid = f.pcrPid THEN {Out([f EXCEPT !.pcr = t], pass) : t \in Times \cup {f.pcr}}
                ELSE IF p.pid \notin f.remove THEN {Out(f, pass)}
                ELSE IF p.pid = f.pid["caption"] THEN AddText(f, "caption", p)
                ELSE IF p.pid = f.pid["superimpose"] THEN AddText(f, "superimpose", p)
                ELSE {f}
  BY DEF StreamPacket
<1> HIDE DEF f, pass
<1>3. p.pid # conv.pcrPid /\ p.pid # 0 /\ p.pid \in conv.remove
  BY Constants DEF Consistent, ConvSet, Agreed
<1>4. conv' \in AddText(f, r, p)
  <2>1. p.pid = f.pid["caption"] => r = "caption"
    BY <1>1, OneRole DEF Roles
  <2> QED
    BY <1>1, <1>2, <1>3, <2>1 DEF Roles
<1> QED
  BY <1>1, <1>4, OwnConverted

\* What is held for a role after a packet of a stream
LEMMA RoleAfter ==
  ASSUME Consistent, NEW p, PesAfter(p), NEW x \in TextPids, NEW r \in Roles, conv.pid[r] = x
  PROVE  /\ p.pid = x => conv'.pes[r] = Kept(Collected(conv.pes[r], p))
         /\ p.pid # x => conv'.pes[r] = conv.pes[r]
<1>1. conv.pes \in [Roles -> HeldSet]
  BY DEF Consistent, ConvSet
<1>2. CASE conv'.pes = conv.pes /\ \A s \in Roles : conv.pid[s] # p.pid
  BY <1>2
<1>3. ASSUME NEW s \in Roles, conv.pid[s] = p.pid,
             conv'.pes = [conv.pes EXCEPT ![s] = Kept(Collected(conv.pes[s], p))]
      PROVE  /\ p.pid = x => conv'.pes[r] = Kept(Collected(conv.pes[r], p))
             /\ p.pid # x => conv'.pes[r] = conv.pes[r]
  <2>1. p.pid = x => s = r
    BY <1>3, OneRole
  <2> QED
    BY <1>1, <1>3, <2>1
<1> QED
  BY <1>2, <1>3 DEF PesAfter

\* A call that changes the tables sends what was sent before too, and leaves a role alone
\* that has the same PID in the PMT it sends.
LEMMA RoleKept ==
  ASSUME NEW f \in ConvSet, f.firstPid # 0, NEW section \in Sections[f.firstPid] \cup {NoSection}
  PROVE  LET g == Extracted(f, section)
         IN  /\ g \in ConvSet /\ g.firstPid = f.firstPid
             /\ ToSet(f.packets) \subseteq ToSet(g.packets)
             /\ \A r \in Roles, x \in TextPids :
                  f.pid[r] = x
                  /\ (\A q \in ToSet(g.packets) : q.kind = "pmt" => q.table.pid[r] = x)
                    => g.pid[r] = x /\ g.pes[r] = f.pes[r]
<1> DEFINE h == [f EXCEPT !.section = section]
<1>1. f.firstPid \in DOMAIN Sections
  BY DEF ConvSet
<1>2. section \in SectionSet \cup {NoSection}
  BY <1>1 DEF SectionSet
<1>3. /\ h \in ConvSet /\ h.firstPid = f.firstPid /\ h.packets = f.packets
      /\ h.pid = f.pid /\ h.pes = f.pes
  BY <1>2 DEF ConvSet
<1>4. Extracted(f, section) = IF section = NoSection THEN h ELSE AddPmt(h, section)
  BY DEF Extracted
<1> HIDE DEF h
<1>5. CASE section = NoSection
  BY <1>3, <1>4, <1>5
<1>6. CASE section # NoSection /\ ~section.fits
  <2> DEFINE g == AddPmt(h, section)
  <2>1. section \in SectionSet
    BY <1>2, <1>6
  <2>2. g \in ConvSet /\ \A field \in DOMAIN h \ {"pcrPid", "pcr"} : g[field] = h[field]
    BY <1>3, <1>6, <2>1, UnfitPmt
  <2>3. {"firstPid", "packets", "pid", "pes"} \subseteq DOMAIN h \ {"pcrPid", "pcr"}
    BY <1>3 DEF ConvSet
  <2> HIDE DEF g
  <2>4. g.firstPid = h.firstPid /\ g.packets = h.packets /\ g.pid = h.pid /\ g.pes = h.pes
    BY <2>2, <2>3
  <2> QED
    BY <1>3, <1>4, <1>6, <2>2, <2>4 DEF g
<1>7. CASE section # NoSection /\ section.fits
  <2> DEFINE g == AddPmt(h, section)
             q == PmtOut(h, section)
             pids == PidsOf(h, section)
  <2>1. section \in SectionSet
    BY <1>2, <1>7
  <2>2. /\ q \in PmtSet /\ g.pid = pids /\ g.pes = HeldUnlessMoved(h, pids)
        /\ g.packets = Append(h.packets, q) /\ g \in ConvSet /\ g.firstPid = h.firstPid
    BY <1>3, <1>7, <2>1, FitPmt
  <2>3. q.kind = "pmt" /\ q.table.pid = pids
    BY DEF PmtOut, TableOf
  <2> HIDE DEF g, q, pids
  <2>4. h.packets \in Seq(SentSet) /\ q \in SentSet
    BY <1>3, <2>2 DEF ConvSet, SentSet
  <2>5. ToSet(g.packets) = ToSet(h.packets) \cup {q}
    BY <2>2, <2>4, LastAppended
  <2>6. ASSUME NEW r \in Roles, h.pid[r] = pids[r]
        PROVE  g.pes[r] = h.pes[r]
    BY <2>2, <2>6 DEF HeldUnlessMoved
  <2>7. q \in ToSet(g.packets)
    BY <2>5
  <2>8. ASSUME NEW r \in Roles, NEW x \in TextPids, f.pid[r] = x,
               \A u \in ToSet(g.packets) : u.kind = "pmt" => u.table.pid[r] = x
        PROVE  g.pid[r] = x /\ g.pes[r] = f.pes[r]
    <3>1. pids[r] = x
      BY <2>3, <2>7, <2>8
    <3> QED
      BY <1>3, <2>2, <2>6, <2>8, <3>1
  <2>9. Extracted(f, section) = g
    BY <1>4, <1>7 DEF g
  <2> QED
    BY <1>3, <2>2, <2>5, <2>8, <2>9
<1> QED
  BY <1>5, <1>6, <1>7

LEMMA PmtKept ==
  ASSUME Consistent, PmtPacket, NEW x \in TextPids, NEW r \in Roles, conv.pid[r] = x,
         \A q \in ToSet(conv'.packets) : q.kind = "pmt" => RoleOf(q.table, x) = RoleOf(conv, x)
  PROVE  conv'.pid[r] = x /\ conv'.pes[r] = conv.pes[r]
<1> DEFINE e == [conv EXCEPT !.packets = << >>]
           Told(g) == \A q \in ToSet(g.packets) : q.kind = "pmt" => q.table.pid[r] = x
<1>1. /\ e \in ConvSet /\ e.firstPid = conv.firstPid /\ e.pid = conv.pid /\ e.pes = conv.pes
  <2>1. << >> \in Seq(SentSet)
    OBVIOUS
  <2> QED
    BY <2>1 DEF Consistent, ConvSet
<1>2. conv.firstPid # 0
  BY DEF PmtPacket
<1>3. PICK first \in Sections[conv.firstPid] \cup {conv.section, NoSection} :
        \/ conv' = Extracted(e, first)
        \/ \E second \in Sections[conv.firstPid] \cup {NoSection} :
             conv' = Extracted(Extracted(e, first), second)
  BY DEF PmtPacket
<1> HIDE DEF e
<1>4. first \in Sections[conv.firstPid] \cup {NoSection}
  BY <1>3 DEF Consistent, SectionHeld
<1>5. Told(conv')
  <2>1. r \in RoleOf(conv, x)
    BY DEF RoleOf
  <2> QED
    BY <2>1 DEF RoleOf
<1> DEFINE f == Extracted(e, first)
<1>6. /\ f \in ConvSet /\ f.firstPid = conv.firstPid
      /\ Told(f) => f.pid[r] = x /\ f.pes[r] = conv.pes[r]
  BY <1>1, <1>2, <1>4, RoleKept
<1>7. CASE conv' = f
  BY <1>5, <1>6, <1>7
<1>8. ASSUME NEW second \in Sections[conv.firstPid] \cup {NoSection}, conv' = Extracted(f, second)
      PROVE  conv'.pid[r] = x /\ conv'.pes[r] = conv.pes[r]
  <2> HIDE DEF f
  <2>1. /\ ToSet(f.packets) \subseteq ToSet(conv'.packets)
        /\ f.pid[r] = x /\ Told(conv') => conv'.pid[r] = x /\ conv'.pes[r] = f.pes[r]
    <3>1. second \in Sections[f.firstPid] \cup {NoSection} /\ f.firstPid # 0
      BY <1>2, <1>6
    <3> QED
      BY <1>6, <1>8, <3>1, RoleKept
  <2>2. Told(f)
    BY <1>5, <2>1
  <2> QED
    BY <1>5, <1>6, <2>1, <2>2
<1> QED
  BY <1>3, <1>7, <1>8

-----------------------------------------------------------------------------
(* The steps of it.                                                        *)

\* Nothing changes for a PID whose role keeps what it holds.
LEMMA EntireKept ==
  ASSUME NEW x, EntireAt(x), intact'[x] => intact[x], source'[x] = source[x],
         \A r \in Roles : intact'[x] /\ conv.pid[r] = x => conv'.pid[r] = x /\ conv'.pes[r] = conv.pes[r]
  PROVE  EntireAt(x)'
BY DEF EntireAt

LEMMA EntireReceive ==
  ASSUME Inv, Entire, NEW pid \in TextPids, Receive(pid), Noted(pid, 0)
  PROVE  EntireAt(pid)' /\ SendsAt(pid)
<1> DEFINE p == Following(pid)
<1>1. /\ Consistent /\ SourceOK /\ conv.pes \in [Roles -> HeldSet]
      /\ source \in [TextPids -> [last : PacketSet, lost : 0 .. MaxBurst]]
  BY DEF Inv, Consistent, ConvSet, SourceOK
<1>2. /\ p \in PacketSet /\ p.pid = pid /\ p.index \in 1 .. PesLength
      /\ p.start = ~(source[pid].last.index < PesLength)
  BY <1>1, FollowingIs
<1>3. StreamPacket(p) /\ source'[pid].last = p
  BY <1>1 DEF Receive
<1>4. ASSUME intact'[pid]
      PROVE  /\ \E r \in Roles : conv'.pid[r] = pid /\ (p.index < PesLength => HeldSoFar(conv'.pes[r], p))
             /\ p.index = PesLength => \E q \in ToSet(conv'.packets) : q.kind = "id3" /\ Last(q.unit) = p
  <2>1. (p.start \/ intact[pid]) /\ \E r \in Roles : conv.pid[r] = pid
    BY <1>3, <1>4, IntactIs
  <2>2. \E r \in Roles : conv.pid[r] = pid /\ (p.start \/ HeldSoFar(conv.pes[r], source[pid].last))
    BY <1>2, <2>1 DEF Entire, EntireAt
  <2>3. PICK r \in Roles : conv.pid[r] = pid /\ (p.start \/ HeldSoFar(conv.pes[r], source[pid].last))
    BY <2>2
  <2> DEFINE g == Collected(conv.pes[r], p)
  <2>4. g \in HeldSet /\ HeldSoFar(g, p) /\ Last(g.unit) = p
    <3>1. conv.pes[r] \in HeldSet
      BY <1>1
    <3> QED
      BY <1>1, <1>2, <2>3, <3>1, HeldFurther, CollectedIs
  <2>5. conv'.pid = conv.pid /\ conv'.pes[r] = Kept(g)
    <3>1. conv'.pid = conv.pid /\ PesAfter(p)
      BY <1>1, <1>2, <1>3, PacketStep
    <3> QED
      BY <1>1, <1>2, <2>3, <3>1, RoleAfter
  <2>6. g = Collected(conv.pes[r], p)
    OBVIOUS
  <2> HIDE DEF g, p
  <2>7. /\ Complete(g.unit) => p.index >= PesLength
        /\ p.index >= PesLength => Complete(g.unit)
    <3>1. p.index \in Nat
      BY <1>2, Constants
    <3> QED
      BY <2>4, <3>1, HeldComplete
  <2>8. ASSUME p.index < PesLength
        PROVE  HeldSoFar(conv'.pes[r], p)
    <3>1. ~(p.index >= PesLength)
      BY <1>2, <2>8, Constants
    <3>2. ~Complete(g.unit)
      BY <2>7, <3>1
    <3> QED
      BY <2>4, <2>5, <3>2 DEF Kept
  <2>9. ASSUME p.index = PesLength
        PROVE  \E q \in ToSet(conv'.packets) : q.kind = "id3" /\ Last(q.unit) = p
    <3>1. p.index >= PesLength
      BY <1>2, <2>9, Constants
    <3>2. Complete(g.unit) /\ g.unit[1].kind = "own"
      BY <2>4, <2>7, <3>1 DEF HeldSoFar
    <3>3. PICK q \in ToSet(conv'.packets) : q.kind = "id3" /\ q.unit = g.unit
      BY <1>1, <1>2, <1>3, <2>3, <2>6, <3>2, OwnSent
    <3> QED
      BY <2>4, <3>3
  <2> QED
    BY <2>3, <2>5, <2>8, <2>9
<1> HIDE DEF p
<1>5. EntireAt(pid)'
  BY <1>3, <1>4 DEF EntireAt
<1>6. SendsAt(pid)
  BY <1>3, <1>4 DEF SendsAt
<1> QED
  BY <1>5, <1>6

LEMMA EntireStep ==
  ASSUME Inv, Entire, Next, NEW x \in TextPids
  PROVE  EntireAt(x)' /\ SendsAt(x)
<1>1. Consistent /\ SourceOK /\ EntireAt(x)
  BY DEF Inv, Entire
<1>2. ASSUME source'[x] = source[x], intact'[x] => intact[x],
             \A r \in Roles : intact'[x] /\ conv.pid[r] = x =>
               conv'.pid[r] = x /\ conv'.pes[r] = conv.pes[r]
      PROVE  EntireAt(x)' /\ SendsAt(x)
  BY <1>1, <1>2, EntireKept DEF SendsAt
<1>3. CASE (PatPacket \/ PmtPacket) /\ UNCHANGED source /\ Noted(0, 0)
  <2>1. x # 0
    BY Constants
  <2>2. /\ intact'[x] => intact[x]
        /\ intact'[x] => \A q \in ToSet(conv'.packets) : q.kind = "pmt" => RoleOf(q.table, x) = RoleOf(conv, x)
    BY <1>3, <2>1, IntactIs
  <2>3. \A r \in Roles : intact'[x] /\ conv.pid[r] = x => conv'.pid[r] = x /\ conv'.pes[r] = conv.pes[r]
    <3>1. CASE PatPacket
      BY <1>1, <1>3, <3>1, PatStep
    <3>2. CASE PmtPacket
      BY <1>1, <2>2, <3>2, PmtKept
    <3> QED
      BY <1>3, <3>1, <3>2
  <2> QED
    BY <1>2, <1>3, <2>2, <2>3
<1>4. ASSUME NEW pid \in Pids \ {x}, NEW p \in PacketSet, p.pid = pid, StreamPacket(p),
             source'[x] = source[x], NEW received, received # x, NEW touched, Noted(received, touched)
      PROVE  EntireAt(x)' /\ SendsAt(x)
  <2>1. conv'.pid = conv.pid /\ (conv'.pes = conv.pes \/ PesAfter(p))
    BY <1>1, <1>4, PacketStep
  <2>2. intact'[x] => intact[x]
    BY <1>4, IntactIs
  <2>3. \A r \in Roles : conv.pid[r] = x => conv'.pid[r] = x /\ conv'.pes[r] = conv.pes[r]
    BY <1>1, <1>4, <2>1, RoleAfter
  <2> QED
    BY <1>2, <1>4, <2>2, <2>3
<1>5. ASSUME NEW pid \in Pids \ TextPids, ReceiveSingle(pid), Noted(0, 0)
      PROVE  EntireAt(x)' /\ SendsAt(x)
  <2>1. PICK kind \in {"own", "pcr", "other"} : StreamPacket(Single(pid, kind))
    BY <1>5 DEF ReceiveSingle
  <2>2. Single(pid, kind) \in PacketSet /\ Single(pid, kind).pid = pid
    BY SingleIs DEF Single
  <2>3. pid \in Pids \ {x} /\ x # 0 /\ source'[x] = source[x]
    BY <1>5, Constants DEF ReceiveSingle
  <2> QED
    BY <1>4, <1>5, <2>1, <2>2, <2>3
<1>6. ASSUME NEW pid \in TextPids, Receive(pid), Noted(pid, 0)
      PROVE  EntireAt(x)' /\ SendsAt(x)
  <2>1. CASE pid = x
    BY <1>6, <2>1, EntireReceive
  <2>2. CASE pid # x
    <3>1. /\ Following(pid) \in PacketSet /\ Following(pid).pid = pid
          /\ StreamPacket(Following(pid))
      BY <1>1, <1>6, FollowingIs DEF Receive
    <3>2. pid \in Pids \ {x} /\ source'[x] = source[x]
      BY <1>1, <1>6, <2>2, Constants DEF Receive, SourceOK
    <3> QED
      BY <1>4, <1>6, <2>2, <3>1, <3>2
  <2> QED
    BY <2>1, <2>2
<1>7. ASSUME NEW pid \in TextPids, Lose(pid) \/ Again(pid), Noted(0, pid)
      PROVE  EntireAt(x)' /\ SendsAt(x)
  <2>1. x # 0
    BY Constants
  <2>2. CASE pid = x
    <3>1. ~intact'[x]
      BY <1>7, <2>2, IntactIs
    <3> QED
      BY <3>1 DEF EntireAt, SendsAt
  <2>3. CASE pid # x /\ Lose(pid)
    <3>1. conv'.pid = conv.pid /\ conv'.pes = conv.pes
      BY <1>1, <1>7, <2>3, LoseStep DEF Lose
    <3>2. source'[x] = source[x]
      BY <1>1, <2>3 DEF Lose, SourceOK
    <3>3. intact'[x] => intact[x]
      BY <1>7, <2>1, IntactIs
    <3> QED
      BY <1>2, <3>1, <3>2, <3>3
  <2>4. CASE pid # x /\ Again(pid)
    <3>1. PICK p \in OnceMore(source[pid].last) : StreamPacket(p)
      BY <2>4 DEF Again, OnceMore
    <3>2. p \in PacketSet /\ p.pid = pid
      BY <1>1, <3>1, AgainIs
    <3>3. pid \in Pids \ {x} /\ source'[x] = source[x]
      BY <2>4, Constants DEF Again
    <3> QED
      BY <1>4, <1>7, <2>1, <3>1, <3>2, <3>3
  <2> QED
    BY <1>7, <2>2, <2>3, <2>4
<1> QED
  BY <1>3, <1>5, <1>6, <1>7 DEF Next

LEMMA EntireInit ==
  ASSUME Init
  PROVE  Entire
BY DEF Init, Entire, EntireAt

LEMMA EntireUnchanged ==
  ASSUME Entire, UNCHANGED vars
  PROVE  Entire'
BY DEF Entire, EntireAt, vars

\* A PES of captions that came undisturbed is converted with its last packet: whatever comes on
\* other PIDs, is lost or repeated there, and whatever PAT and PMT come in between, as long as
\* they leave the stream its role.
THEOREM PesAreConverted == Spec => Id3Complete
<1>1. Inv /\ Entire /\ [Next]_vars => (Inv /\ Entire)'
  BY InvStep, InvUnchanged, EntireStep, EntireUnchanged DEF Entire
<1>2. Inv /\ Entire /\ [Next]_vars =>
        [\A pid \in TextPids :
           LET p == source'[pid].last
           IN  (source' # source /\ source'[pid] # source[pid] /\ intact'[pid]
                  /\ p.index = PesLength)
                 => \E q \in ToSet(conv'.packets) : q.kind = "id3" /\ Last(q.unit) = p]_vars
  BY EntireStep DEF SendsAt
<1>3. Init => Inv /\ Entire
  BY InvInit, EntireInit
<1> QED
  BY <1>1, <1>2, <1>3, PTL DEF Spec, Id3Complete
=============================================================================
