---------------------------- MODULE ServiceFilter ----------------------------
(***************************************************************************)
(* CServiceFilter::AddPacket: one program of a transport stream is kept,   *)
(* its streams are moved to fixed PIDs, its tables rewritten, and streams  *)
(* that are missing are inserted (silence, caption management).            *)
(*                                                                         *)
(* The sources of the stream and the reception are the environment: every  *)
(* PID counts its packets, audio PIDs send PES of several packets, and the *)
(* reception loses packets, repeats them or brings some without payload.   *)
(***************************************************************************)
EXTENDS ServiceTables

CONSTANTS Options,     \* the command lines: [program, mode, stereo, dualMono, insert]
          Pats,        \* the PATs that may come: sequences of [program, pid]
          Sections,    \* the PMT sections that may come
          Pids,        \* the PIDs that carry something else
          AudioPids,   \* those of them that send PES of several packets
          PesLengths,  \* packets that the length field of a PES may ask for
          PesMod,      \* bound: PES are numbered modulo this
          MaxBurst,    \* bound: packets lost in a row on a PID
          Steps,       \* how far the clock moves between two PCRs
          Lead,        \* how far the PTS of audio is past the PCR
          Repeats,     \* may packets be repeated or come without payload
          LowPids      \* the PIDs below 0x0030

ASSUME FilterAssumption ==
  /\ AudioPids \cup LowPids \subseteq Pids /\ 0 \notin Pids
  /\ \A opt \in Options : /\ opt.program # 0
                           /\ opt.mode \in [AudioSlots \cup TextSlots -> 0 .. 3]
  /\ PesLengths \subseteq Nat \ {0}
  /\ MaxBurst \in Nat /\ PesMod \in Nat \ {0}
  /\ Steps \subseteq Nat /\ Lead \in Times /\ Repeats \in BOOLEAN

\* A section asks for packets, and its streams have a PID each.
ASSUME SectionAssumption ==
  \A s \in Sections :
    /\ s.program # 0 /\ s.parts \in Nat
    /\ s.es \in Seq([type : STRING, tag : STRING, pid : Nat \ {0}])
    /\ \A i, j \in DOMAIN s.es : s.es[i].pid = s.es[j].pid => i = j

VARIABLES
  filter,   \* the members of CServiceFilter
  clock,    \* the system clock of the source
  source    \* per PID: the last packet sent and how many were lost since

vars == <<filter, clock, source>>

(***************************************************************************)
(* filter.opt       m_programNumberOrIndex and the modes                   *)
(* filter.pat       m_pat.pmt              filter.section  m_pmtPsi        *)
(* filter.es        the selected streams (m_videoPid ...)                  *)
(* filter.pcrPid, pcr, dualMono            m_pcrPid, m_pcr, m_isAudio1DualMono *)
(* filter.counter   the continuity counters sent                           *)
(* filter.last      m_lastPat, m_lastPmt                                   *)
(* filter.unit, pts, diff                  m_audioXUnitPackets, Pts, PtsPcrDiff *)
(* filter.since     m_captionManagementPcr, m_superimposeManagementPcr     *)
(* filter.packets   m_packets, which main() clears before every packet     *)
(***************************************************************************)

NoSection == [program |-> 0]

\* m_captionPesCounter: 0xff before the first packet, then the counter received
\* with the flag 0x10, from the first insertion on the counter sent.
Unset     == 3 * CounterMod - 1
Followed(c) == CounterMod + c

-----------------------------------------------------------------------------
(* What a PCR sets off.                                                    *)

Out(f, packets) == [f EXCEPT !.packets = @ \o packets]

\* Silence up to the PTS that belongs to the PCR.
InsertSilence(f, a) ==
  LET target == Later(f.pcr, f.diff[a])
      from   == Resume(f.pts[a], target)
      n      == Frames(from, target)
  IN  Out([f EXCEPT !.pts[a] = Later(from, n * Frame),
                    !.counter[a] = (@ + n) % CounterMod],
          [i \in 1 .. n |-> [pid |-> a, kind |-> "silence",
                             counter |-> (f.counter[a] + i) % CounterMod, count |-> 1,
                             pts |-> Later(from, (i - 1) * Frame)]])

NeedsSilence(f, a) ==
  /\ Pid(f, a) = 0
  /\ \/ f.opt.mode[a] = 1
     \/ a = "audio2" /\ f.opt.mode[a] = 3 /\ Pid(f, "audio1") = 0
  /\ a = "audio2" => ~f.dualMono

Silence1(f) == IF NeedsSilence(f, "audio1") THEN InsertSilence(f, "audio1") ELSE f

\* The second audio starts from the distance measured on the first.
Silence2(f) ==
  IF NeedsSilence(f, "audio2")
  THEN InsertSilence([f EXCEPT !.diff["audio2"] = IF @ < 0 THEN f.diff["audio1"] ELSE @],
                     "audio2")
  ELSE f

\* A management packet, if the stream of captions has been silent for too long.
Manage(f, x) ==
  LET counter == (f.counter[x] + 1) % CounterMod
      inserted == Out([f EXCEPT !.counter[x] = counter],
                      <<[pid |-> x, kind |-> "management", counter |-> counter, count |-> 1]>>)
      watched == /\ f.since[x] # NoTime /\ f.opt.insert[x]
                 /\ Pid(f, x) # 0 \/ f.opt.mode[x] = 1
  IN  IF ~watched THEN [f EXCEPT !.since[x] = f.pcr]
      ELSE IF ~Absent(f.pcr, f.since[x]) THEN f
      ELSE [(IF Plausible(f.pcr, f.since[x]) THEN inserted ELSE f)
              EXCEPT !.since[x] = NextDue(f.pcr)]

AddPcr(f, p) ==
  LET alone == ~\E x \in Slots : Pid(f, x) = p.pid
      timed == [(IF alone THEN Out(f, <<[pid |-> "PCR", kind |-> "pcr", counter |-> 0,
                                         count |-> 0]>>) ELSE f) EXCEPT !.pcr = p.pcr]
  IN  Manage(Manage(Silence2(Silence1(timed)), "caption"), "superimpose")

-----------------------------------------------------------------------------
(* The streams.                                                            *)

\* Fault: the packets of a PES all count as one.
AddPesOnce(f, a, kind, unit, n) ==
  Out([f EXCEPT !.counter[a] = Successor(@),
                !.diff[a] = IF f.pcr # NoTime THEN Past(unit[1].pts, f.pcr) ELSE @],
      <<[pid |-> a, kind |-> kind, counter |-> Successor(f.counter[a]), count |-> n,
         unit |-> unit]>>)

\* A PES goes out as n packets; its PTS tells how far audio is past the PCR.
AddPes(f, a, kind, unit, n) ==
  Out([f EXCEPT !.counter[a] = (@ + n) % CounterMod,
                !.diff[a] = IF f.pcr # NoTime THEN Past(unit[1].pts, f.pcr) ELSE @],
      <<[pid |-> a, kind |-> kind, counter |-> Successor(f.counter[a]), count |-> n,
         unit |-> unit]>>)

\* The type of a stream held as ADTS, which alone is converted.
Adts(f, a) == f.es[a].type = "adts"

\* TransmuxMonoToStereo may send a PES with more data on slot a; whether it can
\* depends on what the PES contains.
Stereo(f, a, unit, from) ==
  IF f.opt.stereo[a] /\ Adts(f, from) THEN {AddPes(f, a, "stereo", unit, Len(unit) + 1)} ELSE {}

\* TransmuxDualMono may send the halves of a PES on the two slots, the right one unless
\* there is a second audio or none is wanted.
DualMono(f, unit) ==
  LET left == AddPes([f EXCEPT !.dualMono = TRUE], "audio1", "left", unit, Len(unit))
  IN  IF ~f.opt.dualMono \/ ~Adts(f, "audio1") THEN {}
      ELSE IF Pid(f, "audio2") = 0 /\ f.opt.mode["audio2"] # 2
      THEN {AddPes(left, "audio2", "right", unit, Len(unit))}
      ELSE {left}

\* What may become of a PES of the first audio, which the second one may copy.
Audio1Pes(f) ==
  LET unit == f.unit["audio1"]
      g    == [f EXCEPT !.unit["audio1"] = << >>, !.dualMono = FALSE]
      copy == f.opt.mode["audio2"] = 3 /\ Pid(f, "audio2") = 0
      Sent(h, a) == {AddPes(h, a, "pes", unit, Len(unit))} \cup Stereo(h, a, unit, "audio1")
  IN  DualMono(g, unit) \cup
      UNION {IF copy THEN Sent(h, "audio2") ELSE {h} : h \in Sent(g, "audio1")}

Audio2Pes(f) ==
  LET unit == f.unit["audio2"]
      g    == [f EXCEPT !.unit["audio2"] = << >>]
  IN  {AddPes(g, "audio2", "pes", unit, Len(unit))} \cup Stereo(g, "audio2", unit, "audio2")

AddAudio(f, a, p) ==
  LET g == [f EXCEPT !.unit[a] = Accumulated(@, p)]
  IN  IF ~Whole(g.unit[a]) THEN {g}
      ELSE IF a = "audio1" THEN Audio1Pes(g) ELSE Audio2Pes(g)

\* Fault: the counter received is used again after an insertion.
AddTextFollowing(f, x, p) ==
  Out([f EXCEPT !.since[x] = f.pcr, !.counter[x] = Followed(p.counter)],
      <<[pid |-> x, kind |-> "text", counter |-> p.counter, count |-> 1, unit |-> <<p>>]>>)

\* A packet of captions counts as a sign of life.
AddText(f, x, p) ==
  LET counter == IF f.counter[x] >= CounterMod THEN Followed(p.counter)
                 ELSE Successor(f.counter[x])
  IN  Out([f EXCEPT !.since[x] = f.pcr, !.counter[x] = counter],
          <<[pid |-> x, kind |-> "text", counter |-> counter % CounterMod, count |-> 1,
             unit |-> <<p>>]>>)

FirstOfSlots(f, pid) ==
  LET on == {i \in DOMAIN SlotOrder : Pid(f, SlotOrder[i]) = pid}
  IN  IF on = {} THEN "" ELSE SlotOrder[Min(on)]

\* A packet that goes out with the counter it came with.
Pass(f, pid, p) ==
  Out(f, <<[pid |-> pid, kind |-> "packet", counter |-> p.counter, count |-> 1, unit |-> <<p>>]>>)

\* The first slot that the PID was selected for takes the packet; service information
\* on low PIDs passes, and the NIT wherever it is.
Dispatch(f, p) ==
  LET on == FirstOfSlots(f, p.pid)
  IN  IF on \in AudioSlots THEN AddAudio(f, on, p)
      ELSE {IF on \in TextSlots THEN AddText(f, on, p)
            ELSE IF on = "video" THEN Pass(f, "video", p)
            ELSE IF p.pid \in LowPids THEN Pass(f, "low", p)
            ELSE IF NitRef(f.pat) # NoRef /\ p.pid = NitRef(f.pat).pid THEN Pass(f, "NIT", p)
            ELSE f}

-----------------------------------------------------------------------------
(* AddPacket.                                                              *)

Cleared == [filter EXCEPT !.packets = << >>]

HasTarget(f) == TargetRef(f.opt, f.pat) # NoRef

\* A packet of PID 0.  It completes a PAT or not; the PAT is sent on when a section
\* starts in the packet.
PatPacket ==
  \E pat \in Pats \cup {filter.pat}, unitStart \in BOOLEAN :
    LET f == [Cleared EXCEPT !.pat = pat]
    IN  /\ filter' = IF ~HasTarget(f) THEN Deselect(f)
                     ELSE IF unitStart THEN AddPat(f) ELSE f
        /\ UNCHANGED <<clock, source>>

\* What extract_psi holds after a call, and what the caller does with it.
Extracted(f, section) ==
  LET g == [f EXCEPT !.section = section]
  IN  IF section = NoSection THEN g ELSE AddPmt(g, section)

\* A packet of the PMT PID: the first call may end or go on with the section held,
\* or drop it; a second call starts anew.
PmtPacket ==
  /\ HasTarget(filter)
  /\ \E first \in Sections \cup {filter.section, NoSection} :
       LET f == Extracted(Cleared, first)
       IN  \/ filter' = f
           \/ \E second \in Sections \cup {NoSection} : filter' = Extracted(f, second)
  /\ UNCHANGED <<clock, source>>

\* Any other packet.
StreamPacket(p) ==
  filter' \in IF ~HasTarget(filter) THEN {Cleared}
              ELSE Dispatch(IF p.pid = filter.pcrPid /\ p.pcr # NoTime
                            THEN AddPcr(Cleared, p) ELSE Cleared, p)

-----------------------------------------------------------------------------
(* The sources and the reception.                                          *)

\* The packet that follows on a PID: the next of its PES, or the first of another.
Following(pid) ==
  LET last == source[pid].last
      more == last.index < last.of
  IN  {[pid |-> pid, start |-> ~more, counter |-> Successor(last.counter), payload |-> TRUE,
        pes |-> IF more THEN last.pes ELSE (last.pes + 1) % PesMod,
        index |-> IF more THEN last.index + 1 ELSE 1,
        of |-> n, pcr |-> NoTime,
        pts |-> IF pid \notin AudioPids THEN NoTime
                ELSE IF more THEN last.pts ELSE Later(clock, Lead)] :
       n \in IF more THEN {last.of} ELSE IF pid \in AudioPids THEN PesLengths ELSE {1}}

\* It may carry the PCR of the program, and the clock has moved on since the last.
Timed(p) ==
  {<<p, clock>>} \cup
  {<<[p EXCEPT !.pcr = Later(clock, d)], Later(clock, d)>> :
     d \in IF p.pid = filter.pcrPid THEN Steps ELSE {}}

Receive(pid) ==
  \E p \in Following(pid) : \E pt \in Timed(p) :
    /\ clock' = pt[2]
    /\ source' = [source EXCEPT ![pid] = [last |-> [p EXCEPT !.pcr = NoTime], lost |-> 0]]
    /\ StreamPacket(pt[1])

Lose(pid) ==
  /\ source[pid].lost < MaxBurst
  /\ \E p \in Following(pid) :
       source' = [source EXCEPT ![pid] = [last |-> p, lost |-> @.lost + 1]]
  /\ filter' = Cleared
  /\ UNCHANGED clock

\* The last packet comes once more (or only the second time), or one without payload
\* that has its counter.
Again(pid) ==
  /\ Repeats
  /\ \E p \in {source[pid].last,
               [source[pid].last EXCEPT !.payload = FALSE, !.start = FALSE]} :
       StreamPacket(p)
  /\ UNCHANGED <<clock, source>>

NoPacket(pid) ==
  [pid |-> pid, start |-> FALSE, counter |-> CounterMod - 1, payload |-> FALSE,
   pes |-> 0, index |-> 1, of |-> 1, pcr |-> NoTime, pts |-> 0]

Init ==
  /\ \E opt \in Options :
       filter = [opt |-> opt, pat |-> << >>, section |-> NoSection,
                 es |-> [x \in Slots |-> NoStream],
                 pcrPid |-> 0, pcr |-> NoTime, dualMono |-> FALSE,
                 counter |-> [x \in {"PAT", "PMT"} \cup AudioSlots \cup TextSlots |->
                                IF x \in TextSlots THEN Unset ELSE 0],
                 last |-> [x \in {"PAT", "PMT"} |-> NoTable],
                 unit |-> [a \in AudioSlots |-> << >>],
                 pts |-> [a \in AudioSlots |-> NoTime],
                 diff |-> [a \in AudioSlots |-> IF a = "audio1" THEN 0 ELSE -1],
                 since |-> [x \in TextSlots |-> NoTime],
                 packets |-> << >>]
  /\ clock = 0
  /\ source = [pid \in Pids |-> [last |-> NoPacket(pid), lost |-> 0]]

Next == \/ PatPacket
        \/ PmtPacket
        \/ \E pid \in Pids : Receive(pid) \/ Lose(pid) \/ Again(pid)

Spec == Init /\ [][Next]_vars

-----------------------------------------------------------------------------
(* Properties.                                                             *)

\* Where packets went out on a PID
On(out, pid) == {i \in DOMAIN out : out[i].pid = pid}

\* The place of the one before the i-th, 0 if there is none
Previous(places, i) == Max({0} \cup {j \in places : j < i})

\* The members have their types, no more of a PES is held back than the limit allows,
\* and the tables, clocks and counters are in their ranges.
TypeOK ==
  /\ filter.opt \in Options
  /\ filter.pat \in Pats \cup {<< >>}
  /\ filter.section \in Sections \cup {NoSection}
  /\ filter.pcr \in Times \cup {NoTime}
  /\ filter.dualMono \in BOOLEAN
  /\ \A x \in {"PAT", "PMT"} \cup AudioSlots : filter.counter[x] \in 0 .. CounterMod - 1
  /\ \A x \in TextSlots : /\ filter.counter[x] \in 0 .. Unset
                          /\ filter.since[x] \in Times \cup {NoTime}
  /\ \A a \in AudioSlots : /\ filter.pts[a] \in Times \cup {NoTime}
                           /\ filter.diff[a] \in Times \cup {-1}
                           /\ Len(filter.unit[a]) <= UnitLimit
  /\ clock \in Times

\* The counter to be used on a PID by the i-th packet, after those of the steps before
NextCounter(f, out, pid, i) ==
  LET j == Previous(On(out, pid), i)
  IN  IF j = 0 THEN Successor(f.counter[pid]) ELSE (out[j].counter + out[j].count) % CounterMod

CountedOn(f, g, pid) ==
  /\ \A i \in On(g.packets, pid) : g.packets[i].counter = NextCounter(f, g.packets, pid, i)
  /\ Successor(g.counter[pid]) = NextCounter(f, g.packets, pid, Len(g.packets) + 1)

\* On every PID whose counters the filter gives out (tables, audio) no counter is
\* skipped and none used twice, in a step and from one to the next, whichever of the
\* handlers sent the packets: silence, the first audio, its copy, the second audio or a
\* half of a dual mono.
CountersContiguous ==
  [][\A pid \in {"PAT", "PMT"} \cup AudioSlots : CountedOn(filter, filter', pid)]_vars

\* The table that a receiver has before the i-th packet
TableBefore(f, out, x, i) ==
  LET j == Previous(On(out, x), i) IN IF j = 0 THEN f.last[x] ELSE out[j].table

ToldBy(table, before) == table.version # before.version <=> table # before

VersionsOn(f, g, x) ==
  /\ \A i \in On(g.packets, x) :
       ToldBy(g.packets[i].table, TableBefore(f, g.packets, x, i))
  /\ g.last[x] = TableBefore(f, g.packets, x, Len(g.packets) + 1)

\* A receiver that parses a table again only when its version has changed has the
\* table last sent, also when one packet brought two sections; and that is the one which
\* the next is compared with.
VersionsTell == [][\A x \in {"PAT", "PMT"} : VersionsOn(filter, filter', x)]_vars

\* The stream that a packet goes out on is in the PMT sent last.  Exempt are what is
\* inserted before any PMT was sent (a first PMT that does not fit sets the PCR PID),
\* and in mode 0 the right half of a dual mono, which the PMT lists only when it comes
\* the next time.
Announced ==
  \A i \in DOMAIN filter.packets :
    LET q    == filter.packets[i]
        sent == filter.last["PMT"]
    IN  q.pid \in Slots =>
          \/ sent # NoTable /\ q.pid \in DOMAIN sent.content.streams
          \/ sent = NoTable /\ q.kind \in {"silence", "management"}
          \/ q.kind = "right" /\ filter.opt.mode["audio2"] = 0

\* While the PMT in force fits, the clock reference goes out where the PMT sent says:
\* on a PID of its own, or on that of the stream it came with.
PcrWhereAnnounced ==
  (filter.last["PMT"] # NoTable /\ filter.section # NoSection /\ filter.section.fits) =>
    LET said == filter.last["PMT"].content.pcr
        Sent(x) == \E i \in DOMAIN filter.packets : filter.packets[i].pid = x
    IN  \A i \in DOMAIN filter.packets :
          LET q == filter.packets[i]
          IN  /\ q.kind = "pcr" => said = "PCR"
              /\ (q.pid \in Slots /\ q.kind \notin {"silence", "management"}
                   /\ q.unit[1].pid = filter.pcrPid) => said \in Slots /\ Sent(said)

\* Audio goes out in whole PES, each put together from the packets of one PES and
\* nothing else, whatever was lost or repeated and however the selection changed while
\* it was collected; unless a packet without payload, which repeats the counter of one
\* that was lost, was taken for it.
AudioWhole ==
  \A i \in DOMAIN filter.packets :
    LET q == filter.packets[i]
    IN  q.kind \in {"pes", "stereo", "left", "right"} /\ (\A k \in DOMAIN q.unit : q.unit[k].payload) =>
          /\ Len(q.unit) = q.unit[1].of
          /\ \A k \in DOMAIN q.unit : /\ q.unit[k].index = k
                                      /\ q.unit[k].pes = q.unit[1].pes
                                      /\ q.unit[k].pid = q.unit[1].pid

\* The time that silence on a slot has to reach in a step: the PCR and the distance in
\* force before it, for the second audio at first that of the first.
Target(f, g, a) == Later(g.pcr, IF f.diff[a] < 0 THEN f.diff["audio1"] ELSE f.diff[a])

\* Once the clock has moved on, the silence inserted for an absent audio has caught up
\* with it: it ends less than a frame before the time that belongs to the PCR, or it is
\* ahead by no more than the acceptable difference; also when the clock wrapped or
\* jumped.
CaughtUp(pts, target) ==
  /\ pts # NoTime
  /\ Past(target, pts) < Frame \/ Past(pts, target) <= Accept

SilenceKeepsUp ==
  [][clock' # clock =>
       \A a \in AudioSlots : NeedsSilence(filter, a) =>
         CaughtUp(filter'.pts[a], Target(filter, filter', a))]_vars

\* Where the i-th packet has to begin if it is silence
NextPts(f, out, silent, a, i) ==
  LET j == Previous(silent, i) IN IF j = 0 THEN f.pts[a] ELSE Later(out[j].pts, Frame)

Gapless(f, g, a) ==
  LET out    == g.packets
      silent == {i \in On(out, a) : out[i].kind = "silence"}
      target == Target(f, g, a)
  IN  /\ \A i \in silent : /\ out[i].pts = NextPts(f, out, silent, a, i)
                           /\ Past(target, Later(out[i].pts, Frame)) <= Accept
      /\ \/ g.pts[a] = NextPts(f, out, silent, a, Len(out) + 1)
         \/ silent = {} /\ g.pts[a] = NoTime
         \/ silent = {} /\ g.pts[a] = target
              /\ (f.pts[a] = NoTime \/ Past(target, f.pts[a]) \in Accept + 1 .. PtsMod - Accept - 1)

\* Frames of silence follow each other without gap and overlap, in a step and from one
\* PCR to the next, and none ends past the time of the PCR.  Silence starts anew only
\* where the audio came back on another PID, or the clock jumped.
SilenceGapless == [][\A a \in AudioSlots : Gapless(filter, filter', a)]_vars

\* Readme.txt on -b 1: where the stream does not exist, silence is inserted.  The first
\* audio does not exist either, so that no half of a dual mono can stand in for it.
SilenceWhenAbsent ==
  [][(clock' # clock /\ filter.opt.mode["audio2"] = 1
        /\ \A a \in AudioSlots : Pid(filter, a) = 0)
       => filter'.pts["audio2"] # NoTime]_vars

=============================================================================
