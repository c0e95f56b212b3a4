---------------------------- MODULE Id3Converter ----------------------------
(***************************************************************************)
(* CID3Converter::AddPacket: the captions of the first program of the PAT  *)
(* are taken out of the stream and sent as ID3 timed metadata on one PID;  *)
(* its PMT is rewritten accordingly, everything else passes.               *)
(*                                                                         *)
(* A stream of a PMT section is a record [tag, pid]: tag says what its     *)
(* type and component_tag make of it ("other" for everything that stays).  *)
(* A packet is a record as in PesUnits; kind says where a PES has its PTS  *)
(* from ("own", or "pcr" for private_stream_2) or that it is "other" data. *)
(***************************************************************************)
EXTENDS Pts, SequencesExt

CONSTANTS CounterMod,  \* continuity counters count modulo this (16)
          Accept,      \* ACCEPTABLE_PTS_DIFF_SEC: 90000 * 10
          NullPid,     \* 0x1fff, a PMT without PCR
          Options,     \* [unknown, monotonous]: -d +2 and +8
          Pats,        \* the PATs that may come: sequences of [program, pid]
          Sections,    \* the sections of each PMT PID: [parts, pcrPid, fits, es]
          Pids,        \* the PIDs that carry something else
          TextPids,    \* those of them that send PES of PesLength packets
          PesLength,
          PesMod,      \* bound: PES are numbered modulo this
          MaxBurst     \* bound: packets lost in a row on a PID

ASSUME ConverterAssumption ==
  /\ CounterMod \in Nat /\ CounterMod >= 2 /\ Accept \in 1 .. PtsMod - 1
  /\ TextPids \subseteq Pids /\ Pids \subseteq Nat \ {0}
  /\ PesLength \in Nat \ {0} /\ PesMod \in Nat \ {0} /\ MaxBurst \in Nat
  /\ Options \subseteq [unknown : BOOLEAN, monotonous : BOOLEAN]

\* A PAT names PMT PIDs; the streams of a section have a PID each, and what sends captions
\* does not carry the PCR.
ASSUME TablesAssumption ==
  /\ \A pat \in Pats : /\ pat \in Seq([program : Nat, pid : Nat])
                        /\ \A i \in DOMAIN pat : pat[i].program # 0 => pat[i].pid \in DOMAIN Sections
  /\ DOMAIN Sections \subseteq Nat \ (Pids \cup {0})
  /\ \A pid \in DOMAIN Sections : \A s \in Sections[pid] :
       /\ s \in [parts : Nat \ {0}, pcrPid : Nat \ TextPids, fits : BOOLEAN,
                 es : Seq([tag : STRING, pid : Pids])]
       /\ \A i, j \in DOMAIN s.es : s.es[i].pid = s.es[j].pid => i = j

VARIABLES
  conv,     \* the members of CID3Converter
  source,   \* per PID of TextPids: the last packet sent and how many were lost since
  pmt,      \* history: the PMT last sent, and the PIDs of the one it was made from
  shown,    \* history: the PTS of the last metadata sent
  intact    \* history, per PID of TextPids: the PES in progress came undisturbed

vars == <<conv, source, pmt, shown, intact>>

(***************************************************************************)
(* conv.opt         the options           conv.pat      m_pat.pmt          *)
(* conv.firstPid    m_firstPmtPid         conv.section  m_firstPmtPsi      *)
(* conv.remove      m_removePidSet        conv.pid      m_captionPid, ...  *)
(* conv.pes         m_captionPes, ...     conv.pcrPid, pcr                 *)
(* conv.id3Pid, id3Counter, pmtCounter    conv.last     m_lastID3Pts       *)
(* conv.packets     m_packets, which main() clears after every packet      *)
(***************************************************************************)

Roles     == {"caption", "superimpose"}
NoSection == [parts |-> 0]
NoRef     == [program |-> 0, pid |-> 0]
NoPmt     == [id3 |-> 0, streams |-> {}, source |-> {}]
Nothing   == [counter |-> 0, unit |-> << >>]

Successor(c) == (c + 1) % CounterMod

Out(f, q) == [f EXCEPT !.packets = Append(@, q)]

-----------------------------------------------------------------------------
(* The tables.                                                             *)

\* The first entry of the PAT that is a program.
FirstPmt(refs) ==
  LET programs == {i \in DOMAIN refs : refs[i].program # 0}
  IN  IF programs = {} THEN NoRef ELSE refs[Min(programs)]

\* The streams with captions, which are taken out of the PMT.
Removed(f, es) ==
  {e \in ToSet(es) : \/ e.tag \in {"caption", "captionC", "superimpose", "superimposeC"}
                     \/ e.tag = "unknown" /\ f.opt.unknown}

\* The last stream with one of the tags, 0 without one.
LastOf(es, tags) ==
  LET on == {i \in DOMAIN es : es[i].tag \in tags} IN IF on = {} THEN 0 ELSE es[Max(on)].pid

\* Fault: a PID that is no longer listed stays in its role.
RolePidKept(f, es, r) ==
  IF LastOf(es, {r}) # 0 THEN LastOf(es, {r}) ELSE f.pid[r]

\* The stream of a role: one of the A-profile before one of the C-profile.
RolePid(f, es, r) ==
  LET second == IF r = "caption" THEN {"captionC"}
                ELSE {"superimposeC"} \cup (IF f.opt.unknown THEN {"unknown"} ELSE {})
  IN  IF LastOf(es, {r}) # 0 THEN LastOf(es, {r}) ELSE LastOf(es, second)

\* Fault: the PID is kept although a stream that stays has it.
KeptId3Pid(f, gone, stay) == IF f.id3Pid = 0 /\ gone # {} THEN Min(gone) ELSE f.id3Pid

\* The PID of the metadata: kept from PMT to PMT unless a stream that stays has it,
\* else the smallest of those taken out.
Id3Pid(f, gone, stay) ==
  LET kept == IF f.id3Pid \in stay THEN 0 ELSE f.id3Pid
  IN  IF kept = 0 /\ gone # {} THEN Min(gone) ELSE kept

\* Fault: what is held of a PES is dropped with every PMT.
HeldAlwaysDropped(f, pids) == [r \in Roles |-> [f.pes[r] EXCEPT !.unit = << >>]]

\* What is held of a PES is dropped when the PID of the role changes.
HeldUnlessMoved(f, pids) ==
  [r \in Roles |-> IF pids[r] = f.pid[r] THEN f.pes[r] ELSE [f.pes[r] EXCEPT !.unit = << >>]]

AddPmt(f, s) ==
  LET g    == [f EXCEPT !.pcrPid = s.pcrPid,
                        !.pcr = IF s.pcrPid = NullPid THEN NoTime ELSE @]
      gone == {e.pid : e \in Removed(f, s.es)}
      stay == {e.pid : e \in ToSet(s.es) \ Removed(f, s.es)}
      pids == [r \in Roles |-> RolePid(f, s.es, r)]
      id3  == Id3Pid(f, gone, stay)
  IN  IF ~s.fits THEN g
      ELSE Out([g EXCEPT !.remove = gone, !.pid = pids, !.pes = HeldUnlessMoved(f, pids),
                         !.id3Pid = id3, !.pmtCounter = (@ + s.parts) % CounterMod],
               [pid |-> f.firstPid, kind |-> "pmt",
                table |-> [id3 |-> id3, streams |-> stay, source |-> gone \cup stay, pid |-> pids, section |-> s]])

\* Fault: a section held of another PMT stays.
SectionKept(f, pid) == f.section

\* What is held of the PMT, which is cleared when its PID changes.
SectionOfPid(f, pid) == IF f.firstPid # 0 /\ pid # f.firstPid THEN NoSection ELSE f.section

\* A packet of PID 0, which completes a PAT or not, and passes.
PatPacket ==
  \E pat \in Pats \cup {conv.pat} :
    LET pid == FirstPmt(pat).pid
    IN  conv' = [conv EXCEPT !.pat = pat, !.firstPid = pid, !.section = SectionOfPid(conv, pid),
                             !.packets = <<[pid |-> 0, kind |-> "packet"]>>]

Extracted(f, section) ==
  LET g == [f EXCEPT !.section = section]
  IN  IF section = NoSection THEN g ELSE AddPmt(g, section)

\* A packet of the PMT, which is replaced: the first call may end or go on with the
\* section held, or drop it; a second call starts anew.
PmtPacket ==
  /\ conv.firstPid # 0
  /\ \E first \in Sections[conv.firstPid] \cup {conv.section, NoSection} :
       LET f == Extracted([conv EXCEPT !.packets = << >>], first)
       IN  \/ conv' = f
           \/ \E second \in Sections[conv.firstPid] \cup {NoSection} : conv' = Extracted(f, second)

-----------------------------------------------------------------------------
(* The streams.                                                            *)

\* Fault: the PTS as it came is remembered, not the one sent.
MonotonousUnraised(f, pts) ==
  LET back == f.last # NoTime /\ Past(f.last, pts) < Accept
  IN  [pts |-> IF back THEN f.last ELSE pts, last |-> pts]

\* The PTS sent, and the one remembered: time that goes back by less than the
\* acceptable difference stands still.
Monotonous(f, pts) ==
  LET back == f.last # NoTime /\ Past(f.last, pts) < Accept
      sent == IF back THEN f.last ELSE pts
  IN  [pts |-> sent, last |-> sent]

\* What CheckPrivateDataPes may send for a PES, which may have any PTS.
Converted(f, unit) ==
  LET Sent(pts) ==
        LET m == IF f.opt.monotonous THEN Monotonous(f, pts) ELSE [pts |-> pts, last |-> f.last]
        IN  Out([f EXCEPT !.last = m.last, !.id3Counter = (@ + Len(unit)) % CounterMod],
                [pid |-> f.id3Pid, kind |-> "id3", pts |-> m.pts, unit |-> unit])
  IN  CASE unit[1].kind = "own"   -> {Sent(pts) : pts \in Times}
        [] unit[1].kind = "pcr"   -> IF f.pcr # NoTime THEN {Sent(f.pcr)} ELSE {f}
        [] unit[1].kind = "other" -> {f}

\* Fault: a packet is taken for the next one whatever its counter.
ContinuedUnchecked(held, p) ==
  [counter |-> Successor(held.counter), unit |-> Append(held.unit, p)]

\* A packet of a PES begun: the rest is ignored unless the counter is the next one.
Continued(held, p) ==
  [counter |-> Successor(held.counter),
   unit    |-> IF Successor(held.counter) = p.counter THEN Append(held.unit, p) ELSE << >>]

Collected(held, p) ==
  IF p.start THEN [counter |-> p.counter, unit |-> <<p>>]
  ELSE IF held.unit # << >> THEN Continued(held, p) ELSE held

\* The payload reaches the length that the PES header gives.
Complete(unit) ==
  unit # << >> /\ Cardinality({i \in DOMAIN unit : unit[i].payload}) >= unit[1].of

AddText(f, r, p) ==
  LET held == Collected(f.pes[r], p)
      done == [f EXCEPT !.pes[r] = [held EXCEPT !.unit = << >>]]
  IN  IF Complete(held.unit) THEN Converted(done, held.unit) ELSE {[f EXCEPT !.pes[r] = held]}

\* A packet that is neither of a table nor taken out passes, and so does one of the PID
\* of the PCR, whatever else that PID carries.
StreamPacket(p) ==
  LET f    == [conv EXCEPT !.packets = << >>]
      pass == [pid |-> p.pid, kind |-> "packet"]
  IN  conv' \in IF p.pid = f.pcrPid THEN {Out([f EXCEPT !.pcr = t], pass) : t \in Times \cup {f.pcr}}
                ELSE IF p.pid \notin f.remove THEN {Out(f, pass)}
                ELSE IF p.pid = f.pid["caption"] THEN AddText(f, "caption", p)
                ELSE IF p.pid = f.pid["superimpose"] THEN AddText(f, "superimpose", p)
                ELSE {f}

-----------------------------------------------------------------------------
(* The sources and the reception.                                          *)

\* A PES of a single packet.
Single(pid, kind) ==
  [pid |-> pid, start |-> TRUE, counter |-> 0, payload |-> TRUE,
   pes |-> 0, index |-> 1, of |-> 1, kind |-> kind]

\* The packet that follows on a PID of TextPids.
Following(pid) ==
  LET last == source[pid].last
      more == last.index < PesLength
  IN  [last EXCEPT !.start   = ~more,
                   !.counter = Successor(@),
                   !.pes     = IF more THEN @ ELSE (@ + 1) % PesMod,
                   !.index   = IF more THEN @ + 1 ELSE 1]

ReceiveSingle(pid) ==
  /\ \E kind \in {"own", "pcr", "other"} : StreamPacket(Single(pid, kind))
  /\ UNCHANGED source

Receive(pid) ==
  /\ source' = [source EXCEPT ![pid] = [last |-> Following(pid), lost |-> 0]]
  /\ StreamPacket(Following(pid))

Lose(pid) ==
  /\ source[pid].lost < MaxBurst
  /\ source' = [source EXCEPT ![pid] = [last |-> Following(pid), lost |-> @.lost + 1]]
  /\ conv' = [conv EXCEPT !.packets = << >>]

\* The last packet once more, or one without payload that has its counter.
Again(pid) ==
  /\ \E p \in {source[pid].last, [source[pid].last EXCEPT !.payload = FALSE, !.start = FALSE]} :
       StreamPacket(p)
  /\ UNCHANGED source

Init ==
  /\ \E opt \in Options :
       conv = [opt |-> opt, pat |-> << >>, firstPid |-> 0, section |-> NoSection, remove |-> {},
               pid |-> [r \in Roles |-> 0], pes |-> [r \in Roles |-> Nothing],
               pcrPid |-> 0, pcr |-> NoTime, id3Pid |-> 0, id3Counter |-> 0, pmtCounter |-> 0,
               last |-> NoTime, packets |-> << >>]
  /\ source = [pid \in TextPids |->
                 [last |-> [Single(pid, "own") EXCEPT !.start = FALSE, !.index = PesLength, !.of = PesLength],
                  lost |-> 0]]
  /\ pmt = NoPmt /\ shown = NoTime
  /\ intact = [pid \in TextPids |-> FALSE]

\* The last packet of a kind that the step sent.
LastSent(kind, none) ==
  LET of == {i \in DOMAIN conv'.packets : conv'.packets[i].kind = kind}
  IN  IF of = {} THEN none ELSE conv'.packets[Max(of)]

RoleOf(f, pid) == {r \in Roles : f.pid[r] = pid}

\* PES that come from their start on, each packet once, for a role that does not move.
\* Two streams with the PIDs of both roles, or one that carries the PCR, are left out.
Undisturbed(pid, received) ==
  /\ IF received THEN source'[pid].last.start \/ intact[pid] ELSE intact[pid]
  /\ Cardinality(RoleOf(conv, pid)) = 1
  /\ \A q \in ToSet(conv'.packets) : q.kind = "pmt" => RoleOf(q.table, pid) = RoleOf(conv, pid)
  /\ conv'.pcrPid # pid

\* The history goes with every step; received is the PID of TextPids that a packet of
\* came from, touched that of one that was lost or came again.
Noted(received, touched) ==
  /\ pmt' = LET last == LastSent("pmt", [table |-> pmt]).table
            IN  [id3 |-> last.id3, streams |-> last.streams, source |-> last.source]
  /\ shown' = LastSent("id3", [pts |-> shown]).pts
  /\ intact' = [pid \in TextPids |-> pid # touched /\ Undisturbed(pid, pid = received)]

Next ==
  \/ (PatPacket \/ PmtPacket) /\ UNCHANGED source /\ Noted(0, 0)
  \/ \E pid \in Pids \ TextPids : ReceiveSingle(pid) /\ Noted(0, 0)
  \/ \E pid \in TextPids : \/ Receive(pid) /\ Noted(pid, 0)
                           \/ (Lose(pid) \/ Again(pid)) /\ Noted(0, pid)

Spec == Init /\ [][Next]_vars

-----------------------------------------------------------------------------
(* Properties.                                                             *)

\* Every member has its type; no more of a PES is held than it takes to convert it.
TypeOK ==
  /\ conv.opt \in Options /\ conv.pat \in Pats \cup {<< >>}
  /\ conv.section \in (UNION Range(Sections)) \cup {NoSection}
  /\ conv.remove \subseteq Pids /\ conv.id3Pid \in Pids \cup {0}
  /\ {conv.pcr, conv.last} \subseteq Times \cup {NoTime}
  /\ \A r \in Roles : /\ conv.pid[r] \in conv.remove \cup {0}
                      /\ ~Complete(conv.pes[r].unit)

\* The PID of the metadata is theirs alone: it is in the PMT sent when metadata come, no
\* stream that the PMT lists has it, and nothing that the source's PMT lists passes on
\* it, but a stream that carries the PCR.
Id3PidOwn ==
  [][\A q \in ToSet(conv'.packets) :
       /\ q.kind = "id3" => q.pid = pmt'.id3 /\ q.pid # 0 /\ pmt'.id3 \notin pmt'.streams
       /\ (q.kind = "packet" /\ q.pid \in pmt'.source /\ q.pid # conv'.pcrPid)
            => q.pid # pmt'.id3]_vars

\* A PMT goes out on the PID that its section came on, whatever became of the PAT.
PmtOfPid ==
  [][\A q \in ToSet(conv'.packets) : q.kind = "pmt" => q.table.section \in Sections[q.pid]]_vars

\* Metadata are made of whole PES, each from the packets of one PES and nothing else; unless
\* a packet without payload, which repeats the counter of one that was lost, was taken for it.
Id3Whole ==
  [][\A q \in ToSet(conv'.packets) :
       q.kind = "id3" /\ (\A k \in DOMAIN q.unit : q.unit[k].payload) =>
         /\ Len(q.unit) = q.unit[1].of
         /\ \A k \in DOMAIN q.unit :
              /\ q.unit[k].index = k
              /\ q.unit[k].pes = q.unit[1].pes /\ q.unit[k].pid = q.unit[1].pid]_vars

\* A PES of captions that came undisturbed is converted with its last packet, whatever
\* tables came in between.
Id3Complete ==
  [][\A pid \in TextPids :
       LET p == source'[pid].last
       IN  (source' # source /\ source'[pid] # source[pid] /\ intact'[pid]
              /\ p.index = PesLength)
             => \E q \in ToSet(conv'.packets) : q.kind = "id3" /\ Last(q.unit) = p]_vars

\* Readme.txt on -d +8: the PTS sent never go back, but by the difference that counts as
\* a jump.
PtsMonotonous ==
  [][\A q \in ToSet(conv'.packets) :
       (q.kind = "id3" /\ conv.opt.monotonous /\ shown # NoTime)
         => Past(shown, q.pts) = 0 \/ Past(shown, q.pts) >= Accept]_vars

\* Readme.txt on -d: the source of the conversion is removed.  So nothing but metadata
\* goes out on the PID that the PMT sent announces them on.
SourceRemoved ==
  [][\A q \in ToSet(conv'.packets) : (q.kind = "packet" /\ pmt'.id3 # 0) => q.pid # pmt'.id3]_vars
=============================================================================
