------------------------------ MODULE TraceB24 ------------------------------
(***************************************************************************)
(* CTraceB24Caption: the captions of the first program of the PAT are      *)
(* written to a text file, a line per data group.  What it keeps from one  *)
(* data group to the next are the languages that the management data       *)
(* listed, and the code points given to the DRCS codes.                    *)
(*                                                                         *)
(* A PES is collected as in Id3Converter, so that here its packets begin,  *)
(* continue, break or complete it as they like.  What the text of a data   *)
(* group looks like is modelled in AribText.                               *)
(***************************************************************************)
EXTENDS DrcsRing, SequencesExt

CONSTANTS Codes,        \* the DRCS codes that a stream may define
          Tags,         \* languages: 0 .. 7
          NullPid,      \* 0x1fff, a PMT without PCR
          PmtPids,      \* the PIDs that the PAT gives the first program
          Sections,     \* the sections of each of them: [long, fits, pcrPid, es]
          TextPids,     \* the PIDs that captions come on
          MaxLanguages, \* bound: the languages a group of management data lists
          MaxItems      \* bound: the codes that a data group defines and uses

ASSUME TraceAssumption ==
  /\ Tags \subseteq Nat /\ MaxLanguages \in Nat /\ MaxItems \in Nat
  /\ PmtPids \subseteq Nat \ {0} /\ TextPids \subseteq Nat \ {0}
  /\ \A p \in PmtPids : \A s \in Sections[p] : s.long => s.es \in Seq([tag : STRING, pid : TextPids])

Roles == {"caption", "superimpose"}
Kinds == {"other", "arib8"}   \* LANG_TAG_UNKNOWN and _UCS; _ARIB8 and _ARIB8_LATIN
NoSection == [long |-> FALSE]
NoLanguages == [tag \in Tags |-> "absent"]

VARIABLES
  firstPid,   \* m_firstPmtPid
  section,    \* m_firstPmtPsi
  pcrPid,     \* m_pcrPid
  clocked,    \* m_pcr is known
  pid,        \* m_captionPid, m_superimposePid
  begun,      \* the PES of a role is not empty
  ring,       \* m_captionDrcsList, m_superimposeDrcsList
  langs,      \* m_captionLangTags, m_superimposeLangTags
  parse,      \* where ParsePrivateData is
  line,       \* the line written by this step: its role and what it says
  announced,  \* history, per role: the languages in the management data last begun
  unsure,     \* history, per role: those management data could not be parsed
  seen,       \* history, per role: what lines since it has its PID say of a code point
  lost        \* history, per role: the codes defined in groups that failed

reception == <<firstPid, section, pcrPid, clocked, pid, begun>>
memory == <<ring, langs>>
history == <<announced, unsure, seen, lost>>
vars == <<reception, memory, parse, line, history>>

-----------------------------------------------------------------------------
(* parse.phase     "idle", "pes", "languages" or "units"                   *)
(* parse.role      the role whose PES is parsed                            *)
(* parse.lang      lang, the kind of the language                          *)
(* parse.rest      the languages of the management data not read yet       *)
(* parse.items     the codes defined and used so far                       *)
(* parse.defined   the codes defined so far                                *)
(* parse.told      what the lines, with this one, say of each code point   *)
(* parse.text      the character written last: its code point and its code *)

NoText == [index |-> 0]
NoLine == [role |-> "none", says |-> "none"]
NothingSeen == [i \in 1 .. RingSize |-> 0]
Idle == [phase |-> "idle", role |-> "none", lang |-> "other", rest |-> << >>,
         items |-> 0, defined |-> {}, told |-> << >>, text |-> NoText]

-----------------------------------------------------------------------------
(* The tables.                                                             *)

\* A packet of PID 0, which completes a PAT or not: a section held of another PMT goes.
PatPacket ==
  /\ parse.phase = "idle"
  /\ \E p \in PmtPids \cup {0} :
       /\ firstPid' = p
       /\ section' = IF firstPid # 0 /\ p # firstPid THEN NoSection ELSE section
  /\ line' = NoLine
  /\ UNCHANGED <<pcrPid, clocked, pid, begun, memory, parse, history>>

\* The last stream with the tag of the role, 0 without one.
RolePid(s, r) ==
  LET on == {i \in DOMAIN s.es : s.es[i].tag = r}
  IN  IF on = {} THEN 0 ELSE s.es[Max(on)].pid

\* What was held of a role that moves to another PID is forgotten.
Moved(f, pids, none) == [r \in Roles |-> IF pids[r] = pid[r] THEN f[r] ELSE none]

\* Fault: the code points are kept when a role moves.
MoveRolesKeepingRing(pids) ==
  /\ pid' = pids
  /\ begun' = Moved(begun, pids, FALSE)
  /\ ring' = ring
  /\ langs' = Moved(langs, pids, NoLanguages)

MoveRoles(pids) ==
  /\ pid' = pids
  /\ begun' = Moved(begun, pids, FALSE)
  /\ ring' = Moved(ring, pids, EmptyRing)
  /\ langs' = Moved(langs, pids, NoLanguages)

\* CheckPmt: a section without room for the PID of the PCR says nothing, one that is
\* too short for its descriptors only that PID.
CheckPmt(s) ==
  IF ~s.long THEN UNCHANGED <<pcrPid, clocked, pid, begun, memory, history>>
  ELSE LET pids == IF s.fits THEN [r \in Roles |-> RolePid(s, r)] ELSE pid
       IN  /\ pcrPid' = s.pcrPid
           /\ clocked' = (clocked /\ s.pcrPid # NullPid)
           /\ MoveRoles(pids)
           /\ announced' = Moved(announced, pids, NoLanguages)
           /\ unsure' = Moved(unsure, pids, FALSE)
           /\ seen' = Moved(seen, pids, NothingSeen)
           /\ lost' = Moved(lost, pids, {})

\* A packet of the PMT: with every call of extract_psi the section held, a new one or
\* none is there to be checked.  Two calls for one packet are two steps.
PmtPacket ==
  /\ parse.phase = "idle" /\ firstPid # 0
  /\ \E s \in Sections[firstPid] \cup {section, NoSection} : section' = s /\ CheckPmt(s)
  /\ line' = NoLine
  /\ UNCHANGED <<firstPid, parse>>

-----------------------------------------------------------------------------
(* The packets of streams.                                                 *)

\* A packet with a PCR; the first one since there was none is written.
PcrPacket ==
  /\ parse.phase = "idle" /\ pcrPid \notin {0, NullPid, firstPid}
  /\ clocked' = TRUE
  /\ line' = IF clocked THEN NoLine ELSE [role |-> "pcr", says |-> "pcr"]
  /\ UNCHANGED <<firstPid, section, pcrPid, pid, begun, memory, parse, history>>

\* The role that the packets of a PID belong to: captions come first.
RoleOf(p) == IF p = pid["caption"] THEN "caption" ELSE "superimpose"

\* A packet of captions: it begins a PES, continues it, breaks it or completes it.
TextPacket ==
  /\ parse.phase = "idle"
  /\ \E p \in TextPids \ {firstPid, pcrPid} :
       /\ p \in {pid[r] : r \in Roles}
       /\ \E start, kept, whole \in BOOLEAN :
            /\ kept => start \/ begun[RoleOf(p)]
            /\ whole => kept
            /\ begun' = [begun EXCEPT ![RoleOf(p)] = kept /\ ~whole]
            /\ parse' = IF whole THEN [Idle EXCEPT !.phase = "pes", !.role = RoleOf(p)] ELSE Idle
  /\ line' = NoLine
  /\ UNCHANGED <<firstPid, section, pcrPid, clocked, pid, memory, history>>

-----------------------------------------------------------------------------
(* OutputPrivateDataPes and ParsePrivateData, for the PES of parse.role.   *)

Line(says) == [role |-> parse.role, says |-> says]

\* No line: a PES without PTS or of other data, or text in a language not listed.
Ignored ==
  /\ parse.phase = "pes"
  /\ parse' = Idle /\ line' = NoLine
  /\ UNCHANGED <<reception, memory, history>>

\* The group is found to be unusable before anything is taken from it.
Rejected ==
  /\ parse.phase = "pes"
  /\ \E says \in {"unsupported", "unknown", "crc"} : line' = Line(says)
  /\ parse' = Idle
  /\ UNCHANGED <<reception, memory, history>>

\* The languages that a list makes known: of two entries with a tag the later one counts.
Listed(list) ==
  [tag \in Tags |->
     LET of == {i \in DOMAIN list : list[i].tag = tag}
     IN  IF of = {} THEN "absent" ELSE list[Max(of)].lang]

Groups == BoundedSeq([tag : Tags, lang : Kinds], MaxLanguages)

\* Fault: languages that are not listed any more stay.
BeginManagementKeeping(list) ==
  /\ parse.phase = "pes"
  /\ langs' = langs
  /\ parse' = [parse EXCEPT !.phase = "languages", !.rest = list, !.told = seen[parse.role]]
  /\ announced' = [announced EXCEPT ![parse.role] = Listed(list)]
  /\ unsure' = [unsure EXCEPT ![parse.role] = FALSE]
  /\ line' = NoLine
  /\ UNCHANGED <<reception, ring, seen, lost>>

\* Management data: no language is known until it is read.
BeginManagement(list) ==
  /\ parse.phase = "pes"
  /\ langs' = [langs EXCEPT ![parse.role] = NoLanguages]
  /\ parse' = [parse EXCEPT !.phase = "languages", !.rest = list, !.told = seen[parse.role]]
  /\ announced' = [announced EXCEPT ![parse.role] = Listed(list)]
  /\ unsure' = [unsure EXCEPT ![parse.role] = FALSE]
  /\ line' = NoLine
  /\ UNCHANGED <<reception, ring, seen, lost>>

ReadLanguage ==
  /\ parse.phase = "languages" /\ parse.rest # << >>
  /\ LET e == Head(parse.rest)
     IN  /\ langs' = [langs EXCEPT ![parse.role][e.tag] = e.lang]
         /\ parse' = [parse EXCEPT !.rest = Tail(@), !.lang = e.lang]
  /\ line' = NoLine
  /\ UNCHANGED <<reception, ring, history>>

EndLanguages ==
  /\ parse.phase = "languages" /\ parse.rest = << >>
  /\ parse' = [parse EXCEPT !.phase = "units"]
  /\ line' = NoLine
  /\ UNCHANGED <<reception, memory, history>>

\* Fault: text is taken in languages that are not listed.
BeginAnyText(tag) ==
  /\ parse.phase = "pes"
  /\ parse' = [parse EXCEPT !.phase = "units", !.lang = langs[parse.role][tag],
                            !.told = seen[parse.role]]
  /\ line' = NoLine
  /\ UNCHANGED <<reception, memory, history>>

\* Text in a language that the management data listed.
BeginText(tag) ==
  /\ parse.phase = "pes" /\ langs[parse.role][tag] # "absent"
  /\ parse' = [parse EXCEPT !.phase = "units", !.lang = langs[parse.role][tag],
                            !.told = seen[parse.role]]
  /\ line' = NoLine
  /\ UNCHANGED <<reception, memory, history>>

\* A DRCS code is defined: it gets a code point, which is written with its pattern.
Define(c) ==
  /\ parse.phase = "units" /\ parse.items < MaxItems
  /\ LET r == parse.role
         mapped == Mapped(ring[r], c)
     IN  /\ ring' = [ring EXCEPT ![r] = mapped]
         /\ parse' = [parse EXCEPT !.items = @ + 1, !.defined = @ \cup {c}, !.text = NoText,
                                   !.told[Index(mapped, c)] = c]
  /\ line' = NoLine
  /\ UNCHANGED <<reception, langs, history>>

\* A character of a DRCS code is written; without a code point it is U+FFFD.
Write(c) ==
  /\ parse.phase = "units" /\ parse.lang = "arib8" /\ parse.items < MaxItems
  /\ parse' = [parse EXCEPT !.items = @ + 1,
                            !.text = [index |-> Index(ring[parse.role], c), code |-> c]]
  /\ line' = NoLine
  /\ UNCHANGED <<reception, memory, history>>

\* A length that leads out of the group: what was taken from it before stays.
Fail ==
  /\ parse.phase \in {"languages", "units"}
  /\ unsure' = [unsure EXCEPT ![parse.role] = @ \/ parse.phase = "languages"]
  /\ lost' = [lost EXCEPT ![parse.role] = @ \cup parse.defined]
  /\ parse' = Idle /\ line' = Line("unknown")
  /\ UNCHANGED <<reception, memory, announced, seen>>

Finish ==
  /\ parse.phase = "units"
  /\ seen' = [seen EXCEPT ![parse.role] = parse.told]
  /\ lost' = [lost EXCEPT ![parse.role] = @ \ parse.defined]
  /\ parse' = Idle /\ line' = Line("group")
  /\ UNCHANGED <<reception, memory, announced, unsure>>

-----------------------------------------------------------------------------

Init ==
  /\ firstPid = 0 /\ section = NoSection /\ pcrPid = 0 /\ clocked = FALSE
  /\ pid = [r \in Roles |-> 0] /\ begun = [r \in Roles |-> FALSE]
  /\ ring = [r \in Roles |-> EmptyRing] /\ langs = [r \in Roles |-> NoLanguages]
  /\ parse = Idle /\ line = NoLine
  /\ announced = [r \in Roles |-> NoLanguages] /\ unsure = [r \in Roles |-> FALSE]
  /\ seen = [r \in Roles |-> NothingSeen]
  /\ lost = [r \in Roles |-> {}]

Next ==
  \/ PatPacket \/ PmtPacket \/ PcrPacket \/ TextPacket
  \/ Ignored \/ Rejected
  \/ \E list \in Groups : BeginManagement(list)
  \/ ReadLanguage \/ EndLanguages
  \/ \E tag \in Tags : BeginText(tag)
  \/ \E c \in Codes : Define(c) \/ Write(c)
  \/ Fail \/ Finish

Spec == Init /\ [][Next]_vars

-----------------------------------------------------------------------------
(* Properties.                                                             *)

\* Every member has its type; a code has one code point at most.
TypeOK ==
  /\ firstPid \in PmtPids \cup {0} /\ clocked \in BOOLEAN
  /\ pid \in [Roles -> TextPids \cup {0}] /\ begun \in [Roles -> BOOLEAN]
  /\ langs \in [Roles -> [Tags -> Kinds \cup {"absent"}]]
  /\ parse.phase \in {"idle", "pes", "languages", "units"} /\ parse.lang \in Kinds
  /\ parse.phase # "idle" => parse.role \in Roles /\ pid[parse.role] # 0
  /\ \A r \in Roles : RingOK(ring[r]) /\ ToSet(ring[r].codes) \subseteq Codes

\* The languages known are those of the management data that came last, whatever was
\* listed before and however the groups were cut off in between; only management data
\* that failed in the middle of their list leave another set behind.
LanguagesAsSent ==
  \A r \in Roles : \/ unsure[r]
                   \/ parse.role = r /\ parse.phase = "languages"
                   \/ langs[r] = announced[r]

\* A character written for a DRCS code has the code point that the lines gave that code,
\* in this group or an earlier one since the role has its PID.  Only codes that were
\* defined in a group that failed may be written without any line that shows them.
TextAnnounced ==
  parse.text.index # 0 =>
    \/ parse.told[parse.text.index] = parse.text.code
    \/ parse.text.code \in lost[parse.role]

\* For each role the codes mapped are the last RingSize new ones of its stream.
CaptionWindow == INSTANCE DrcsWindow WITH window <- Unrolled(ring["caption"])
SuperimposeWindow == INSTANCE DrcsWindow WITH window <- Unrolled(ring["superimpose"])
Windows == CaptionWindow!WSpec /\ SuperimposeWindow!WSpec
=============================================================================
