----------------------------- MODULE PsiSection -----------------------------
(***************************************************************************)
(* Reassembly of PSI sections from the packets of one PID: extract_psi     *)
(* (util.cpp) with the do-while loop every caller wraps round it           *)
(* (extract_pat, CServiceFilter::AddPacket, CID3Converter::AddPacket and   *)
(* CTraceB24Caption::AddPacket).                                           *)
(*                                                                         *)
(* A payload byte is named by its position in the byte stream of the PID,  *)
(* so the contents of the collecting buffer tell where every byte came     *)
(* from.  The multiplexer places sections in that stream; the reception    *)
(* may lose packets, repeat one, or carry packets without payload.         *)
(***************************************************************************)
EXTENDS Naturals, Sequences, FiniteSets

CONSTANTS CounterMod,    \* continuity counters count modulo this (16)
          MaxPayload,    \* most payload bytes of a packet, pointer_field not counted
          Cap,           \* sizeof(PSI::data) (1024)
          Sizes,         \* total sizes a section may have
          MaxCells,      \* bound: payload bytes the multiplexer sends
          MaxBurst,      \* bound: packets lost in a row
          EmptyPackets   \* may the PID carry packets without payload

ASSUME CounterAssumption == CounterMod \in Nat /\ CounterMod >= 2
ASSUME SizeAssumption    == /\ Cap \in Nat \ {0}
                            /\ Sizes \subseteq 1 .. Cap
                            /\ MaxPayload \in Nat \ {0}
ASSUME BoundAssumption   == MaxCells \in Nat /\ MaxBurst \in Nat
ASSUME EmptyAssumption   == EmptyPackets \in BOOLEAN

VARIABLES
  sent,        \* payload bytes sent so far on the PID
  sections,    \* the sections placed in them
  muxCounter,  \* continuity counter of the last packet with payload
  lost,        \* packets lost since the last one received
  pkt,         \* the last packet received
  repeated,    \* pkt has already arrived twice
  pending,     \* the callers' loop is still working on pkt
  cc,          \* PSI::continuity_counter
  data,        \* PSI::data up to data_count
  length,      \* bytes of the section found in data, 0 if version_number is 0
  handed,      \* history: the table last used by a caller
  delivered,   \* history: the sections callers have used
  cleanFrom    \* history: sections placed after this byte were not disturbed

muxVars  == <<sent, sections, muxCounter>>
chanVars == <<lost, pkt, repeated, pending>>
psiVars  == <<cc, data, length>>
histVars == <<handed, delivered, cleanFrom>>
vars     == <<muxVars, chanVars, psiVars, histVars>>

-----------------------------------------------------------------------------
Counters == 0 .. CounterMod - 1

\* continuity_counter without the flag bit 0x20: it equals no counter.
NoCounter == CounterMod

NextCounter(c) == IF c = CounterMod - 1 THEN 0 ELSE c + 1

\* Fault: the space left in PSI::data is not looked at.
SmallerUnchecked(a, b) == a

Smaller(a, b) == IF a <= b THEN a ELSE b

\* The n bytes of the stream that follow its first p.
Bytes(p, n) == [i \in 1 .. n |-> p + i]

SectionSize(k) == sections[k].last + 1 - sections[k].first

SectionBytes(k) == Bytes(sections[k].first - 1, SectionSize(k))

\* Fault: the length of the section decides, without the CRC.
HoldsUnchecked(d, k) == Len(d) > 0 /\ d[1] = sections[k].first /\ SectionSize(k) <= Len(d)

\* The CRC over the first bytes of d holds: they are section k, byte for byte.
Holds(d, k) == /\ SectionSize(k) <= Len(d)
               /\ \A i \in 1 .. SectionSize(k) : d[i] = sections[k].first - 1 + i

Packets == {p \in [unit : BOOLEAN, pointer : Nat, counter : Counters,
                   start : Nat, size : Nat] : p.pointer <= p.size}

Placements == {s \in [first : Nat \ {0}, last : Nat, lead : BOOLEAN] : s.first <= s.last}

-----------------------------------------------------------------------------
(* The multiplexer and the reception.                                      *)

\* Where the last section placed so far ends.
End == IF sections = << >> THEN 0 ELSE sections[Len(sections)].last

Pointer == IF End > sent THEN End - sent ELSE 0

\* One more packet with n payload bytes, received or lost.
Send(unit, pointer, n) ==
  /\ ~pending
  /\ sent + n <= MaxCells
  /\ sent' = sent + n
  /\ muxCounter' = NextCounter(muxCounter)
  /\ \/ /\ pkt' = [unit |-> unit, pointer |-> pointer,
                   counter |-> NextCounter(muxCounter),
                   start |-> sent, size |-> n]
        /\ pending' = TRUE
        /\ repeated' = FALSE
        /\ lost' = 0
        /\ UNCHANGED cleanFrom
     \/ /\ lost < MaxBurst
        /\ lost' = lost + 1
        /\ cleanFrom' = sent + n
        /\ UNCHANGED <<pkt, pending, repeated>>
  /\ UNCHANGED <<psiVars, handed, delivered>>

\* A packet in which no section starts.
SendContinuation ==
  /\ End > sent
  /\ \E n \in 1 .. MaxPayload : Send(FALSE, 0, n)
  /\ UNCHANGED sections

\* A packet in which a section of z bytes starts, after the tail of the
\* section in progress, and possibly another one behind it.
SendStart ==
  \E n \in 1 .. MaxPayload, z \in Sizes :
    LET one == [first |-> sent + Pointer + 1, last |-> sent + Pointer + z, lead |-> TRUE]
    IN  /\ Pointer < n
        /\ Send(TRUE, Pointer, n)
        /\ \/ sections' = Append(sections, one)
           \/ /\ one.last < sent + n
              /\ \E y \in Sizes :
                   sections' = sections \o
                     <<one, [first |-> one.last + 1, last |-> one.last + y, lead |-> FALSE]>>

\* A packet without payload repeats the counter of the packet before it.
SendEmpty ==
  /\ EmptyPackets
  /\ ~pending
  /\ \E unit \in BOOLEAN :
       pkt' = [unit |-> unit, pointer |-> 0, counter |-> muxCounter,
               start |-> sent, size |-> 0]
  /\ pending' = TRUE
  /\ repeated' = TRUE
  /\ cleanFrom' = sent
  /\ UNCHANGED <<muxVars, lost, psiVars, handed, delivered>>

\* The packet just received arrives once more.
Repeat ==
  /\ ~pending
  /\ ~repeated
  /\ lost = 0
  /\ pending' = TRUE
  /\ repeated' = TRUE
  /\ cleanFrom' = IF pkt.unit THEN cleanFrom ELSE sent
  /\ UNCHANGED <<muxVars, lost, pkt, psiVars, handed, delivered>>

-----------------------------------------------------------------------------
(* extract_psi: one call, by the path it takes.                            *)

Reset ==
  /\ cc' = NoCounter
  /\ data' = << >>
  /\ length' = 0
  /\ pending' = FALSE
  /\ UNCHANGED <<handed, delivered>>

\* std::copy of n bytes from position p on, as far as there is space left.
Copied(kept, p, n) == kept \o Bytes(p, Smaller(n, Cap - Len(kept)))

\* Put n bytes of the packet, from offset from on, behind the bytes kept, look
\* for a whole section, and let the caller use the one found now or earlier.
Collect(kept, keptLength, from, n) ==
  /\ data' = IF n > 0 /\ from + n <= pkt.size
             THEN Copied(kept, pkt.start + from, n)
             ELSE kept
  /\ length' = IF \E k \in DOMAIN sections : Holds(data', k)
               THEN SectionSize(CHOOSE k \in DOMAIN sections : Holds(data', k))
               ELSE keptLength
  /\ handed' = IF length' > 0 THEN SubSeq(data', 1, length') ELSE handed
  /\ delivered' = delivered \cup
       {k \in DOMAIN sections : length' > 0 /\ handed' = SectionBytes(k)}

UnitWithoutPayload ==
  /\ pending /\ pkt.unit /\ pkt.size = 0
  /\ Reset
  /\ UNCHANGED <<muxVars, lost, pkt, repeated, cleanFrom>>

\* Fault: the counter does not wrap.
InSequenceUnwrapped == cc + 1 = pkt.counter /\ cc # NoCounter

\* Fault: any packet continues the section.
InAnySequence == cc # NoCounter

InSequence == NextCounter(cc) = pkt.counter /\ cc # NoCounter

\* Fault: the counter is not taken over before the second call.
FinishPreviousKeepingCounter ==
  /\ pending /\ pkt.unit /\ pkt.size > 0
  /\ pkt.pointer > 0 /\ InSequence
  /\ Collect(data, length, 0, pkt.pointer)
  /\ UNCHANGED <<muxVars, chanVars, cc, cleanFrom>>

\* The tail before the pointed byte completes what was collected; done stays 0
\* and the caller calls again with the same packet.
FinishPrevious ==
  /\ pending /\ pkt.unit /\ pkt.size > 0
  /\ pkt.pointer > 0 /\ InSequence
  /\ cc' = pkt.counter
  /\ Collect(data, length, 0, pkt.pointer)
  /\ UNCHANGED <<muxVars, chanVars, cleanFrom>>

\* Fault: version_number survives the bytes it was found in.
StartSectionKeepingVersion ==
  /\ pending /\ pkt.unit /\ pkt.size > 0
  /\ ~(pkt.pointer > 0 /\ InSequence)
  /\ cc' = pkt.counter
  /\ Collect(<< >>, length, pkt.pointer, pkt.size - pkt.pointer)
  /\ pending' = FALSE
  /\ UNCHANGED <<muxVars, lost, pkt, repeated, cleanFrom>>

StartSection ==
  /\ pending /\ pkt.unit /\ pkt.size > 0
  /\ ~(pkt.pointer > 0 /\ InSequence)
  /\ cc' = pkt.counter
  /\ Collect(<< >>, 0, pkt.pointer, pkt.size - pkt.pointer)
  /\ pending' = FALSE
  /\ UNCHANGED <<muxVars, lost, pkt, repeated, cleanFrom>>

ContinueSection ==
  /\ pending /\ ~pkt.unit /\ InSequence
  /\ cc' = pkt.counter
  /\ Collect(data, length, 0, pkt.size)
  /\ pending' = FALSE
  /\ UNCHANGED <<muxVars, lost, pkt, repeated, cleanFrom>>

OutOfSequence ==
  /\ pending /\ ~pkt.unit /\ ~InSequence
  /\ Reset
  /\ UNCHANGED <<muxVars, lost, pkt, repeated, cleanFrom>>

ExtractPsi == \/ UnitWithoutPayload \/ FinishPrevious \/ StartSection
              \/ ContinueSection \/ OutOfSequence

-----------------------------------------------------------------------------
Init ==
  /\ sent = 0
  /\ sections = << >>
  /\ muxCounter \in Counters
  /\ lost = 0
  /\ pkt = [unit |-> FALSE, pointer |-> 0, counter |-> 0, start |-> 0, size |-> 0]
  /\ repeated = TRUE
  /\ pending = FALSE
  /\ cc = NoCounter
  /\ data = << >>
  /\ length = 0
  /\ handed = << >>
  /\ delivered = {}
  /\ cleanFrom = 0

Next == SendContinuation \/ SendStart \/ SendEmpty \/ Repeat \/ ExtractPsi

\* The callers' loop runs on by itself; nothing obliges the broadcaster.
Spec == Init /\ [][Next]_vars /\ WF_vars(ExtractPsi)

-----------------------------------------------------------------------------
(* Properties.                                                             *)

\* Every variable has its type.
TypeOK ==
  /\ sent \in Nat
  /\ sections \in Seq(Placements)
  /\ muxCounter \in Counters
  /\ lost \in 0 .. MaxBurst
  /\ pkt \in Packets
  /\ repeated \in BOOLEAN
  /\ pending \in BOOLEAN
  /\ cc \in Counters \cup {NoCounter}
  /\ data \in Seq(Nat) /\ Len(data) <= Cap
  /\ length \in 0 .. Len(data)
  /\ handed \in Seq(Nat)
  /\ delivered \in SUBSET Nat
  /\ cleanFrom \in Nat

\* The collecting buffer holds an unbroken stretch of the stream (PsiSplicing says when).
NoMixing == \A i \in DOMAIN data : data[i] + 1 = data[1] + i

\* A caller only ever works from a whole section as it was sent, whatever was
\* lost, repeated or spliced: version_number is cleared before the bytes it
\* vouches for are replaced.
DeliveredWhole ==
  handed # << >> => \E k \in DOMAIN sections : handed = SectionBytes(k)

\* The section in the buffer is found: a section that is the first to start in its
\* packet, with no packet of it lost, repeated or interrupted by an empty one, has
\* been used once its last byte is in.
Complete ==
  ~pending => \A k \in DOMAIN sections :
                (/\ sections[k].lead
                 /\ sections[k].first > cleanFrom
                 /\ sections[k].last <= sent) => k \in delivered

\* The loop round extract_psi ends: no packet keeps it calling for ever.
Consumed == pending ~> ~pending

\* Callers see the sections in the order sent, and none before it was sent whole.
Current == IF \E k \in DOMAIN sections : handed = SectionBytes(k)
           THEN CHOOSE k \in DOMAIN sections : handed = SectionBytes(k)
           ELSE 0

Sent == Cardinality({k \in DOMAIN sections : sections[k].last <= sent})

Ordered == INSTANCE SectionDelivery WITH MaxSections <- MaxCells,
                                         complete <- Sent, current <- Current
OrderedDelivery == Ordered!SDSpec
=============================================================================
