-------------------------- MODULE PsiSectionProofs --------------------------
(***************************************************************************)
(* What extract_psi and its callers guarantee for every packet size, every *)
(* buffer size and every multiplex: types, no splicing while the bursts    *)
(* stay shorter than a round of the counter, and, with no such bound,      *)
(* nothing but whole sections in the hands of the callers.                 *)
(***************************************************************************)
EXTENDS PsiSplicing, SequenceTheorems, FiniteSetTheorems, TLAPS

USE CounterAssumption, SizeAssumption, BoundAssumption, EmptyAssumption

-----------------------------------------------------------------------------
(* The operators.                                                          *)

\* A stretch of the stream is a sequence of its positions.
LEMMA BytesShape ==
  ASSUME NEW p \in Nat, NEW n \in Nat
  PROVE  /\ Bytes(p, n) \in Seq(Nat)
         /\ Len(Bytes(p, n)) = n
         /\ \A i \in 1 .. n : Bytes(p, n)[i] = p + i
BY DEF Bytes

\* A buffer that was just cleared.
LEMMA EmptyBuffer ==
  << >> \in Seq(Nat) /\ Len(<< >>) = 0 /\ Len(<< >>) <= Cap /\ 0 \in 0 .. Len(<< >>)
OBVIOUS

\* Counting on from a counter stays a counter and always moves.
LEMMA NextCounterMoves ==
  ASSUME NEW c \in Counters
  PROVE  NextCounter(c) \in Counters /\ NextCounter(c) # c
BY DEF NextCounter, Counters

\* The buffer after a copy: what was kept, then bytes of the packet up to the end
\* of the buffer.
LEMMA CopyShape ==
  ASSUME NEW kept \in Seq(Nat), Len(kept) <= Cap, NEW p \in Nat, NEW n \in Nat
  PROVE  LET d == Copied(kept, p, n) IN
         /\ d \in Seq(Nat)
         /\ Len(d) = Len(kept) + Smaller(n, Cap - Len(kept))
         /\ Len(d) <= Cap
         /\ Len(kept) <= Len(d)
         /\ \A i \in 1 .. Len(kept) : d[i] = kept[i]
         /\ \A i \in Len(kept) + 1 .. Len(d) : d[i] = p + i - Len(kept)
<1> DEFINE m == Smaller(n, Cap - Len(kept))
           b == Bytes(p, m)
           d == Copied(kept, p, n)
<1>1. m \in Nat /\ m <= Cap - Len(kept)
  BY DEF Smaller
<1>2. b \in Seq(Nat) /\ Len(b) = m /\ \A i \in 1 .. m : b[i] = p + i
  BY <1>1, BytesShape
<1>3. d = kept \o b
  BY DEF Copied
<1> HIDE DEF m, b, d
<1>4. d \in Seq(Nat) /\ Len(d) = Len(kept) + m
  BY <1>1, <1>2, <1>3, ConcatProperties
<1>5. \A i \in 1 .. Len(kept) : d[i] = kept[i]
  BY <1>1, <1>2, <1>3
<1>6. ASSUME NEW i \in Len(kept) + 1 .. Len(d)
      PROVE  d[i] = p + i - Len(kept)
  <2>1. i - Len(kept) \in 1 .. m /\ i \in Int /\ i > Len(kept)
    BY <1>1, <1>4
  <2>2. i \in 1 .. Len(kept) + Len(b) /\ ~(i <= Len(kept))
    BY <1>1, <1>2, <1>4
  <2>3. d[i] = b[i - Len(kept)]
    BY <1>2, <1>3, <2>2, ConcatProperties
  <2> QED
    BY <1>2, <2>1, <2>3
<1>7. Len(kept) <= Len(d)
  BY <1>1, <1>4
<1> QED
  BY <1>1, <1>4, <1>5, <1>6, <1>7 DEF m, d

-----------------------------------------------------------------------------
(* Types.                                                                  *)

\* The fields of the packet in hand.
LEMMA PktType ==
  ASSUME TypeOK
  PROVE  /\ pkt.start \in Nat /\ pkt.size \in Nat /\ pkt.pointer \in Nat
         /\ pkt.counter \in Counters /\ pkt.unit \in BOOLEAN
         /\ pkt.pointer <= pkt.size
BY DEF TypeOK, Packets

\* The buffer, and how far the stream has been sent.
LEMMA BufferType ==
  ASSUME TypeOK
  PROVE  /\ data \in Seq(Nat) /\ Len(data) <= Cap /\ length \in 0 .. Len(data)
         /\ handed \in Seq(Nat) /\ sent \in Nat
BY DEF TypeOK

\* A placed section has at least one byte and at most the buffer's.
LEMMA SectionSizeType ==
  ASSUME sections \in Seq(Placements), NEW k \in DOMAIN sections
  PROVE  SectionSize(k) \in Nat \ {0} /\ sections[k].first - 1 \in Nat
BY SMTT(30) DEF SectionSize, Placements

\* Collect keeps the types, whatever it starts from, and what it started from stays
\* at the head of the buffer.
LEMMA CollectType ==
  ASSUME TypeOK, NEW kept \in Seq(Nat), Len(kept) <= Cap,
         NEW keptLength \in 0 .. Len(kept),
         NEW from \in Nat, NEW n \in Nat, Collect(kept, keptLength, from, n)
  PROVE  /\ data' \in Seq(Nat) /\ Len(data') <= Cap
         /\ Len(kept) <= Len(data') /\ \A i \in 1 .. Len(kept) : data'[i] = kept[i]
         /\ length' \in 0 .. Len(data')
         /\ handed' \in Seq(Nat)
         /\ delivered' \in SUBSET Nat
<1>1. pkt.start + from \in Nat
  BY SMTT(30) DEF TypeOK, Packets
<1>2. /\ data' \in Seq(Nat) /\ Len(data') <= Cap
      /\ Len(kept) <= Len(data') /\ \A i \in 1 .. Len(kept) : data'[i] = kept[i]
  <2>1. CASE data' = kept
    BY <2>1
  <2>2. CASE data' = Copied(kept, pkt.start + from, n)
    BY SMTT(30), <1>1, <2>2, CopyShape
  <2> QED
    BY <2>1, <2>2 DEF Collect
<1>3. length' \in 0 .. Len(data')
  <2>1. CASE \E k \in DOMAIN sections : Holds(data', k)
    <3> DEFINE k == CHOOSE j \in DOMAIN sections : Holds(data', j)
    <3>1. k \in DOMAIN sections /\ Holds(data', k)
      BY <2>1
    <3>2. length' = SectionSize(k)
      BY <2>1 DEF Collect
    <3> HIDE DEF k
    <3>3. SectionSize(k) \in Nat
      BY <3>1, SectionSizeType DEF TypeOK
    <3> QED
      BY <1>2, <3>1, <3>2, <3>3 DEF Holds
  <2>2. CASE ~\E k \in DOMAIN sections : Holds(data', k)
    BY <1>2, <2>2 DEF Collect
  <2> QED
    BY <2>1, <2>2
<1>4. handed' \in Seq(Nat)
  <2>1. ASSUME length' > 0
        PROVE  SubSeq(data', 1, length') \in Seq(Nat)
    <3>1. \A i \in 1 .. length' : data'[i] \in Nat
      BY SMTT(30), <1>2, <1>3
    <3> QED
      BY <1>3, <3>1, SubSeqProperties
  <2> QED
    BY <2>1 DEF Collect, TypeOK
<1>5. delivered' \in SUBSET Nat
  <2>1. DOMAIN sections \subseteq Nat
    BY DEF TypeOK
  <2> QED
    BY <2>1 DEF Collect, TypeOK
<1> QED
  BY <1>2, <1>3, <1>4, <1>5

\* The tail of the open section is a number of bytes.
LEMMA PointerType ==
  ASSUME TypeOK
  PROVE  End \in Nat /\ Pointer \in Nat
<1>1. End \in Nat
  BY DEF TypeOK, End, Placements
<1> QED
  BY <1>1 DEF TypeOK, Pointer

\* Placing sections leaves those already placed where they are.
LEMMA PlacedStay ==
  ASSUME TypeOK, SendStart
  PROVE  /\ sections' \in Seq(Placements)
         /\ DOMAIN sections \subseteq DOMAIN sections'
         /\ \A k \in DOMAIN sections : sections'[k] = sections[k]
<1>1. PICK n \in 1 .. MaxPayload, z \in Sizes :
        LET one == [first |-> sent + Pointer + 1, last |-> sent + Pointer + z, lead |-> TRUE]
        IN  \/ sections' = Append(sections, one)
            \/ \E y \in Sizes :
                  sections' = sections \o
                    <<one, [first |-> one.last + 1, last |-> one.last + y, lead |-> FALSE]>>
  BY DEF SendStart
<1> DEFINE one == [first |-> sent + Pointer + 1, last |-> sent + Pointer + z, lead |-> TRUE]
<1>2. one \in Placements
  BY SMTT(30), PointerType DEF Placements, TypeOK
<1>3. CASE sections' = Append(sections, one)
  BY <1>2, <1>3, AppendProperties DEF TypeOK
<1>4. ASSUME NEW y \in Sizes,
             sections' = sections \o
               <<one, [first |-> one.last + 1, last |-> one.last + y, lead |-> FALSE]>>
      PROVE  /\ sections' \in Seq(Placements)
             /\ DOMAIN sections \subseteq DOMAIN sections'
             /\ \A k \in DOMAIN sections : sections'[k] = sections[k]
  <2> DEFINE two == [first |-> one.last + 1, last |-> one.last + y, lead |-> FALSE]
  <2>1. two \in Placements
    BY <1>2 DEF Placements
  <2> HIDE DEF one, two
  <2>2. <<one, two>> \in Seq(Placements)
    BY <1>2, <2>1
  <2>3. sections' = sections \o <<one, two>>
    BY <1>4 DEF one, two
  <2>4. sections \in Seq(Placements)
    BY DEF TypeOK
  <2> QED
    BY <2>2, <2>3, <2>4, ConcatProperties
<1> QED
  BY <1>1, <1>3, <1>4

\* Sending a packet keeps the types of everything but the placement of sections.
LEMMA SendType ==
  ASSUME TypeOK, NEW unit \in BOOLEAN, NEW pointer \in Nat, NEW n \in Nat,
         pointer <= n, Send(unit, pointer, n), sections' \in Seq(Placements)
  PROVE  TypeOK'
<1>1. NextCounter(muxCounter) \in Counters
  BY NextCounterMoves DEF TypeOK
<1>2. sent + n \in Nat
  BY DEF TypeOK
<1>3. lost' \in 0 .. MaxBurst /\ cleanFrom' \in Nat
  BY SMTT(30), <1>2 DEF TypeOK, Send
<1>5. pending' \in BOOLEAN /\ repeated' \in BOOLEAN
  BY DEF TypeOK, Send
<1>4. pkt' \in Packets
  BY SMTT(30), <1>1 DEF TypeOK, Send, Packets
<1> QED
  BY <1>1, <1>2, <1>3, <1>4, <1>5 DEF TypeOK, Send, psiVars

\* Every step keeps the types.
LEMMA TypeStep ==
  ASSUME TypeOK, [Next]_vars
  PROVE  TypeOK'
<1>1. CASE SendContinuation
  <2>1. PICK n \in 1 .. MaxPayload : Send(FALSE, 0, n)
    BY <1>1 DEF SendContinuation
  <2>2. sections' \in Seq(Placements)
    BY <1>1 DEF SendContinuation, TypeOK
  <2> QED
    BY <2>1, <2>2, SendType, 0 <= n, n \in Nat
<1>2. CASE SendStart
  <2>1. PICK n \in 1 .. MaxPayload : Pointer < n /\ Send(TRUE, Pointer, n)
    BY <1>2 DEF SendStart
  <2>2. Pointer \in Nat
    BY PointerType
  <2> QED
    BY <1>2, <2>1, <2>2, PlacedStay, SendType, n \in Nat, Pointer <= n
<1>3. CASE SendEmpty
  <2>1. pkt' \in Packets
    BY <1>3 DEF SendEmpty, TypeOK, Packets
  <2> QED
    BY <1>3, <2>1 DEF SendEmpty, TypeOK, muxVars, psiVars
<1>4. CASE Repeat
  BY <1>4 DEF Repeat, TypeOK, muxVars, psiVars
<1>5. CASE UnitWithoutPayload
  BY <1>5, EmptyBuffer DEF UnitWithoutPayload, Reset, TypeOK, muxVars
<1>6. CASE FinishPrevious
  <2>1. pkt.counter \in Counters /\ pkt.pointer \in Nat
    BY DEF TypeOK, Packets
  <2>2. Collect(data, length, 0, pkt.pointer)
    BY <1>6 DEF FinishPrevious
  <2>3. /\ data' \in Seq(Nat) /\ Len(data') <= Cap /\ length' \in 0 .. Len(data')
        /\ handed' \in Seq(Nat) /\ delivered' \in SUBSET Nat
    BY <2>1, <2>2, CollectType DEF TypeOK
  <2> QED
    BY <1>6, <2>1, <2>3 DEF FinishPrevious, TypeOK, muxVars, chanVars
<1>7. CASE StartSection
  <2>1. pkt.counter \in Counters /\ pkt.pointer \in Nat /\ pkt.size - pkt.pointer \in Nat
    BY DEF TypeOK, Packets
  <2>2. Collect(<< >>, 0, pkt.pointer, pkt.size - pkt.pointer)
    BY <1>7 DEF StartSection
  <2>3. << >> \in Seq(Nat) /\ Len(<< >>) <= Cap /\ 0 \in 0 .. Len(<< >>)
    BY EmptyBuffer
  <2>4. /\ data' \in Seq(Nat) /\ Len(data') <= Cap /\ length' \in 0 .. Len(data')
        /\ handed' \in Seq(Nat) /\ delivered' \in SUBSET Nat
    BY <2>1, <2>2, <2>3, CollectType
  <2> QED
    BY <1>7, <2>1, <2>4 DEF StartSection, TypeOK, muxVars
<1>8. CASE ContinueSection
  <2>1. pkt.counter \in Counters /\ pkt.size \in Nat
    BY DEF TypeOK, Packets
  <2>2. Collect(data, length, 0, pkt.size)
    BY <1>8 DEF ContinueSection
  <2>3. /\ data' \in Seq(Nat) /\ Len(data') <= Cap /\ length' \in 0 .. Len(data')
        /\ handed' \in Seq(Nat) /\ delivered' \in SUBSET Nat
    BY <2>1, <2>2, CollectType DEF TypeOK
  <2> QED
    BY <1>8, <2>1, <2>3 DEF ContinueSection, TypeOK, muxVars
<1>9. CASE OutOfSequence
  BY <1>9, EmptyBuffer DEF OutOfSequence, Reset, TypeOK, muxVars
<1>10. CASE UNCHANGED vars
  BY <1>10 DEF vars, muxVars, chanVars, psiVars, histVars, TypeOK
<1> QED
  BY <1>1, <1>2, <1>3, <1>4, <1>5, <1>6, <1>7, <1>8, <1>9, <1>10 DEF Next, ExtractPsi

\* The initial state has its types.
LEMMA TypeInit == Init => TypeOK
<1> SUFFICES ASSUME Init PROVE TypeOK
  OBVIOUS
<1>1. << >> \in Seq(Placements)
  OBVIOUS
<1>2. pkt \in Packets
  BY DEF Init, Packets, Counters
<1>3. /\ delivered \in SUBSET Nat /\ cleanFrom \in Nat /\ sent \in Nat
      /\ lost \in 0 .. MaxBurst
      /\ handed \in Seq(Nat) /\ sections \in Seq(Placements)
      /\ muxCounter \in Counters /\ cc \in Counters \cup {NoCounter}
  BY <1>1, EmptyBuffer DEF Init
<1>4. data \in Seq(Nat) /\ Len(data) <= Cap /\ length \in 0 .. Len(data)
  BY EmptyBuffer DEF Init
<1>5. repeated \in BOOLEAN /\ pending \in BOOLEAN
  BY DEF Init
<1> QED
  BY <1>2, <1>3, <1>4, <1>5 DEF TypeOK

\* The types are right from the start and stay right, for every packet size,
\* buffer size and multiplex.
THEOREM Typing == Spec => []TypeOK
<1>1. Init => TypeOK
  BY TypeInit
<1>2. TypeOK /\ [Next]_vars => TypeOK'
  BY TypeStep
<1> QED
  BY <1>1, <1>2, PTL DEF Spec

\* The same packet is passed once more, and would not be a third time.
CallAgain == pending /\ pending' => pkt' = pkt /\ InSequence /\ ~InSequence'

\* The callers' loop ends: extract_psi is called a second time for a packet only after the
\* bytes before its pointed byte have finished a section, and then the counter has been taken
\* over, so that the packet no longer follows and the second call is the last.
THEOREM CalledTwiceAtMost == Spec => [][CallAgain]_vars
<1>1. TypeOK /\ [Next]_vars => CallAgain \/ UNCHANGED vars
  <2> SUFFICES ASSUME TypeOK, Next, pending, pending'
               PROVE  pkt' = pkt /\ InSequence /\ ~InSequence'
    BY DEF CallAgain
  <2>1. ~(SendContinuation \/ SendStart \/ SendEmpty \/ Repeat)
    BY DEF SendContinuation, SendStart, SendEmpty, Repeat, Send
  <2>2. ~(UnitWithoutPayload \/ StartSection \/ ContinueSection \/ OutOfSequence)
    BY DEF UnitWithoutPayload, StartSection, ContinueSection, OutOfSequence, Reset
  <2>3. InSequence /\ cc' = pkt.counter /\ pkt' = pkt
    BY <2>1, <2>2 DEF Next, ExtractPsi, FinishPrevious, chanVars
  <2>4. pkt.counter \in Counters
    BY DEF TypeOK, Packets
  <2>5. ~InSequence'
    BY <2>3, <2>4, NextCounterMoves DEF InSequence
  <2> QED
    BY <2>3, <2>5
<1> QED
  BY <1>1, Typing, PTL DEF Spec

-----------------------------------------------------------------------------
(* Nothing but whole sections.                                             *)

\* What version_number vouches for: the section at the head of a buffer.
Vouched(d, n) ==
  n > 0 => \E k \in DOMAIN sections : Holds(d, k) /\ n = SectionSize(k)

WholeInv == Vouched(data, length) /\ DeliveredWhole

\* The head of a buffer whose CRC holds is the section.
LEMMA HeadIsSection ==
  ASSUME TypeOK, NEW k \in DOMAIN sections, NEW d \in Seq(Nat), Holds(d, k)
  PROVE  SubSeq(d, 1, SectionSize(k)) = SectionBytes(k)
<1>1. SectionSize(k) \in Nat \ {0} /\ sections[k].first - 1 \in Nat
  BY SectionSizeType DEF TypeOK
<1>2. \A i \in 1 .. SectionSize(k) : d[i] \in Nat /\ d[i] = sections[k].first - 1 + i
  BY <1>1 DEF Holds
<1> DEFINE head == SubSeq(d, 1, SectionSize(k))
<1>3. /\ head \in Seq(Nat) /\ Len(head) = SectionSize(k)
      /\ \A i \in 1 .. SectionSize(k) : head[i] = d[i]
  BY <1>1, <1>2, SubSeqProperties
<1>4. /\ SectionBytes(k) \in Seq(Nat) /\ Len(SectionBytes(k)) = SectionSize(k)
      /\ \A i \in 1 .. SectionSize(k) : SectionBytes(k)[i] = sections[k].first - 1 + i
  BY <1>1, BytesShape DEF SectionBytes
<1> HIDE DEF head
<1>5. \A i \in 1 .. Len(head) : head[i] = SectionBytes(k)[i]
  BY <1>2, <1>3, <1>4
<1>6. head = SectionBytes(k)
  BY <1>3, <1>4, <1>5, SeqEqual
<1> QED
  BY <1>6 DEF head

\* Collect hands over whole sections if what it starts from is vouched for.
LEMMA CollectWhole ==
  ASSUME TypeOK, DeliveredWhole, NEW kept \in Seq(Nat), Len(kept) <= Cap,
         NEW keptLength \in 0 .. Len(kept), Vouched(kept, keptLength),
         NEW from \in Nat, NEW n \in Nat, Collect(kept, keptLength, from, n)
  PROVE  /\ Vouched(data', length')
         /\ handed' # << >> => \E k \in DOMAIN sections : handed' = SectionBytes(k)
<1>1. /\ data' \in Seq(Nat)
      /\ Len(kept) <= Len(data') /\ \A i \in 1 .. Len(kept) : data'[i] = kept[i]
      /\ length' \in 0 .. Len(data')
  BY CollectType
<1>2. Vouched(data', length')
  <2>1. CASE \E k \in DOMAIN sections : Holds(data', k)
    <3> DEFINE k == CHOOSE j \in DOMAIN sections : Holds(data', j)
    <3>1. k \in DOMAIN sections /\ Holds(data', k)
      BY <2>1
    <3>2. length' = SectionSize(k)
      BY <2>1 DEF Collect
    <3> QED
      BY <3>1, <3>2 DEF Vouched
  <2>2. CASE ~\E k \in DOMAIN sections : Holds(data', k)
    <3>1. length' = keptLength
      BY <2>2 DEF Collect
    <3>2. ASSUME NEW k \in DOMAIN sections, Holds(kept, k)
          PROVE  Holds(data', k)
      <4>1. SectionSize(k) \in Nat
        BY SectionSizeType DEF TypeOK
      <4> QED
        BY <1>1, <3>2, <4>1 DEF Holds
    <3> QED
      BY <2>2, <3>1, <3>2 DEF Vouched
  <2> QED
    BY <2>1, <2>2
<1>3. CASE length' > 0
  <2>1. PICK k \in DOMAIN sections : Holds(data', k) /\ length' = SectionSize(k)
    BY <1>2, <1>3 DEF Vouched
  <2>2. handed' = SectionBytes(k)
    BY <1>1, <1>3, <2>1, HeadIsSection DEF Collect
  <2> QED
    BY <1>2, <2>2
<1>4. CASE ~(length' > 0)
  BY <1>2, <1>4 DEF Collect, DeliveredWhole
<1> QED
  BY <1>3, <1>4

\* A step that leaves the reader and the history alone and only adds sections.
LEMMA WholeKept ==
  ASSUME TypeOK, WholeInv, UNCHANGED <<data, length, handed>>,
         DOMAIN sections \subseteq DOMAIN sections',
         \A k \in DOMAIN sections : sections'[k] = sections[k]
  PROVE  WholeInv'
BY DEF WholeInv, Vouched, DeliveredWhole, Holds, SectionBytes, SectionSize

\* Every step keeps the vouching true.
LEMMA WholeStep ==
  ASSUME TypeOK, WholeInv, [Next]_vars
  PROVE  WholeInv'
<1>1. CASE SendContinuation
  BY <1>1, WholeKept DEF SendContinuation, Send, psiVars
<1>2. CASE SendStart
  <2>1. UNCHANGED <<data, length, handed>>
    BY <1>2 DEF SendStart, Send, psiVars
  <2> QED
    BY <1>2, <2>1, PlacedStay, WholeKept
<1>3. CASE SendEmpty
  BY <1>3, WholeKept DEF SendEmpty, muxVars, psiVars
<1>4. CASE Repeat
  BY <1>4, WholeKept DEF Repeat, muxVars, psiVars
<1>5. CASE Reset /\ UNCHANGED muxVars
  BY <1>5 DEF Reset, WholeInv, Vouched, DeliveredWhole, SectionBytes, SectionSize, muxVars
<1>6. CASE FinishPrevious
  <2>1. Collect(data, length, 0, pkt.pointer) /\ sections' = sections
    BY <1>6 DEF FinishPrevious, muxVars
  <2>2. pkt.pointer \in Nat
    BY DEF TypeOK, Packets
  <2>3. /\ Vouched(data', length')
        /\ handed' # << >> => \E k \in DOMAIN sections : handed' = SectionBytes(k)
    BY <2>1, <2>2, CollectWhole DEF TypeOK, WholeInv
  <2> QED
    BY <2>1, <2>3 DEF WholeInv, Vouched, DeliveredWhole, Holds, SectionBytes, SectionSize
<1>7. CASE StartSection
  <2>1. Collect(<< >>, 0, pkt.pointer, pkt.size - pkt.pointer) /\ sections' = sections
    BY <1>7 DEF StartSection, muxVars
  <2>2. pkt.pointer \in Nat /\ pkt.size - pkt.pointer \in Nat
    BY DEF TypeOK, Packets
  <2>3. Vouched(<< >>, 0)
    BY DEF Vouched
  <2>4. /\ Vouched(data', length')
        /\ handed' # << >> => \E k \in DOMAIN sections : handed' = SectionBytes(k)
    BY <2>1, <2>2, <2>3, EmptyBuffer, CollectWhole DEF WholeInv
  <2> QED
    BY <2>1, <2>4 DEF WholeInv, Vouched, DeliveredWhole, Holds, SectionBytes, SectionSize
<1>8. CASE ContinueSection
  <2>1. Collect(data, length, 0, pkt.size) /\ sections' = sections
    BY <1>8 DEF ContinueSection, muxVars
  <2>2. pkt.size \in Nat
    BY DEF TypeOK, Packets
  <2>3. /\ Vouched(data', length')
        /\ handed' # << >> => \E k \in DOMAIN sections : handed' = SectionBytes(k)
    BY <2>1, <2>2, CollectWhole DEF TypeOK, WholeInv
  <2> QED
    BY <2>1, <2>3 DEF WholeInv, Vouched, DeliveredWhole, Holds, SectionBytes, SectionSize
<1>9. CASE UNCHANGED vars
  BY <1>9, WholeKept DEF vars, muxVars, psiVars, histVars
<1> QED
  BY <1>1, <1>2, <1>3, <1>4, <1>5, <1>6, <1>7, <1>8, <1>9
     DEF Next, ExtractPsi, UnitWithoutPayload, OutOfSequence

\* Whatever the reception does to the packets, the callers of extract_psi only ever
\* work from a whole section as it was sent: each call that leaves version_number
\* set leaves the section it vouches for at the head of the buffer.
THEOREM WholeSections == Spec => []DeliveredWhole
<1>1. Init => TypeOK /\ WholeInv
  BY TypeInit DEF Init, WholeInv, Vouched, DeliveredWhole
<1>2. TypeOK /\ WholeInv /\ [Next]_vars => TypeOK' /\ WholeInv'
  BY TypeStep, WholeStep
<1>3. WholeInv => DeliveredWhole
  BY DEF WholeInv
<1> QED
  BY <1>1, <1>2, <1>3, PTL DEF Spec

-----------------------------------------------------------------------------
(* No splicing while the counter can tell.                                 *)

\* The counter k packets after counter c.
Ahead(c, k) == IF c + k >= CounterMod THEN c + k - CounterMod ELSE c + k

\* The bytes collected run up to position p, or there is no space for more.
RunsTo(p) == data = << >> \/ Len(data) = Cap \/ data[Len(data)] = p

\* The packet in hand is the last one sent.
PktIsLast == pkt.counter = muxCounter /\ pkt.start + pkt.size = sent

\* The flagged counter of the reader tells how far the multiplexer is ahead, and a
\* packet that it takes for the next one is the next one.
SyncInv ==
  /\ pending => lost = 0 /\ PktIsLast /\ (InSequence => RunsTo(pkt.start))
  /\ lost = 0 /\ ~repeated => PktIsLast
  /\ ~pending /\ cc # NoCounter =>
        /\ muxCounter = Ahead(cc, lost)
        /\ lost = 0 => RunsTo(sent)

\* Less than a whole round ahead, the next counter comes only after the last packet.
LEMMA NextAhead ==
  ASSUME NEW c \in Counters, NEW k \in 0 .. CounterMod - 1
  PROVE  /\ NextCounter(Ahead(c, k)) = Ahead(c, k + 1)
         /\ NextCounter(c) = Ahead(c, k + 1) => k = 0
         /\ Ahead(c, 0) = c
BY DEF NextCounter, Ahead, Counters

\* A stretch without a gap.
Unbroken(d) == \A i \in 1 .. Len(d) : d[i] + 1 = d[1] + i

\* Arithmetic of the positions in a stretch.
LEMMA Rearranged ==
  ASSUME NEW a \in Int, NEW b \in Int, NEW c \in Int, NEW e \in Int, a + 1 = b + c
  PROVE  (a + e - c) + 1 = b + e
OBVIOUS

\* Copying behind a stretch that runs up to the bytes copied lengthens the stretch.
LEMMA CopyUnbroken ==
  ASSUME NEW kept \in Seq(Nat), Len(kept) <= Cap, NEW p \in Nat, NEW n \in Nat,
         Unbroken(kept),
         kept = << >> \/ Len(kept) = Cap \/ kept[Len(kept)] = p
  PROVE  LET d == Copied(kept, p, n) IN
         /\ Unbroken(d)
         /\ n > 0 => Len(d) = Cap \/ d[Len(d)] = p + n
<1> DEFINE d == Copied(kept, p, n)
           m == Smaller(n, Cap - Len(kept))
<1>1. /\ d \in Seq(Nat) /\ Len(d) = Len(kept) + m /\ Len(d) <= Cap
      /\ \A i \in 1 .. Len(kept) : d[i] = kept[i]
      /\ \A i \in Len(kept) + 1 .. Len(d) : d[i] = p + i - Len(kept)
  BY CopyShape
<1>2. m \in Nat /\ Len(kept) \in Nat /\ (m = n \/ Len(kept) + m = Cap)
  BY DEF Smaller
<1>3. \A i \in 1 .. Len(kept) : kept[i] \in Nat /\ kept[i] + 1 = kept[1] + i
  BY ElementOfSeq DEF Unbroken
<1>4. Len(kept) = 0 \/ Len(kept) = Cap \/ kept[Len(kept)] = p
  BY EmptyBuffer
<1> HIDE DEF d, m
<1>5. ASSUME NEW i \in 1 .. Len(d)
      PROVE  d[i] + 1 = d[1] + i
  <2>1. CASE Len(kept) = 0
    <3>1. d[i] = p + i /\ d[1] = p + 1
      BY <1>1, <1>2, <2>1
    <3> QED
      BY <1>2, <3>1
  <2>2. CASE Len(kept) > 0 /\ i <= Len(kept)
    <3>1. d[i] = kept[i] /\ d[1] = kept[1] /\ i \in 1 .. Len(kept)
      BY <1>1, <1>2, <2>2
    <3> QED
      BY <1>3, <3>1
  <2>3. CASE Len(kept) > 0 /\ i > Len(kept)
    <3>1. d[i] = p + i - Len(kept) /\ d[1] = kept[1] /\ Len(kept) # Cap
      <4>1. Len(kept) # Cap /\ i \in Len(kept) + 1 .. Len(d) /\ 1 \in 1 .. Len(kept)
        BY <1>1, <1>2, <2>3
      <4>2. d[1] = kept[1]
        BY <1>1, <1>2, <4>1
      <4>3. d[i] = p + i - Len(kept)
        BY <1>1, <1>2, <4>1
      <4> QED
        BY <4>1, <4>2, <4>3
    <3>2. kept[Len(kept)] = p /\ p + 1 = kept[1] + Len(kept) /\ kept[1] \in Nat
      <4>1. Len(kept) \in 1 .. Len(kept) /\ 1 \in 1 .. Len(kept)
        BY <1>2, <2>3
      <4>2. kept[Len(kept)] = p
        BY <1>4, <2>3, <3>1
      <4>3. kept[Len(kept)] + 1 = kept[1] + Len(kept) /\ kept[1] \in Nat
        BY <1>3, <4>1
      <4> QED
        BY <4>2, <4>3
    <3>3. i \in Int /\ Len(kept) \in Int /\ p \in Int /\ kept[1] \in Int
      BY <1>2, <3>2
    <3>4. (p + i - Len(kept)) + 1 = kept[1] + i
      BY SMTT(30), <3>2, <3>3, Rearranged
    <3> QED
      BY <3>1, <3>4
  <2> QED
    BY <1>2, <2>1, <2>2, <2>3
<1>6. ASSUME n > 0
      PROVE  Len(d) = Cap \/ d[Len(d)] = p + n
  <2>1. CASE m = n
    <3>1. Len(d) \in Len(kept) + 1 .. Len(d) /\ Len(d) = Len(kept) + n
      BY <1>1, <1>2, <1>6, <2>1
    <3>2. d[Len(d)] = p + Len(d) - Len(kept)
      BY <1>1, <3>1
    <3> QED
      BY <1>2, <3>1, <3>2
  <2> QED
    BY <1>1, <1>2, <2>1
<1> QED
  BY <1>5, <1>6 DEF d, Unbroken

\* Collect keeps an unbroken stretch unbroken, if the bytes it copies follow it, and
\* a copy to the end of the packet makes it run up to there.
LEMMA CollectUnbroken ==
  ASSUME TypeOK, NEW kept \in Seq(Nat), Len(kept) <= Cap, NEW keptLength,
         NEW from \in Nat, NEW n \in Nat, Collect(kept, keptLength, from, n),
         Unbroken(kept),
         kept = << >> \/ Len(kept) = Cap \/ kept[Len(kept)] = pkt.start + from,
         from + n <= pkt.size
  PROVE  /\ Unbroken(data')
         /\ \/ data' = << >> \/ Len(data') = Cap
            \/ data'[Len(data')] = (pkt.start + from) + n
<1>1. pkt.start + from \in Nat
  BY DEF TypeOK, Packets
<1>2. CASE n > 0
  <2>1. data' = Copied(kept, pkt.start + from, n)
    BY <1>2 DEF Collect
  <2> QED
    BY <1>1, <1>2, <2>1, CopyUnbroken
<1>3. CASE n = 0
  <2>1. data' = kept
    BY <1>3 DEF Collect
  <2>2. pkt.start + from + n = pkt.start + from
    BY <1>1, <1>3
  <2> QED
    BY <2>1, <2>2
<1> QED
  BY <1>2, <1>3

UnbrokenInv == NoMixing /\ SyncInv

\* Every step of a reception whose losses the counters tell keeps the reader in step with
\* the multiplexer.
LEMMA UnbrokenStep ==
  ASSUME lost < CounterMod, Told,
         TypeOK, TypeOK', UnbrokenInv, [Next]_vars
  PROVE  UnbrokenInv'
<1> USE DEF UnbrokenInv
<1>1. /\ Len(data) \in Nat /\ data \in Seq(Nat)
      /\ Unbroken(data)
  <2>1. data \in Seq(Nat)
    BY DEF TypeOK
  <2>2. NoMixing
    OBVIOUS
  <2> QED
    BY <2>1, <2>2, LenProperties DEF NoMixing, Unbroken
<1>10. data' \in Seq(Nat) /\ DOMAIN data' = 1 .. Len(data')
  BY LenProperties DEF TypeOK
<1>2. ASSUME NEW unit \in BOOLEAN, NEW pointer \in Nat, NEW n \in 1 .. MaxPayload,
             Send(unit, pointer, n)
      PROVE  UnbrokenInv'
  <2>1. NoMixing' /\ data' = data /\ cc' = cc
    BY <1>2 DEF Send, psiVars, NoMixing
  <2>2. cc # NoCounter => /\ cc \in Counters
                          /\ lost \in 0 .. CounterMod - 1
                          /\ muxCounter' = Ahead(cc, lost + 1)
                          /\ NextCounter(cc) = muxCounter' => lost = 0
    BY <1>2, NextAhead DEF Send, SyncInv, TypeOK
  <2>3. CASE pending'
    <3>3. /\ pkt' = [unit |-> unit, pointer |-> pointer,
                      counter |-> NextCounter(muxCounter), start |-> sent, size |-> n]
          /\ lost' = 0 /\ sent' = sent + n /\ muxCounter' = NextCounter(muxCounter)
      BY <1>2, <2>3 DEF Send
    <3>1. PktIsLast' /\ lost' = 0 /\ pkt'.start = sent
      BY <3>3 DEF PktIsLast
    <3>2. ASSUME InSequence'
          PROVE  RunsTo(pkt.start)'
      <4>1. cc # NoCounter /\ NextCounter(cc) = muxCounter'
        BY <2>1, <3>2, <3>1 DEF InSequence, PktIsLast, NextCounter
      <4>2. lost = 0 /\ ~pending
        BY <1>2, <2>2, <4>1 DEF Send
      <4>3. RunsTo(sent)
        BY <4>1, <4>2 DEF SyncInv
      <4> QED
        BY <2>1, <3>1, <4>3 DEF RunsTo
    <3> QED
      BY <2>1, <2>3, <3>1, <3>2 DEF SyncInv
  <2>4. CASE ~pending'
    <3>1. lost' = lost + 1 /\ lost' # 0
      BY <1>2, <2>4 DEF Send, TypeOK
    <3> QED
      BY <2>1, <2>2, <2>4, <3>1 DEF SyncInv
  <2> QED
    BY <2>3, <2>4
<1>3. CASE Repeat
  <2>1. PktIsLast /\ lost = 0
    BY <1>3 DEF Repeat, SyncInv
  <2>2. cc # NoCounter => cc = pkt.counter /\ cc \in Counters
    BY <1>3, <2>1, NextAhead DEF Repeat, SyncInv, PktIsLast, TypeOK
  <2>3. ~InSequence
    BY <2>2, NextCounterMoves DEF InSequence
  <2> QED
    BY <1>3, <2>1, <2>3
       DEF Repeat, SyncInv, PktIsLast, NoMixing, InSequence, muxVars, psiVars, NextCounter
<1>4. CASE Reset /\ UNCHANGED <<muxVars, lost, pkt, repeated>>
  BY <1>4, EmptyBuffer DEF Reset, SyncInv, PktIsLast, NoMixing, muxVars
<1>5. CASE FinishPrevious
  <2>1. pkt.pointer \in Nat /\ 0 + pkt.pointer <= pkt.size /\ pkt.start + 0 = pkt.start
        /\ pkt.counter \in Counters
    BY PktType
  <2>2. Collect(data, length, 0, pkt.pointer) /\ cc' = pkt.counter
        /\ UNCHANGED <<muxVars, chanVars>> /\ pending /\ InSequence
    BY <1>5 DEF FinishPrevious
  <2>3. RunsTo(pkt.start)
    BY <2>2 DEF SyncInv
  <2>4. Unbroken(data')
    BY <1>1, <2>1, <2>2, <2>3, CollectUnbroken DEF RunsTo, TypeOK
  <2>5. NoMixing'
    BY <1>10, <2>4 DEF NoMixing, Unbroken
  <2>6. ~InSequence'
    BY <2>1, <2>2, NextCounterMoves DEF InSequence, chanVars, NextCounter
  <2> QED
    BY <2>2, <2>5, <2>6 DEF SyncInv, PktIsLast, muxVars, chanVars
<1>6. CASE StartSection
  <2> DEFINE n == pkt.size - pkt.pointer
             none == << >>
  <2>1. /\ pkt.pointer \in Nat /\ n \in Nat /\ pkt.pointer + n <= pkt.size
        /\ (pkt.start + pkt.pointer) + n = pkt.start + pkt.size
        /\ pkt.counter \in Counters
    BY PktType
  <2>2. Collect(none, 0, pkt.pointer, n) /\ cc' = pkt.counter
        /\ pending /\ ~pending' /\ UNCHANGED <<muxVars, lost, pkt, repeated>>
    BY <1>6 DEF StartSection
  <2>3. none \in Seq(Nat) /\ Len(none) <= Cap /\ Unbroken(none) /\ none = << >>
    BY EmptyBuffer DEF Unbroken
  <2> HIDE DEF n, none
  <2>4. /\ Unbroken(data')
        /\ \/ data' = << >> \/ Len(data') = Cap
           \/ data'[Len(data')] = (pkt.start + pkt.pointer) + n
    BY ZenonT(30), <2>1, <2>2, <2>3, CollectUnbroken
  <2>5. NoMixing'
    BY <1>10, <2>4 DEF NoMixing, Unbroken
  <2>6. PktIsLast /\ lost = 0
    BY <2>2 DEF SyncInv
  <2>7. RunsTo(sent)'
    BY <2>1, <2>2, <2>4, <2>6 DEF RunsTo, PktIsLast, muxVars
  <2>8. muxCounter' = Ahead(cc', lost')
    BY <2>1, <2>2, <2>6, NextAhead DEF PktIsLast, muxVars
  <2> QED
    BY <2>2, <2>5, <2>6, <2>7, <2>8 DEF SyncInv, PktIsLast, muxVars
<1>7. CASE ContinueSection
  <2>1. /\ pkt.size \in Nat /\ 0 + pkt.size <= pkt.size /\ pkt.start + 0 = pkt.start
        /\ pkt.start + 0 + pkt.size = pkt.start + pkt.size
        /\ pkt.counter \in Counters
    BY PktType
  <2>2. Collect(data, length, 0, pkt.size) /\ cc' = pkt.counter /\ InSequence
        /\ pending /\ ~pending' /\ UNCHANGED <<muxVars, lost, pkt, repeated>>
    BY <1>7 DEF ContinueSection
  <2>3. RunsTo(pkt.start) /\ PktIsLast /\ lost = 0
    BY <2>2 DEF SyncInv
  <2>4. /\ Unbroken(data')
        /\ \/ data' = << >> \/ Len(data') = Cap
           \/ data'[Len(data')] = (pkt.start + 0) + pkt.size
    <3>1. data = << >> \/ Len(data) = Cap \/ data[Len(data)] = pkt.start + 0
      BY <2>1, <2>3 DEF RunsTo
    <3>2. Len(data) <= Cap
      BY DEF TypeOK
    <3> QED
      BY <1>1, <2>1, <2>2, <3>1, <3>2, CollectUnbroken, 0 \in Nat
  <2>5. NoMixing'
    BY <1>10, <2>4 DEF NoMixing, Unbroken
  <2>6. RunsTo(sent)'
    BY <2>1, <2>2, <2>3, <2>4 DEF RunsTo, PktIsLast, muxVars
  <2>7. muxCounter' = Ahead(cc', lost')
    BY <2>1, <2>2, <2>3, NextAhead DEF PktIsLast, muxVars
  <2> QED
    BY <2>2, <2>3, <2>5, <2>6, <2>7 DEF SyncInv, PktIsLast, muxVars
<1>8. CASE UNCHANGED vars
  BY <1>8 DEF vars, muxVars, chanVars, psiVars, NoMixing, SyncInv, PktIsLast, RunsTo,
              InSequence, NextCounter
<1>9. CASE SendContinuation
  BY <1>2, <1>9 DEF SendContinuation
<1>11. CASE SendStart
  BY <1>2, <1>11, PointerType DEF SendStart
<1>12. ~SendEmpty
  BY DEF SendEmpty, Told
<1> QED
  BY <1>3, <1>4, <1>5, <1>6, <1>7, <1>8, <1>9, <1>11, <1>12
     DEF Next, ExtractPsi, UnitWithoutPayload, OutOfSequence

\* The bytes collected are an unbroken stretch of what was sent, as long as fewer packets
\* than a round of the counter are lost in a row and every packet has payload.
THEOREM NoSplicing == PSSpec => []NoSplice
<1> DEFINE SpliceInv == TypeOK /\ (telling => UnbrokenInv /\ lost < CounterMod)
<1>1. PSInit => SpliceInv
  BY TypeInit, EmptyBuffer DEF PSInit, Init, UnbrokenInv, NoMixing, SyncInv
<1>2. SpliceInv /\ [PSNext]_svars => SpliceInv'
  <2> SUFFICES ASSUME SpliceInv, [PSNext]_svars
               PROVE  SpliceInv'
    OBVIOUS
  <2>1. [Next]_vars
    BY DEF PSNext, svars
  <2>2. TypeOK'
    BY <2>1, TypeStep
  <2>3. CASE UNCHANGED svars
    BY <2>1, <2>2, <2>3 DEF svars, vars, muxVars, chanVars, psiVars, UnbrokenInv, NoMixing,
       SyncInv, PktIsLast, RunsTo, InSequence, NextCounter
  <2>4. CASE PSNext
    BY <2>1, <2>2, <2>4, UnbrokenStep DEF PSNext, Told
  <2> QED
    BY <2>3, <2>4
<1>3. SpliceInv => NoSplice
  BY DEF UnbrokenInv, NoSplice
<1> QED
  BY <1>1, <1>2, <1>3, PTL DEF PSSpec

-----------------------------------------------------------------------------
(* A section that arrives undisturbed is used.                             *)

\* The sections lie one behind the other, each begun within what was sent, none larger
\* than the buffer, and only the last may still be open.
Layout ==
  /\ sent <= MaxCells
  /\ \A k \in DOMAIN sections :
       /\ k <= sections[k].first
       /\ sections[k].first <= sent
       /\ SectionSize(k) <= Cap
       /\ k < Len(sections) => sections[k].last <= sent
  /\ \A j, k \in DOMAIN sections : j < k => sections[j].last < sections[k].first

\* The bytes of a placement.
Size(s) == s.last + 1 - s.first

\* What a packet in which a section starts places: that section behind the tail of the one in
\* progress, and perhaps another one that begins in the same packet.
LEMMA StartPlaces ==
  ASSUME TypeOK, SendStart
  PROVE  \E n \in 1 .. MaxPayload, m \in 1 .. 2 :
           /\ Pointer < n /\ Send(TRUE, Pointer, n)
           /\ sections' \in Seq(Placements) /\ Len(sections') = Len(sections) + m
           /\ \A k \in DOMAIN sections : sections'[k] = sections[k]
           /\ sections'[Len(sections) + 1].lead
           /\ sections'[Len(sections) + 1].first = sent + Pointer + 1
           /\ Size(sections'[Len(sections) + 1]) \in 1 .. Cap
           /\ m = 2 => /\ ~sections'[Len(sections) + 2].lead
                       /\ sections'[Len(sections) + 1].last < sent + n
                       /\ sections'[Len(sections) + 2].first
                             = sections'[Len(sections) + 1].last + 1
                       /\ Size(sections'[Len(sections) + 2]) \in 1 .. Cap
<1>1. PICK n \in 1 .. MaxPayload, z \in Sizes :
        LET one == [first |-> sent + Pointer + 1, last |-> sent + Pointer + z, lead |-> TRUE]
        IN  /\ Pointer < n
            /\ Send(TRUE, Pointer, n)
            /\ \/ sections' = Append(sections, one)
               \/ /\ one.last < sent + n
                  /\ \E y \in Sizes :
                       sections' = sections \o
                         <<one, [first |-> one.last + 1, last |-> one.last + y, lead |-> FALSE]>>
  BY DEF SendStart
<1> DEFINE one == [first |-> sent + Pointer + 1, last |-> sent + Pointer + z, lead |-> TRUE]
           N   == Len(sections)
<1>2. /\ one.first = sent + Pointer + 1 /\ one.last = sent + Pointer + z /\ one.lead
      /\ one.first \in Nat /\ one.last \in Nat /\ one.last + 1 - one.first = z
      /\ z \in 1 .. Cap /\ sections \in Seq(Placements) /\ N \in Nat /\ one \in Placements
  <2>1. Pointer \in Nat /\ sent \in Nat /\ sections \in Seq(Placements) /\ N \in Nat
    BY PointerType DEF TypeOK
  <2>2. z \in 1 .. Cap
    OBVIOUS
  <2> QED
    BY <2>1, <2>2 DEF Placements
<1>3. sections' \in Seq(Placements) /\ \A k \in DOMAIN sections : sections'[k] = sections[k]
  BY PlacedStay
<1>4. Pointer < n /\ Send(TRUE, Pointer, n)
  BY <1>1
<1>5. CASE sections' = Append(sections, one)
  <2> HIDE DEF one
  <2>1. Len(sections') = N + 1 /\ sections'[N + 1] = one
    BY <1>2, <1>5, AppendProperties
  <2>2. Size(sections'[N + 1]) = z
    BY <1>2, <2>1 DEF Size
  <2>3. 1 \in 1 .. 2 /\ 1 # 2
    OBVIOUS
  <2> QED
    BY <1>2, <1>3, <1>4, <2>1, <2>2, <2>3
<1>6. ASSUME NEW y \in Sizes, one.last < sent + n,
             sections' = sections \o
               <<one, [first |-> one.last + 1, last |-> one.last + y, lead |-> FALSE]>>
      PROVE  /\ Len(sections') = N + 2 /\ sections'[N + 1] = one
             /\ ~sections'[N + 2].lead /\ sections'[N + 2].first = one.last + 1
             /\ Size(sections'[N + 1]) \in 1 .. Cap /\ Size(sections'[N + 2]) \in 1 .. Cap
  <2> DEFINE two == [first |-> one.last + 1, last |-> one.last + y, lead |-> FALSE]
             pair == <<one, two>>
  <2> HIDE DEF one
  <2>1. /\ two.first = one.last + 1 /\ two.last = one.last + y /\ ~two.lead
        /\ two.last + 1 - two.first = y /\ y \in 1 .. Cap /\ two \in Placements
    <3>1. y \in 1 .. Cap
      OBVIOUS
    <3> QED
      BY <1>2, <3>1 DEF Placements
  <2>2. pair \in Seq(Placements) /\ Len(pair) = 2 /\ pair[1] = one /\ pair[2] = two
    <3> HIDE DEF two
    <3> QED
      BY <1>2, <2>1
  <2>3. sections' = sections \o pair
    BY <1>6
  <2> HIDE DEF two, pair
  <2>5. Len(sections') = N + 2 /\ sections'[N + 1] = pair[1] /\ sections'[N + 2] = pair[2]
    <3> DEFINE whole == sections \o pair
    <3>6. sections \in Seq(Placements) /\ pair \in Seq(Placements)
      BY <1>2, <2>2
    <3>1. Len(whole) = N + Len(pair)
      BY ONLY <3>6, ConcatProperties
    <3>2. \A i \in 1 .. N + Len(pair) :
            whole[i] = IF i <= N THEN sections[i] ELSE pair[i - N]
      BY ONLY <3>6, ConcatProperties
    <3> HIDE DEF whole
    <3>5. Len(sections') = N + 2 /\ \A i \in 1 .. N + 2 : i > N => sections'[i] = pair[i - N]
      BY <1>2, <2>2, <2>3, <3>1, <3>2 DEF whole
    <3>3. sections'[N + 1] = pair[(N + 1) - N] /\ sections'[N + 2] = pair[(N + 2) - N]
      BY <1>2, <3>5
    <3>4. (N + 1) - N = 1 /\ (N + 2) - N = 2
      BY <1>2
    <3> QED
      BY <3>3, <3>4, <3>5
  <2> QED
    BY <1>2, <2>1, <2>2, <2>5 DEF Size
<1>7. CASE /\ one.last < sent + n
           /\ \E y \in Sizes :
                sections' = sections \o
                  <<one, [first |-> one.last + 1, last |-> one.last + y, lead |-> FALSE]>>
  <2>1. /\ Len(sections') = N + 2 /\ sections'[N + 1] = one
        /\ ~sections'[N + 2].lead /\ sections'[N + 2].first = one.last + 1
        /\ Size(sections'[N + 1]) \in 1 .. Cap /\ Size(sections'[N + 2]) \in 1 .. Cap
    BY <1>6, <1>7
  <2> HIDE DEF one
  <2>2. 2 \in 1 .. 2
    OBVIOUS
  <2> QED
    BY <1>2, <1>3, <1>4, <1>7, <2>1, <2>2
<1> QED
  BY <1>1, <1>5, <1>7

\* Where the last section ends, and that only it may be open.
LEMMA EndBounds ==
  ASSUME TypeOK, Layout
  PROVE  /\ Len(sections) <= End /\ End <= sent + Pointer
         /\ \A k \in DOMAIN sections :
              /\ sections[k].last <= End
              /\ sections[k].last > sent => k = Len(sections) /\ sections[k].last = sent + Pointer
<1>1. /\ sections \in Seq(Placements) /\ Len(sections) \in Nat /\ sent \in Nat
      /\ DOMAIN sections = 1 .. Len(sections)
      /\ \A k \in DOMAIN sections : /\ sections[k].first \in Nat /\ sections[k].last \in Nat
                                    /\ sections[k].first <= sections[k].last
  BY DEF TypeOK, Placements
<1>2. CASE sections = << >>
  BY <1>1, <1>2 DEF End, Pointer
<1>3. CASE sections # << >>
  <2>1. Len(sections) \in DOMAIN sections /\ End = sections[Len(sections)].last
    BY <1>1, <1>3 DEF End
  <2>2. Len(sections) <= End
    BY <1>1, <2>1 DEF Layout
  <2>3. \A k \in DOMAIN sections : k = Len(sections) \/ sections[k].last < sections[Len(sections)].first
    BY <1>1, <2>1 DEF Layout
  <2>4. \A k \in DOMAIN sections : sections[k].last > sent => k = Len(sections)
    BY <1>1 DEF Layout
  <2>5. End <= sent + Pointer /\ (End > sent => End = sent + Pointer)
    BY <1>1, <2>1 DEF Pointer
  <2> QED
    BY <1>1, <2>1, <2>2, <2>3, <2>4, <2>5
<1> QED
  BY <1>2, <1>3

\* Sending keeps the order of the sections.
LEMMA LayoutStep ==
  ASSUME TypeOK, TypeOK', Layout, [Next]_vars
  PROVE  Layout'
<1>0. sent \in Nat /\ sections \in Seq(Placements) /\ Len(sections) \in Nat
  BY DEF TypeOK
<1>1. CASE UNCHANGED <<sent, sections>>
  BY <1>1 DEF Layout, SectionSize
<1>2. CASE SendContinuation
  <2>1. PICK n \in 1 .. MaxPayload : Send(FALSE, 0, n)
    BY <1>2 DEF SendContinuation
  <2>2. sections' = sections /\ sent' = sent + n /\ sent' <= MaxCells
    BY <1>2, <2>1 DEF SendContinuation, Send
  <2>3. sent <= sent'
    BY <1>0, <2>2
  <2>4. \A k \in DOMAIN sections : sections[k].first \in Nat /\ sections[k].last \in Nat
    BY <1>0 DEF Placements
  <2>5. sent' \in Nat
    BY <1>0, <2>2
  <2> QED
    BY <1>0, <2>2, <2>3, <2>4, <2>5 DEF Layout, SectionSize
<1>3. CASE SendStart
  <2> DEFINE N == Len(sections)
  <2>1. PICK n \in 1 .. MaxPayload, m \in 1 .. 2 :
           /\ Pointer < n /\ Send(TRUE, Pointer, n)
           /\ sections' \in Seq(Placements) /\ Len(sections') = N + m
           /\ \A k \in DOMAIN sections : sections'[k] = sections[k]
           /\ sections'[N + 1].first = sent + Pointer + 1
           /\ Size(sections'[N + 1]) \in 1 .. Cap
           /\ m = 2 => /\ sections'[N + 1].last < sent + n
                       /\ sections'[N + 2].first = sections'[N + 1].last + 1
                       /\ Size(sections'[N + 2]) \in 1 .. Cap
    BY <1>3, StartPlaces
  <2>2. sent' = sent + n /\ sent' <= MaxCells /\ Pointer \in Nat /\ sent' \in Nat
    <3>1. sent' = sent + n /\ sent' <= MaxCells
      BY <2>1 DEF Send
    <3>2. Pointer \in Nat
      BY PointerType
    <3> QED
      BY <1>0, <3>1, <3>2
  <2>3. /\ Len(sections) <= End /\ End <= sent + Pointer
        /\ \A k \in DOMAIN sections : sections[k].last <= End
    BY EndBounds
  <2>4. End \in Nat
    BY PointerType
  <2>5. /\ DOMAIN sections' = 1 .. N + m /\ DOMAIN sections = 1 .. N
        /\ \A k \in DOMAIN sections' : sections'[k].first \in Nat /\ sections'[k].last \in Nat
                                       /\ sections'[k].first <= sections'[k].last
    BY <1>0, <2>1 DEF Placements
  <2>6. \A k \in DOMAIN sections' : k \in DOMAIN sections \/ k = N + 1 \/ (m = 2 /\ k = N + 2)
    BY <1>0, <2>5
  <2>12. N + 1 \in DOMAIN sections'
    BY <1>0, <2>5
  <2>7. ASSUME NEW k \in DOMAIN sections
        PROVE  /\ k <= sections'[k].first /\ sections'[k].first <= sent'
               /\ SectionSize(k)' <= Cap /\ sections'[k].last <= sent + Pointer
               /\ sections'[k].last <= sent'
    <3>1. /\ k <= sections[k].first /\ sections[k].first <= sent /\ SectionSize(k) <= Cap
          /\ sections'[k] = sections[k] /\ SectionSize(k)' = SectionSize(k)
      BY <2>1 DEF Layout, SectionSize
    <3>2. /\ sections[k].first \in Nat /\ sections[k].last \in Nat
          /\ sections[k].last <= End
      BY <1>0, <2>3 DEF Placements
    <3> QED
      <4>1. k \in Nat /\ Pointer \in Nat /\ End \in Nat /\ sent' = sent + n /\ Pointer < n
            /\ sent \in Nat /\ n \in Nat /\ End <= sent + Pointer
        BY <1>0, <2>1, <2>2, <2>3, <2>4
      <4>2. sections[k].first <= sent' /\ sections[k].last <= sent + Pointer
        BY ONLY <3>1, <3>2, <4>1
      <4>3. sections[k].last <= sent'
        BY ONLY <3>2, <4>1, <4>2
      <4> QED
        BY <3>1, <4>2, <4>3
  <2>8. /\ N + 1 <= sections'[N + 1].first /\ sections'[N + 1].first <= sent'
        /\ Size(sections'[N + 1]) <= Cap
    BY <1>0, <2>1, <2>2, <2>3, <2>4
  <2>9. ASSUME m = 2
        PROVE  /\ N + 2 <= sections'[N + 2].first /\ sections'[N + 2].first <= sent'
               /\ Size(sections'[N + 2]) <= Cap
               /\ sections'[N + 1].last <= sent'
    <3>1. /\ sections'[N + 1].last < sent + n
          /\ sections'[N + 2].first = sections'[N + 1].last + 1
          /\ Size(sections'[N + 2]) \in 1 .. Cap
      BY <2>1, <2>9
    <3>2. /\ sections'[N + 1].last \in Nat /\ sections'[N + 1].first \in Nat
          /\ sections'[N + 1].first <= sections'[N + 1].last
      BY <2>5, <2>12
    <3>3. N \in Nat
      BY <1>0
    <3> HIDE DEF N
    <3> QED
      BY <1>0, <2>2, <2>8, <3>1, <3>2, <3>3
  <2>10. ASSUME NEW k \in DOMAIN sections', k < Len(sections')
         PROVE  sections'[k].last <= sent'
    BY <1>0, <2>1, <2>5, <2>6, <2>7, <2>9, <2>10
  <2>11. ASSUME NEW j \in DOMAIN sections', NEW k \in DOMAIN sections', j < k
         PROVE  sections'[j].last < sections'[k].first
    <3>1. CASE j \in DOMAIN sections /\ k \in DOMAIN sections
      BY <2>1, <2>11, <3>1 DEF Layout
    <3>2. CASE j \in DOMAIN sections /\ k = N + 1
      <4>1. sections'[j].last <= sent + Pointer /\ sections'[j].last \in Nat
        BY <2>5, <2>7, <2>11, <3>2
      <4>2. sections'[k].first = sent + Pointer + 1
        BY <2>1, <3>2
      <4> QED
        BY <1>0, <2>2, <4>1, <4>2
    <3>3. CASE j \in DOMAIN sections /\ m = 2 /\ k = N + 2
      <4>1. sections'[j].last < sections'[N + 1].first
        BY <1>0, <2>1, <2>2, <2>5, <2>7, <3>3
      <4> QED
        <5>1. /\ sections'[N + 1].last \in Nat /\ sections'[N + 1].first \in Nat
              /\ sections'[j].last \in Nat
              /\ sections'[N + 1].first <= sections'[N + 1].last
          BY <2>5, <2>12
        <5>2. sections'[k].first = sections'[N + 1].last + 1
          BY <2>1, <3>3
        <5> QED
          BY <4>1, <5>1, <5>2
    <3>4. CASE j = N + 1 /\ m = 2 /\ k = N + 2
      <4>1. /\ sections'[N + 1].last \in Nat
            /\ sections'[N + 2].first = sections'[N + 1].last + 1
        BY <2>1, <2>5, <2>12, <3>4
      <4> QED
        BY <3>4, <4>1
    <3> QED
      BY <1>0, <2>5, <2>6, <2>11, <3>1, <3>2, <3>3, <3>4
  <2> HIDE DEF N
  <2>13. \A k \in DOMAIN sections' : /\ k <= sections'[k].first /\ sections'[k].first <= sent'
                                     /\ SectionSize(k)' <= Cap
    BY <2>6, <2>7, <2>8, <2>9 DEF SectionSize, Size
  <2> QED
    BY <2>2, <2>10, <2>11, <2>13 DEF Layout
<1> QED
  BY <1>1, <1>2, <1>3 DEF Next, SendEmpty, Repeat, ExtractPsi, UnitWithoutPayload, FinishPrevious,
     StartSection, ContinueSection, OutOfSequence, vars, muxVars

\* The section leads its packet and nothing was lost, repeated or empty since.
Fresh(k) == sections[k].lead /\ sections[k].first > cleanFrom

\* The bytes d are those of the section from its first byte on up to position p.
RunsFrom(d, k, p) ==
  /\ Len(d) = p + 1 - sections[k].first
  /\ \A i \in 1 .. Len(d) : d[i] = sections[k].first - 1 + i

\* The buffer holds the section from its first byte on up to position p.
Gathered(k, p) == RunsFrom(data, k, p)

\* The packet in hand, or the one that may still be repeated.
InHand == pending \/ (lost = 0 /\ ~repeated)

\* A section is used, or what was sent of it is in the buffer and its next packet is the one
\* that the reader waits for.
GatherInv ==
  /\ InHand => /\ PktIsLast
               /\ \A k \in DOMAIN sections : Fresh(k) =>
                    IF sections[k].first > pkt.start
                    THEN pkt.unit /\ sections[k].first = pkt.start + pkt.pointer + 1
                    ELSE pkt.unit => sections[k].last <= pkt.start + pkt.pointer
  /\ ~pending => \A k \in DOMAIN sections : Fresh(k) =>
                   IF sections[k].last <= sent THEN k \in delivered
                   ELSE cc = muxCounter /\ Gathered(k, sent)
  /\ pending => \A k \in DOMAIN sections : Fresh(k) /\ sections[k].first <= pkt.start =>
                  \/ k \in delivered /\ sections[k].last <= sent
                  \/ InSequence /\ sections[k].last > pkt.start /\ Gathered(k, pkt.start)

\* The fields of a placed section.
LEMMA PlacedType ==
  ASSUME TypeOK, NEW k \in DOMAIN sections
  PROVE  /\ k \in Nat /\ sections[k].first \in Nat \ {0} /\ sections[k].last \in Nat
         /\ sections[k].first <= sections[k].last
         /\ SectionSize(k) \in Nat \ {0}
         /\ SectionSize(k) = sections[k].last + 1 - sections[k].first
<1>1. sections[k] \in Placements /\ k \in Nat
  BY DEF TypeOK
<1>2. /\ sections[k].first \in Nat \ {0} /\ sections[k].last \in Nat
      /\ sections[k].first <= sections[k].last
  BY <1>1 DEF Placements
<1> QED
  BY <1>1, <1>2 DEF SectionSize

\* The same after a step.
LEMMA PlacedThere ==
  ASSUME TypeOK'
  PROVE  /\ sections' \in Seq(Placements) /\ sent' \in Nat
         /\ \A k \in DOMAIN sections' : sections'[k].first \in Nat /\ sections'[k].last \in Nat
<1>1. sections' \in Seq(Placements) /\ sent' \in Nat
  BY DEF TypeOK
<1>2. \A k \in DOMAIN sections' : sections'[k] \in Placements
  BY <1>1
<1> QED
  BY <1>1, <1>2 DEF Placements

\* A buffer holds one section at most.
LEMMA HoldsOnce ==
  ASSUME TypeOK, Layout, NEW d, NEW j \in DOMAIN sections, NEW k \in DOMAIN sections,
         Holds(d, j), Holds(d, k)
  PROVE  j = k
<1>1. /\ SectionSize(j) \in Nat \ {0} /\ SectionSize(k) \in Nat \ {0}
      /\ sections[j].first \in Nat /\ sections[k].first \in Nat
      /\ sections[j].last \in Nat /\ sections[k].last \in Nat
      /\ sections[j].first <= sections[j].last /\ sections[k].first <= sections[k].last
      /\ j \in Nat /\ k \in Nat
  BY PlacedType
<1>2. d[1] = sections[j].first - 1 + 1 /\ d[1] = sections[k].first - 1 + 1
  BY <1>1 DEF Holds
<1>3. sections[j].first = sections[k].first
  BY <1>1, <1>2
<1>4. ~(j < k) /\ ~(k < j)
  BY <1>1, <1>3 DEF Layout
<1> QED
  BY <1>1, <1>4

\* The caller uses the section that the buffer holds.
LEMMA HeldDelivered ==
  ASSUME TypeOK, Layout, NEW kept, NEW keptLength, NEW from, NEW n,
         Collect(kept, keptLength, from, n), data' \in Seq(Nat),
         NEW k \in DOMAIN sections, Holds(data', k)
  PROVE  k \in delivered'
<1> DEFINE j == CHOOSE l \in DOMAIN sections : Holds(data', l)
<1>1. j \in DOMAIN sections /\ Holds(data', j)
  OBVIOUS
<1>2. length' = SectionSize(j)
  BY DEF Collect
<1> HIDE DEF j
<1>3. j = k
  BY <1>1, HoldsOnce
<1>4. SectionSize(k) \in Nat \ {0}
  BY SectionSizeType DEF TypeOK
<1>7. length' = SectionSize(k) /\ length' > 0
  BY <1>2, <1>3, <1>4
<1>5. length' > 0 /\ handed' = SubSeq(data', 1, SectionSize(k))
  BY <1>7 DEF Collect
<1>6. handed' = SectionBytes(k)
  BY <1>5, HeadIsSection
<1> QED
  BY <1>5, <1>6 DEF Collect

\* The bytes d are those kept, followed by the m bytes behind position p.
Extends(d, kept, p, m) ==
  /\ Len(d) = Len(kept) + m
  /\ \A i \in 1 .. Len(kept) : d[i] = kept[i]
  /\ \A i \in Len(kept) + 1 .. Len(d) : d[i] = p + i - Len(kept)

\* A copy is such an extension, as far as there is space.
LEMMA CopyExtends ==
  ASSUME NEW kept \in Seq(Nat), Len(kept) <= Cap, NEW p \in Nat, NEW n \in Nat
  PROVE  Extends(Copied(kept, p, n), kept, p, Smaller(n, Cap - Len(kept)))
BY CopyShape DEF Extends

\* After a call that takes the stream up to position q, section k is used or kept up to there.
KeptOrUsed(k, q) ==
  /\ sections[k].last <= q => k \in delivered'
  /\ sections[k].last > q => RunsFrom(data', k, q)

\* Bytes that follow what was kept of a section complete it, or are kept too.
LEMMA CollectGathers ==
  ASSUME TypeOK, Layout, NEW kept \in Seq(Nat), Len(kept) <= Cap,
         NEW keptLength \in 0 .. Len(kept), NEW from \in Nat, NEW n \in Nat,
         Collect(kept, keptLength, from, n), from + n <= pkt.size,
         NEW k \in DOMAIN sections, RunsFrom(kept, k, pkt.start + from)
  PROVE  KeptOrUsed(k, pkt.start + from + n)
<1> DEFINE p == pkt.start + from
           m == Smaller(n, Cap - Len(kept))
           f == sections[k].first
           l == sections[k].last
<1>1. /\ p \in Nat /\ f \in Nat /\ l \in Nat /\ f <= l /\ Len(kept) \in Nat
      /\ Len(kept) = p + 1 - f /\ l + 1 - f <= Cap /\ SectionSize(k) = l + 1 - f
      /\ m \in Nat /\ m <= n /\ (m = n \/ m = Cap - Len(kept))
  <2>1. p \in Nat
    BY PktType
  <2>2. f \in Nat /\ l \in Nat /\ f <= l /\ l + 1 - f <= Cap /\ SectionSize(k) = l + 1 - f
    BY DEF Layout, SectionSize, TypeOK, Placements
  <2>3. m \in Nat /\ m <= n /\ (m = n \/ m = Cap - Len(kept))
    BY DEF Smaller
  <2>4. Len(kept) = p + 1 - f
    BY DEF RunsFrom
  <2> QED
    BY <2>1, <2>2, <2>3, <2>4
<1>2. Extends(data', kept, p, m)
  <2>1. CASE n > 0
    <3>1. data' = Copied(kept, p, n)
      BY <2>1 DEF Collect
    <3> QED
      BY <1>1, <3>1, CopyExtends
  <2>2. CASE n = 0
    <3>1. data' = kept
      BY <2>2 DEF Collect
    <3>2. m = 0
      BY <1>1, <2>2
    <3> HIDE DEF m
    <3> QED
      BY <1>1, <3>1, <3>2 DEF Extends
  <2> QED
    BY <2>1, <2>2
<1>3. data' \in Seq(Nat)
  BY CollectType
<1> HIDE DEF p, m
<1> USE DEF Extends
<1>4. ASSUME NEW i \in 1 .. Len(data')
      PROVE  data'[i] = f - 1 + i
  <2>1. CASE i <= Len(kept)
    <3>1. i \in 1 .. Len(kept) /\ data'[i] = kept[i]
      BY <1>1, <1>2, <2>1
    <3>2. RunsFrom(kept, k, p)
      BY DEF p
    <3> QED
      BY <3>1, <3>2 DEF RunsFrom
  <2>2. CASE i > Len(kept)
    <3>2. i \in Len(kept) + 1 .. Len(data')
      BY <1>1, <2>2
    <3>1. data'[i] = p + i - Len(kept)
      BY <1>2, <3>2
    <3> HIDE DEF f, l
    <3> QED
      BY <1>1, <3>1
  <2> QED
    BY <1>1, <2>1, <2>2
<1>5. l <= p + n => SectionSize(k) <= Len(data')
  <2> HIDE DEF f, l
  <2> QED
    BY <1>1, <1>2
<1>6. l > p + n => Len(data') = p + n + 1 - f
  <2> HIDE DEF f, l
  <2> QED
    BY <1>1, <1>2
<1>7. l <= p + n => k \in delivered'
  <2> SUFFICES ASSUME l <= p + n PROVE k \in delivered'
    OBVIOUS
  <2>1. Holds(data', k)
    <3>1. SectionSize(k) \in Nat /\ Len(data') \in Nat /\ SectionSize(k) <= Len(data')
      BY <1>3, <1>5, PlacedType
    <3>2. \A i \in 1 .. SectionSize(k) : i \in 1 .. Len(data')
      BY <3>1
    <3> QED
      BY <1>4, <3>1, <3>2 DEF Holds
  <2> QED
    BY <1>3, <2>1, HeldDelivered
<1> QED
  BY <1>4, <1>6, <1>7 DEF RunsFrom, KeptOrUsed, p

\* A packet is sent: the reader waits for it, or what it brings is not undisturbed.
LEMMA GatherSend ==
  ASSUME TypeOK, TypeOK', Layout, Layout', GatherInv,
         NEW unit \in BOOLEAN, NEW pointer \in Nat, NEW n \in Nat \ {0},
         Send(unit, pointer, n),
         DOMAIN sections \subseteq DOMAIN sections',
         \A k \in DOMAIN sections : sections'[k] = sections[k],
         unit => \A k \in DOMAIN sections : sections[k].last <= sent + pointer,
         \A k \in DOMAIN sections' \ DOMAIN sections :
           sections'[k].lead => unit /\ sections'[k].first = sent + pointer + 1
  PROVE  GatherInv'
<1>1. /\ ~pending /\ sent' = sent + n /\ muxCounter' = NextCounter(muxCounter)
      /\ cc' = cc /\ data' = data /\ delivered' = delivered /\ sent \in Nat
      /\ muxCounter \in Counters
  BY DEF Send, psiVars, TypeOK
<1>2. CASE ~pending'
  <2>1. cleanFrom' = sent' /\ lost' = lost + 1 /\ lost \in Nat
    BY <1>1, <1>2 DEF Send, TypeOK
  <2>2. \A k \in DOMAIN sections' : sections'[k].first <= sent' /\ sections'[k].first \in Nat
    BY PlacedThere DEF Layout
  <2>3. \A k \in DOMAIN sections' : ~Fresh(k)'
    BY <1>1, <2>1, <2>2 DEF Fresh
  <2>4. ~InHand'
    BY <1>2, <2>1 DEF InHand
  <2> QED
    BY <1>2, <2>3, <2>4 DEF GatherInv
<1>3. CASE pending'
  <2>1. /\ pkt' = [unit |-> unit, pointer |-> pointer,
                   counter |-> NextCounter(muxCounter), start |-> sent, size |-> n]
        /\ cleanFrom' = cleanFrom
    BY <1>3 DEF Send
  <2>2. PktIsLast' /\ pkt'.unit = unit /\ pkt'.pointer = pointer /\ pkt'.start = sent
        /\ pkt'.counter = NextCounter(muxCounter)
    BY <1>1, <2>1 DEF PktIsLast
  <2>3. \A k \in DOMAIN sections : /\ sections[k].first <= sent
                                   /\ sections[k].first \in Nat /\ sections[k].last \in Nat
                                   /\ Fresh(k)' = Fresh(k)
    BY <2>1, PlacedType DEF Layout, Fresh
  <2>4. ASSUME NEW k \in DOMAIN sections', Fresh(k)'
        PROVE  IF sections'[k].first > pkt'.start
               THEN pkt'.unit /\ sections'[k].first = pkt'.start + pkt'.pointer + 1
               ELSE pkt'.unit => sections'[k].last <= pkt'.start + pkt'.pointer
    <3>1. CASE k \in DOMAIN sections
      <4>1. ~(sections'[k].first > pkt'.start)
        BY <1>1, <2>2, <2>3, <3>1
      <4> QED
        BY <2>2, <3>1, <4>1
    <3>2. CASE k \notin DOMAIN sections
      <4>1. unit /\ sections'[k].first = sent + pointer + 1
        BY <2>4, <3>2 DEF Fresh
      <4>2. sections'[k].first > pkt'.start
        BY <1>1, <2>2, <4>1
      <4> QED
        BY <2>2, <4>1, <4>2
    <3> QED
      BY <3>1, <3>2
  <2>5. ASSUME NEW k \in DOMAIN sections', Fresh(k)', sections'[k].first <= pkt'.start
        PROVE  \/ k \in delivered' /\ sections'[k].last <= sent'
               \/ (InSequence /\ sections[k].last > pkt.start /\ Gathered(k, pkt.start))'
    <3>1. k \in DOMAIN sections
      <4>1. sections'[k].first # sent + pointer + 1
        BY <1>1, <2>2, <2>5
      <4> QED
        BY <2>5, <4>1 DEF Fresh
    <3>2. CASE sections[k].last <= sent
      <4>1. k \in delivered
        BY <1>1, <2>3, <2>5, <3>1, <3>2 DEF GatherInv
      <4>2. sections[k].last <= sent + n
        BY <1>1, <2>3, <3>1, <3>2
      <4> QED
        BY <1>1, <3>1, <4>1, <4>2
    <3>3. CASE ~(sections[k].last <= sent)
      <4>1. cc = muxCounter /\ Gathered(k, sent)
        BY <1>1, <2>3, <2>5, <3>1, <3>3 DEF GatherInv
      <4>2. InSequence'
        BY <1>1, <2>2, <4>1 DEF InSequence, NextCounter, NoCounter, Counters
      <4>3. Gathered(k, pkt.start)'
        BY <1>1, <2>2, <3>1, <4>1 DEF Gathered, RunsFrom
      <4>4. sections'[k].last > pkt'.start
        BY <1>1, <2>2, <2>3, <3>1, <3>3
      <4> QED
        BY <4>2, <4>3, <4>4
    <3> QED
      BY <3>2, <3>3
  <2> QED
    BY <1>3, <2>2, <2>4, <2>5 DEF GatherInv
<1> QED
  BY <1>2, <1>3

\* Every step keeps the sections that arrive undisturbed together.
LEMMA GatherStep ==
  ASSUME TypeOK, TypeOK', Layout, Layout', GatherInv, [Next]_vars
  PROVE  GatherInv'
<1>1. CASE SendContinuation
  <2>1. PICK n \in 1 .. MaxPayload : Send(FALSE, 0, n)
    BY <1>1 DEF SendContinuation
  <2>2. sections' = sections /\ 0 \in Nat /\ n \in Nat \ {0}
    BY <1>1 DEF SendContinuation
  <2> QED
    BY <2>1, <2>2, GatherSend
<1>2. CASE SendStart
  <2> DEFINE N == Len(sections)
  <2>1. PICK n \in 1 .. MaxPayload, m \in 1 .. 2 :
           /\ Send(TRUE, Pointer, n)
           /\ sections' \in Seq(Placements) /\ Len(sections') = N + m
           /\ \A k \in DOMAIN sections : sections'[k] = sections[k]
           /\ sections'[N + 1].first = sent + Pointer + 1
           /\ m = 2 => ~sections'[N + 2].lead
    BY <1>2, StartPlaces
  <2>2. /\ DOMAIN sections' = 1 .. N + m /\ DOMAIN sections = 1 .. N /\ N \in Nat
    BY <2>1 DEF TypeOK
  <2>3. \A k \in DOMAIN sections' \ DOMAIN sections : k = N + 1 \/ (m = 2 /\ k = N + 2)
    BY <2>2
  <2>4. \A k \in DOMAIN sections' \ DOMAIN sections :
           sections'[k].lead => sections'[k].first = sent + Pointer + 1
    BY <2>1, <2>3
  <2>5. \A k \in DOMAIN sections : sections[k].last <= sent + Pointer
    <3>1. /\ End <= sent + Pointer /\ \A k \in DOMAIN sections : sections[k].last <= End
      BY EndBounds
    <3>2. End \in Nat /\ Pointer \in Nat /\ sent \in Nat
      BY PointerType DEF TypeOK
    <3>3. \A k \in DOMAIN sections : sections[k].last \in Nat
      BY PlacedType
    <3> QED
      BY <3>1, <3>2, <3>3
  <2>6. Pointer \in Nat /\ n \in Nat \ {0} /\ DOMAIN sections \subseteq DOMAIN sections'
    BY <2>2, PointerType
  <2> HIDE DEF N
  <2> QED
    BY <2>1, <2>4, <2>5, <2>6, GatherSend
<1>3. CASE SendEmpty
  <2>1. \A k \in DOMAIN sections' : sections'[k].first <= sent' /\ sections'[k].first \in Nat
    BY PlacedThere DEF Layout
  <2>2. cleanFrom' = sent' /\ sent \in Nat
    BY <1>3 DEF SendEmpty, muxVars, TypeOK
  <2>3. \A k \in DOMAIN sections' : ~Fresh(k)'
    BY <2>1, <2>2 DEF Fresh, TypeOK
  <2>4. PktIsLast'
    BY <1>3, <2>2 DEF SendEmpty, PktIsLast, muxVars
  <2> QED
    BY <2>3, <2>4 DEF GatherInv
<1>4. CASE Repeat
  <2>1. /\ ~pending /\ pending' /\ InHand /\ lost' = lost
        /\ UNCHANGED <<sent, sections, muxCounter, pkt, cc, data, delivered>>
        /\ cleanFrom' = IF pkt.unit THEN cleanFrom ELSE sent
    BY <1>4 DEF Repeat, InHand, muxVars, psiVars
  <2>2. PktIsLast
    BY <2>1 DEF GatherInv
  <2>3. PktIsLast'
    BY <2>1, <2>2 DEF PktIsLast
  <2>4. ASSUME NEW k \in DOMAIN sections, Fresh(k)'
        PROVE  Fresh(k) /\ pkt.unit
    <3>1. sections[k].first <= sent /\ sections[k].first \in Nat /\ sent \in Nat
      BY PlacedType, BufferType DEF Layout
    <3> QED
      BY <2>1, <2>4, <3>1 DEF Fresh
  <2>5. ASSUME NEW k \in DOMAIN sections, Fresh(k)', sections[k].first <= pkt.start
        PROVE  k \in delivered /\ sections[k].last <= sent
    <3>1. /\ sections[k].first \in Nat /\ sections[k].last \in Nat /\ sent \in Nat
          /\ pkt.pointer \in Nat /\ pkt.size \in Nat /\ pkt.pointer <= pkt.size
          /\ pkt.start \in Nat
      BY PktType, PlacedType, BufferType
    <3>2. sections[k].last <= pkt.start + pkt.pointer
      BY <2>1, <2>4, <2>5, <3>1 DEF GatherInv
    <3>3. sections[k].last <= sent
      BY <2>2, <3>1, <3>2 DEF PktIsLast
    <3> QED
      BY <2>1, <2>4, <2>5, <3>3 DEF GatherInv
  <2>6. ASSUME NEW k \in DOMAIN sections, Fresh(k)'
        PROVE  IF sections[k].first > pkt.start
               THEN pkt.unit /\ sections[k].first = pkt.start + pkt.pointer + 1
               ELSE pkt.unit => sections[k].last <= pkt.start + pkt.pointer
    BY <2>1, <2>4, <2>6 DEF GatherInv
  <2> QED
    BY <2>1, <2>3, <2>5, <2>6 DEF GatherInv
<1> DEFINE Handled == /\ pending /\ ~pending'
                      /\ UNCHANGED <<sent, sections, muxCounter, lost, pkt, repeated, cleanFrom>>
                      /\ delivered \subseteq delivered'
\* What is left to show of a step after which the next packet is awaited.
<1>5. ASSUME Handled,
             \A k \in DOMAIN sections : Fresh(k) =>
                    IF sections[k].last <= sent THEN k \in delivered'
                    ELSE cc' = muxCounter /\ Gathered(k, sent)'
      PROVE  GatherInv'
  <2>1. InHand' => InHand
    BY <1>5 DEF InHand
  <2>2. \A k \in DOMAIN sections' : k \in DOMAIN sections /\ (Fresh(k)' = Fresh(k))
    BY <1>5 DEF Fresh
  <2>3. InHand /\ ~pending'
    BY <1>5 DEF InHand
  <2>4. PktIsLast'
    BY <1>5, <2>3 DEF GatherInv, PktIsLast
  <2> QED
    BY <1>5, <2>2, <2>3, <2>4 DEF GatherInv
<1>6. ASSUME pending, NEW k \in DOMAIN sections, Fresh(k)
      PROVE  /\ PktIsLast
             /\ sections[k].first > pkt.start =>
                  pkt.unit /\ sections[k].first = pkt.start + pkt.pointer + 1
             /\ sections[k].first <= pkt.start /\ pkt.unit =>
                  sections[k].last <= pkt.start + pkt.pointer
             /\ sections[k].first <= pkt.start /\ ~(k \in delivered /\ sections[k].last <= sent) =>
                  InSequence /\ sections[k].last > pkt.start /\ Gathered(k, pkt.start)
             /\ sections[k].first \in Nat /\ sections[k].last \in Nat
             /\ sections[k].first <= sections[k].last
             /\ pkt.start + pkt.size = sent
             /\ sections[k].first <= sent
  <2>1. /\ sections[k].first \in Nat /\ sections[k].last \in Nat /\ sections[k].first <= sent
        /\ sections[k].first <= sections[k].last
    BY PlacedType DEF Layout
  <2>2. InHand
    BY <1>6 DEF InHand
  <2>3. pkt.start \in Nat
    BY PktType
  <2> QED
    BY <1>6, <2>1, <2>2, <2>3 DEF GatherInv, PktIsLast
<1>7. CASE UnitWithoutPayload
  <2>1. Handled /\ pkt.unit /\ pkt.size = 0
    BY <1>7 DEF UnitWithoutPayload, Reset, muxVars
  <2>2. pkt.pointer = 0 /\ pkt.start \in Nat
    BY <2>1, PktType
  <2>3. ASSUME NEW k \in DOMAIN sections, Fresh(k)
        PROVE  k \in delivered /\ sections[k].last <= sent
    <3>1. sections[k].last <= sent /\ sections[k].first <= pkt.start
      BY <1>6, <2>1, <2>2, <2>3
    <3> QED
      BY <1>6, <2>1, <2>2, <2>3, <3>1
  <2> QED
    BY <1>5, <2>1, <2>3
<1>8. CASE OutOfSequence
  <2>1. Handled /\ ~pkt.unit /\ ~InSequence
    BY <1>8 DEF OutOfSequence, Reset, muxVars
  <2>2. pkt.start \in Nat
    BY PktType
  <2>3. ASSUME NEW k \in DOMAIN sections, Fresh(k)
        PROVE  k \in delivered /\ sections[k].last <= sent
    BY <1>6, <2>1, <2>2, <2>3
  <2> QED
    BY <1>5, <2>1, <2>3
<1>9. CASE FinishPrevious
  <2>1. /\ pending /\ pkt.unit /\ pkt.pointer > 0 /\ InSequence
        /\ Collect(data, length, 0, pkt.pointer) /\ cc' = pkt.counter
        /\ UNCHANGED <<muxVars, chanVars, cleanFrom>>
    BY <1>9 DEF FinishPrevious
  <2>2. /\ UNCHANGED <<sent, sections, muxCounter, lost, pkt, repeated, pending, cleanFrom>>
        /\ delivered \subseteq delivered'
    BY <2>1 DEF muxVars, chanVars, Collect
  <2>3. /\ pkt.start \in Nat /\ pkt.pointer \in Nat /\ pkt.size \in Nat
        /\ pkt.start + 0 = pkt.start /\ 0 + pkt.pointer <= pkt.size
        /\ data \in Seq(Nat) /\ Len(data) <= Cap /\ length \in 0 .. Len(data)
    BY PktType, BufferType
  <2>4. ASSUME NEW k \in DOMAIN sections, Fresh(k), sections[k].first <= pkt.start
        PROVE  k \in delivered' /\ sections[k].last <= sent
    <3>1. sections[k].last <= pkt.start + pkt.pointer
      BY <1>6, <2>1, <2>4
    <3>2. CASE k \in delivered /\ sections[k].last <= sent
      BY <2>2, <3>2
    <3>3. CASE ~(k \in delivered /\ sections[k].last <= sent)
      <4>1. Gathered(k, pkt.start)
        BY <1>6, <2>1, <2>4, <3>3
      <4>2. k \in delivered'
        <5>1. RunsFrom(data, k, pkt.start + 0)
          BY <2>3, <4>1 DEF Gathered
        <5>2. KeptOrUsed(k, pkt.start + 0 + pkt.pointer)
          BY <2>1, <2>3, <5>1, CollectGathers, 0 \in Nat
        <5> QED
          BY <2>3, <3>1, <5>2 DEF KeptOrUsed
      <4>3. sections[k].last <= sent
        BY <1>6, <2>1, <2>3, <2>4, <3>1
      <4> QED
        BY <4>2, <4>3
    <3> QED
      BY <3>2, <3>3
  <2>5. \A k \in DOMAIN sections' : k \in DOMAIN sections /\ (Fresh(k)' = Fresh(k))
    BY <2>2 DEF Fresh
  <2>6. InHand
    BY <2>1 DEF InHand
  <2>7. PktIsLast'
    BY <2>2, <2>6 DEF GatherInv, PktIsLast
  <2> QED
    BY <2>1, <2>2, <2>4, <2>5, <2>6, <2>7 DEF GatherInv
<1>10. CASE StartSection
  <2> DEFINE none == << >>
             n == pkt.size - pkt.pointer
  <2>1. /\ Handled /\ pkt.unit /\ ~(pkt.pointer > 0 /\ InSequence)
        /\ Collect(none, 0, pkt.pointer, n) /\ cc' = pkt.counter
    BY <1>10 DEF StartSection, muxVars, Collect
  <2>2. /\ pkt.start \in Nat /\ pkt.pointer \in Nat /\ pkt.size \in Nat /\ n \in Nat
        /\ pkt.pointer + n <= pkt.size
        /\ (pkt.start + pkt.pointer) + n = pkt.start + pkt.size
    BY PktType
  <2>3. /\ none \in Seq(Nat) /\ Len(none) <= Cap /\ 0 \in 0 .. Len(none) /\ Len(none) = 0
    BY EmptyBuffer
  <2> HIDE DEF none, n
  <2>4. ASSUME NEW k \in DOMAIN sections, Fresh(k)
        PROVE  IF sections[k].last <= sent THEN k \in delivered'
               ELSE cc' = muxCounter /\ Gathered(k, sent)'
    <3>1. CASE sections[k].first <= pkt.start
      <4>1. sections[k].last <= pkt.start + pkt.pointer
        BY <1>6, <2>1, <2>4, <3>1
      <4>2. ~(InSequence /\ sections[k].last > pkt.start)
        BY <1>6, <2>1, <2>2, <2>4, <4>1
      <4>3. k \in delivered /\ sections[k].last <= sent
        BY <1>6, <2>1, <2>4, <3>1, <4>2
      <4> QED
        BY <2>1, <4>3
    <3>2. CASE ~(sections[k].first <= pkt.start)
      <4>1. /\ sections[k].first = pkt.start + pkt.pointer + 1 /\ PktIsLast
            /\ pkt.start + pkt.size = sent /\ sections[k].last \in Nat
        BY <1>6, <2>1, <2>2, <2>4, <3>2
      <4>2. /\ Len(none) = pkt.start + pkt.pointer + 1 - sections[k].first
            /\ \A i \in 1 .. Len(none) : none[i] = sections[k].first - 1 + i
        BY <2>2, <2>3, <4>1
      <4>7. RunsFrom(none, k, pkt.start + pkt.pointer)
        BY <4>2 DEF RunsFrom
      <4>4. sent = (pkt.start + pkt.pointer) + n
        BY <2>2, <4>1
      <4>3. /\ sections[k].last <= sent => k \in delivered'
            /\ sections[k].last > sent => RunsFrom(data', k, sent)
        <5>1. KeptOrUsed(k, pkt.start + pkt.pointer + n)
          BY ZenonT(30), <2>1, <2>2, <2>3, <4>7, CollectGathers
        <5> QED
          BY <4>4, <5>1 DEF KeptOrUsed
      <4>5. cc' = muxCounter
        BY <2>1, <4>1 DEF PktIsLast
      <4>6. sent \in Nat
        BY DEF TypeOK
      <4> QED
        BY <2>1, <4>1, <4>3, <4>5, <4>6 DEF Gathered, RunsFrom
    <3> QED
      BY <3>1, <3>2
  <2> QED
    BY <1>5, <2>1, <2>4
<1>11. CASE ContinueSection
  <2>1. /\ Handled /\ ~pkt.unit /\ InSequence
        /\ Collect(data, length, 0, pkt.size) /\ cc' = pkt.counter
    BY <1>11 DEF ContinueSection, muxVars, Collect
  <2>2. /\ pkt.start \in Nat /\ pkt.size \in Nat
        /\ pkt.start + 0 = pkt.start /\ 0 + pkt.size <= pkt.size
        /\ data \in Seq(Nat) /\ Len(data) <= Cap /\ length \in 0 .. Len(data) /\ sent \in Nat
    BY PktType, BufferType
  <2>3. ASSUME NEW k \in DOMAIN sections, Fresh(k)
        PROVE  IF sections[k].last <= sent THEN k \in delivered'
               ELSE cc' = muxCounter /\ Gathered(k, sent)'
    <3>1. sections[k].first <= pkt.start
      BY <1>6, <2>1, <2>2, <2>3
    <3>2. CASE k \in delivered /\ sections[k].last <= sent
      BY <2>1, <3>2
    <3>3. CASE ~(k \in delivered /\ sections[k].last <= sent)
      <4>1. Gathered(k, pkt.start) /\ PktIsLast /\ pkt.start + pkt.size = sent
            /\ sections[k].last \in Nat
        BY <1>6, <2>1, <2>3, <3>1, <3>3
      <4>2. /\ sections[k].last <= sent => k \in delivered'
            /\ sections[k].last > sent => RunsFrom(data', k, sent)
        <5>1. RunsFrom(data, k, pkt.start + 0)
          BY <2>2, <4>1 DEF Gathered
        <5>2. KeptOrUsed(k, pkt.start + 0 + pkt.size)
          BY <2>1, <2>2, <5>1, CollectGathers, 0 \in Nat
        <5>3. pkt.start + 0 + pkt.size = sent
          BY <2>2, <4>1
        <5> QED
          BY <5>2, <5>3 DEF KeptOrUsed
      <4>3. cc' = muxCounter
        BY <2>1, <4>1 DEF PktIsLast
      <4> QED
        BY <2>1, <2>2, <4>1, <4>2, <4>3 DEF Gathered, RunsFrom
    <3> QED
      BY <3>2, <3>3
  <2> QED
    BY <1>5, <2>1, <2>3
<1>12. CASE UNCHANGED vars
  BY <1>12 DEF vars, muxVars, chanVars, psiVars, histVars, GatherInv, InHand, PktIsLast, Fresh,
               Gathered, RunsFrom, InSequence, NextCounter
<1> QED
  BY <1>1, <1>2, <1>3, <1>4, <1>7, <1>8, <1>9, <1>10, <1>11, <1>12 DEF Next, ExtractPsi

\* A section that leads its packet is used once its last byte is in, if nothing was lost,
\* repeated or empty since it began: for every packet size, every buffer no section is larger
\* than, and whatever came before.
THEOREM UndisturbedUsed == Spec => []Complete
<1>1. Init => TypeOK /\ Layout /\ GatherInv
  <2> SUFFICES ASSUME Init PROVE Layout /\ GatherInv
    BY TypeInit
  <2>1. DOMAIN sections = {} /\ sent = 0 /\ ~pending /\ repeated
    BY DEF Init
  <2> QED
    BY <2>1 DEF Layout, GatherInv, InHand
<1>2. TypeOK /\ Layout /\ GatherInv /\ [Next]_vars => TypeOK' /\ Layout' /\ GatherInv'
  BY TypeStep, LayoutStep, GatherStep
<1>3. TypeOK /\ GatherInv => Complete
  BY DEF GatherInv, Complete, Fresh
<1> QED
  BY <1>1, <1>2, <1>3, PTL DEF Spec

-----------------------------------------------------------------------------
(* Sections are used in the order they were sent.                          *)

\* What is collected has been sent and comes after what was used, and what a packet starts
\* comes after both.
OrderInv ==
  /\ \A i \in DOMAIN data : data[i] <= sent
  /\ \A i \in DOMAIN handed : handed[i] <= sent
  /\ cc # NoCounter => data # << >>
  /\ data # << >> /\ handed # << >> => handed[1] <= data[1]
  /\ InHand => /\ PktIsLast
               /\ pkt.unit /\ pkt.size > 0 => pkt.pointer < pkt.size
               /\ data # << >> => data[1] <= pkt.start + pkt.pointer + 1
               /\ handed # << >> => handed[1] <= pkt.start + pkt.pointer + 1

\* What was used is not taken back: the section used next begins no earlier.
HandedOn == handed # << >> => handed' # << >> /\ handed[1] <= handed'[1]

\* Where the buffer begins once bytes from the given offset of the packet are behind those kept.
Begin(kept, from) == IF kept # << >> THEN kept[1] ELSE pkt.start + from + 1

\* A nonempty sequence of numbers has a first one.
LEMMA FirstType ==
  ASSUME NEW d \in Seq(Nat), d # << >>
  PROVE  1 \in DOMAIN d /\ d[1] \in Nat /\ Len(d) \in Nat \ {0} /\ DOMAIN d = 1 .. Len(d)
<1>1. Len(d) \in Nat /\ DOMAIN d = 1 .. Len(d) /\ Len(d) # 0
  BY EmptySeq
<1> QED
  BY <1>1

\* The first l numbers of a sequence.
LEMMA HeadOf ==
  ASSUME NEW d \in Seq(Nat), NEW l \in 1 .. Len(d)
  PROVE  /\ Len(SubSeq(d, 1, l)) = l
         /\ \A i \in 1 .. l : SubSeq(d, 1, l)[i] = d[i]
<1>1. \A i \in 1 .. l : d[i] \in Nat
  OBVIOUS
<1>2. l \in Nat /\ l >= 1
  OBVIOUS
<1> QED
  BY <1>1, <1>2, SubSeqProperties

\* Bytes counted from an offset of the packet lie within the packet.
LEMMA FromWithin ==
  ASSUME NEW start \in Nat, NEW from \in Nat, NEW n \in Nat, NEW size \in Nat,
         from + n <= size
  PROVE  (start + from) + n <= start + size
  OBVIOUS

\* Collecting bytes that come after what was used keeps the order.
LEMMA CollectOrder ==
  ASSUME TypeOK, PktIsLast, NEW kept \in Seq(Nat), Len(kept) <= Cap,
         NEW keptLength \in 0 .. Len(kept), NEW from \in Nat, NEW n \in Nat,
         Collect(kept, keptLength, from, n), from + n <= pkt.size,
         kept # << >> \/ n > 0,
         \A i \in DOMAIN kept : kept[i] <= sent,
         \A i \in DOMAIN handed : handed[i] <= sent,
         handed # << >> => handed[1] <= Begin(kept, from)
  PROVE  /\ data' # << >> /\ data'[1] = Begin(kept, from)
         /\ \A i \in DOMAIN data' : data'[i] <= sent
         /\ \A i \in DOMAIN handed' : handed'[i] <= sent
         /\ handed' # << >> => handed'[1] <= data'[1]
         /\ HandedOn
<1> DEFINE p == pkt.start + from
           m == Smaller(n, Cap - Len(kept))
<1>1. /\ p \in Nat /\ sent \in Nat /\ pkt.start + pkt.size = sent /\ pkt.size \in Nat
      /\ pkt.start \in Nat
      /\ Len(kept) \in Nat /\ DOMAIN kept = 1 .. Len(kept)
      /\ data' \in Seq(Nat) /\ Len(data') \in Nat /\ DOMAIN data' = 1 .. Len(data')
      /\ length' \in 0 .. Len(data') /\ handed' \in Seq(Nat)
  <2>1. p \in Nat /\ pkt.start \in Nat /\ pkt.size \in Nat
    BY PktType
  <2>2. data' \in Seq(Nat) /\ length' \in 0 .. Len(data') /\ handed' \in Seq(Nat)
    BY CollectType
  <2>3. sent \in Nat /\ pkt.start + pkt.size = sent
    BY DEF TypeOK, PktIsLast
  <2> QED
    BY <2>1, <2>2, <2>3, LenProperties
<1>2. /\ m \in Nat /\ m <= n /\ (Len(kept) = 0 /\ n > 0 => m > 0)
  <2>1. Len(kept) \in Nat /\ Cap - Len(kept) \in Nat /\ (Len(kept) = 0 => Cap - Len(kept) > 0)
    BY <1>1
  <2> QED
    BY <2>1 DEF Smaller
<1>3. Extends(data', kept, p, m)
  <2>1. CASE n > 0
    <3>1. data' = Copied(kept, p, n)
      BY <2>1 DEF Collect
    <3> QED
      BY <1>1, <3>1, CopyExtends
  <2>2. CASE n = 0
    <3>1. data' = kept
      BY <2>2 DEF Collect
    <3>2. m = 0
      BY <1>2, <2>2
    <3> HIDE DEF m
    <3> QED
      BY <1>1, <3>1, <3>2 DEF Extends
  <2> QED
    BY <2>1, <2>2
<1>4. p + n <= sent
  BY <1>1, FromWithin
<1>5. kept = << >> <=> Len(kept) = 0
  BY EmptySeq
<1> HIDE DEF m
<1>6. data' # << >> /\ 1 \in DOMAIN data'
  <2>1. Len(data') > 0
    BY <1>1, <1>2, <1>3, <1>5 DEF Extends
  <2> QED
    BY <1>1, <2>1
<1>7. data'[1] = Begin(kept, from)
  <2>1. CASE kept # << >>
    <3>1. 1 \in 1 .. Len(kept)
      BY <1>1, <1>5, <2>1
    <3>2. data'[1] = kept[1]
      BY <1>3, <3>1 DEF Extends
    <3> QED
      BY <2>1, <3>2 DEF Begin
  <2>2. CASE kept = << >>
    <3>1. data'[1] = p + 1 - Len(kept) /\ Len(kept) = 0
      BY <1>1, <1>3, <1>5, <1>6, <2>2 DEF Extends
    <3> QED
      BY <1>1, <2>2, <3>1 DEF Begin
  <2> QED
    BY <2>1, <2>2
<1>8. ASSUME NEW i \in DOMAIN data'
      PROVE  data'[i] <= sent
  <2>1. CASE i <= Len(kept)
    BY <1>1, <1>3, <2>1 DEF Extends
  <2>2. CASE i > Len(kept)
    <3>3. DOMAIN data' = 1 .. Len(data') /\ Len(kept) \in Nat /\ Len(data') \in Nat
      BY <1>1
    <3>4. i \in 1 .. Len(data')
      BY ONLY <3>3, i \in DOMAIN data'
    <3>2. i \in Len(kept) + 1 .. Len(data') /\ i \in Nat
      BY <2>2, <3>3, <3>4
    <3>1. data'[i] = p + i - Len(kept) /\ i <= Len(kept) + m
      BY <1>1, <1>3, <3>2 DEF Extends
    <3>5. p \in Nat /\ sent \in Nat /\ m \in Nat /\ m <= n /\ p + n <= sent
      BY <1>1, <1>2, <1>4
    <3> HIDE DEF p
    <3> QED
      BY ONLY <3>1, <3>2, <3>3, <3>5, n \in Nat
  <2> QED
    BY <1>1, <2>1, <2>2
<1>9. CASE length' > 0
  <2>1. handed' = SubSeq(data', 1, length')
    BY <1>9 DEF Collect
  <2>8. length' \in Nat /\ \A i \in 1 .. length' : i \in DOMAIN data'
    BY <1>1
  <2>2. \A i \in 1 .. length' : data'[i] \in Nat
    BY <1>1, <2>8, ElementOfSeq
  <2>3. Len(handed') = length' /\ \A i \in 1 .. length' : handed'[i] = data'[i]
    <3>1. length' \in 1 .. Len(data') /\ data' \in Seq(Nat)
      BY <1>1, <1>9
    <3>2. /\ Len(SubSeq(data', 1, length')) = length'
          /\ \A i \in 1 .. length' : SubSeq(data', 1, length')[i] = data'[i]
      BY <3>1, HeadOf
    <3> QED
      BY <2>1, <3>2
  <2>4. DOMAIN handed' = 1 .. length' /\ handed' # << >>
    BY <1>1, <1>9, <2>3, LenProperties
  <2>5. handed'[1] = data'[1]
    <3>1. 1 \in 1 .. length'
      BY <1>9, <2>8
    <3> QED
      BY <2>3, <3>1
  <2>6. \A i \in DOMAIN handed' : handed'[i] <= sent
    BY <1>8, <2>3, <2>4, <2>8
  <2>7. data'[1] \in Nat
    BY <1>1, <1>6, FirstType
  <2> QED
    BY <1>6, <1>7, <1>8, <2>4, <2>5, <2>6, <2>7 DEF HandedOn
<1>10. CASE ~(length' > 0)
  <2>1. handed' = handed
    BY <1>10 DEF Collect
  <2>2. handed # << >> => handed[1] \in Nat
    BY FirstType DEF TypeOK
  <2> QED
    BY <1>6, <1>7, <1>8, <2>1, <2>2 DEF HandedOn
<1> QED
  BY <1>9, <1>10

\* Every step keeps the order.
LEMMA OrderStep ==
  ASSUME TypeOK, TypeOK', OrderInv, [Next]_vars
  PROVE  OrderInv' /\ HandedOn
<1>1. /\ sent \in Nat /\ data \in Seq(Nat) /\ handed \in Seq(Nat)
      /\ \A i \in DOMAIN data : data[i] \in Nat
      /\ \A i \in DOMAIN handed : handed[i] \in Nat
      /\ data # << >> => 1 \in DOMAIN data /\ data[1] <= sent /\ data[1] \in Nat
      /\ handed # << >> => 1 \in DOMAIN handed /\ handed[1] <= sent /\ handed[1] \in Nat
  <2>1. sent \in Nat /\ data \in Seq(Nat) /\ handed \in Seq(Nat)
    BY DEF TypeOK
  <2> QED
    BY <2>1, FirstType, ElementOfSeq DEF OrderInv
<1>2. handed' = handed => HandedOn
  BY <1>1 DEF HandedOn
<1>3. ASSUME NEW unit \in BOOLEAN, NEW pointer \in Nat, NEW n \in Nat \ {0},
             unit => pointer < n, Send(unit, pointer, n)
      PROVE  OrderInv' /\ HandedOn
  <2>1. /\ sent' = sent + n /\ UNCHANGED <<cc, data, handed>> /\ ~pending
    BY <1>3 DEF Send, psiVars
  <2>2. /\ \A i \in DOMAIN data : data[i] <= sent'
        /\ \A i \in DOMAIN handed : handed[i] <= sent'
    BY <1>1, <2>1 DEF OrderInv
  <2>3. CASE ~pending'
    <3>1. lost' # 0
      BY <1>3, <2>3 DEF Send, TypeOK
    <3> QED
      BY <1>2, <2>1, <2>2, <2>3, <3>1 DEF OrderInv, InHand
  <2>4. CASE pending'
    <3>1. pkt' = [unit |-> unit, pointer |-> pointer,
                   counter |-> NextCounter(muxCounter), start |-> sent, size |-> n]
          /\ muxCounter' = NextCounter(muxCounter)
      BY <1>3, <2>4 DEF Send
    <3>2. /\ PktIsLast' /\ pkt'.unit = unit /\ pkt'.pointer = pointer /\ pkt'.start = sent
          /\ pkt'.size = n
      BY <2>1, <3>1 DEF PktIsLast
    <3>3. sent <= sent + pointer + 1
      BY <1>1
    <3>4. /\ data # << >> => data[1] <= sent + pointer + 1
          /\ handed # << >> => handed[1] <= sent + pointer + 1
      BY <1>1, <3>3
    <3> QED
      BY <1>2, <1>3, <2>1, <2>2, <3>2, <3>4 DEF OrderInv
  <2> QED
    BY <2>3, <2>4
<1>4. CASE SendContinuation
  <2>1. PICK n \in 1 .. MaxPayload : Send(FALSE, 0, n)
    BY <1>4 DEF SendContinuation
  <2> QED
    BY <1>3, <2>1, 0 \in Nat, n \in Nat \ {0}
<1>5. CASE SendStart
  <2>1. PICK n \in 1 .. MaxPayload : Pointer < n /\ Send(TRUE, Pointer, n)
    BY <1>5 DEF SendStart
  <2>2. Pointer \in Nat
    BY PointerType
  <2> QED
    BY <1>3, <2>1, <2>2, n \in Nat \ {0}
<1>6. CASE SendEmpty
  <2>1. PICK unit \in BOOLEAN :
           pkt' = [unit |-> unit, pointer |-> 0, counter |-> muxCounter,
                   start |-> sent, size |-> 0]
    BY <1>6 DEF SendEmpty
  <2>2. UNCHANGED <<sent, muxCounter, cc, data, handed>>
    BY <1>6 DEF SendEmpty, muxVars, psiVars
  <2>3. PktIsLast' /\ pkt'.size = 0 /\ pkt'.start = sent /\ pkt'.pointer = 0
    BY <1>1, <2>1, <2>2 DEF PktIsLast
  <2>4. /\ data # << >> => data[1] <= sent + 0 + 1
        /\ handed # << >> => handed[1] <= sent + 0 + 1
    BY <1>1
  <2> QED
    BY <1>2, <2>2, <2>3, <2>4 DEF OrderInv
<1>7. CASE /\ UNCHANGED <<sent, muxCounter, pkt, cc, data, handed>>
           /\ InHand' => InHand
  BY <1>2, <1>7 DEF OrderInv, PktIsLast
<1>8. CASE Repeat
  BY <1>7, <1>8 DEF Repeat, InHand, muxVars, psiVars
<1>9. CASE Reset /\ UNCHANGED <<muxVars, lost, pkt, repeated>> /\ pending
  <2>1. UNCHANGED <<sent, muxCounter, pkt, handed>> /\ data' = << >> /\ cc' = NoCounter
        /\ InHand
    BY <1>9 DEF Reset, muxVars, InHand
  <2>2. NoCounter' = NoCounter /\ DOMAIN << >> = {}
    BY DEF NoCounter
  <2> QED
    BY <1>2, <2>1, <2>2 DEF OrderInv, PktIsLast
<1>10. /\ pkt.start \in Nat /\ pkt.size \in Nat /\ pkt.pointer \in Nat
       /\ pkt.pointer <= pkt.size
       /\ Len(data) <= Cap /\ length \in 0 .. Len(data)
  BY PktType DEF TypeOK
\* What is left to show of a step that collects.
<1>11. ASSUME pending, UNCHANGED <<sent, muxCounter, pkt>>,
              NEW kept \in Seq(Nat), Len(kept) <= Cap, NEW keptLength \in 0 .. Len(kept),
              NEW from \in Nat, NEW n \in Nat,
              Collect(kept, keptLength, from, n), from + n <= pkt.size,
              kept # << >> \/ n > 0,
              \A i \in DOMAIN kept : kept[i] <= sent,
              handed # << >> => handed[1] <= Begin(kept, from),
              Begin(kept, from) <= pkt.start + pkt.pointer + 1
       PROVE  OrderInv' /\ HandedOn
  <2>1. InHand
    BY <1>11 DEF InHand
  <2>2. PktIsLast /\ (pkt.unit /\ pkt.size > 0 => pkt.pointer < pkt.size)
    BY <2>1 DEF OrderInv
  <2>3. \A i \in DOMAIN handed : handed[i] <= sent
    BY DEF OrderInv
  <2>4. /\ data' # << >> /\ data'[1] = Begin(kept, from)
        /\ \A i \in DOMAIN data' : data'[i] <= sent
        /\ \A i \in DOMAIN handed' : handed'[i] <= sent
        /\ handed' # << >> => handed'[1] <= data'[1]
        /\ HandedOn
    BY <1>11, <2>2, <2>3, CollectOrder
  <2>5. data'[1] \in Nat /\ (handed' # << >> => handed'[1] \in Nat)
    BY <2>4, FirstType DEF TypeOK
  <2>6. pkt.start + pkt.pointer + 1 \in Nat
    BY <1>10
  <2>7. handed' # << >> => handed'[1] <= pkt.start + pkt.pointer + 1
    BY <1>11, <2>4, <2>5, <2>6
  <2>8. PktIsLast'
    BY <1>11, <2>2 DEF PktIsLast
  <2> QED
    BY <1>11, <2>2, <2>4, <2>7, <2>8 DEF OrderInv
<1>12. ASSUME pending, InSequence
       PROVE  /\ data # << >> /\ Begin(data, 0) = data[1]
              /\ data[1] <= pkt.start + pkt.pointer + 1
              /\ handed # << >> => handed[1] <= data[1]
              /\ \A i \in DOMAIN data : data[i] <= sent
  BY <1>12 DEF InSequence, OrderInv, InHand, Begin
<1>13. CASE FinishPrevious
  <2>1. /\ pending /\ InSequence /\ Collect(data, length, 0, pkt.pointer)
        /\ UNCHANGED <<sent, muxCounter, pkt>>
    BY <1>13 DEF FinishPrevious, muxVars, chanVars
  <2>2. 0 + pkt.pointer <= pkt.size
    BY <1>10
  <2> QED
    BY <1>1, <1>10, <1>11, <1>12, <2>1, <2>2, 0 \in Nat
<1>14. CASE StartSection
  <2> DEFINE none == << >>
             n == pkt.size - pkt.pointer
  <2>1. /\ pending /\ Collect(none, 0, pkt.pointer, n)
        /\ UNCHANGED <<sent, muxCounter, pkt>> /\ pkt.unit /\ pkt.size > 0
    BY <1>14 DEF StartSection, muxVars
  <2>2. InHand
    BY <2>1 DEF InHand
  <2>3. /\ pkt.pointer < pkt.size
        /\ handed # << >> => handed[1] <= pkt.start + pkt.pointer + 1
    BY <2>1, <2>2 DEF OrderInv
  <2>4. n \in Nat /\ n > 0 /\ pkt.pointer + n <= pkt.size
    BY <1>10, <2>3
  <2>5. /\ none \in Seq(Nat) /\ Len(none) <= Cap /\ 0 \in 0 .. Len(none)
        /\ DOMAIN none = {}
        /\ Begin(none, pkt.pointer) = pkt.start + pkt.pointer + 1
    BY EmptyBuffer DEF Begin
  <2>6. pkt.start + pkt.pointer + 1 <= pkt.start + pkt.pointer + 1
    BY <1>10
  <2> HIDE DEF none, n
  <2> QED
    BY ZenonT(30), <1>10, <1>11, <2>1, <2>3, <2>4, <2>5, <2>6
<1>15. CASE ContinueSection
  <2>1. /\ pending /\ InSequence /\ Collect(data, length, 0, pkt.size)
        /\ UNCHANGED <<sent, muxCounter, pkt>>
    BY <1>15 DEF ContinueSection, muxVars
  <2>2. 0 + pkt.size <= pkt.size
    BY <1>10
  <2> QED
    BY <1>1, <1>10, <1>11, <1>12, <2>1, <2>2, 0 \in Nat
<1>16. CASE UNCHANGED vars
  BY <1>7, <1>16 DEF vars, muxVars, chanVars, psiVars, histVars, InHand
<1> QED
  BY <1>4, <1>5, <1>6, <1>8, <1>9, <1>13, <1>14, <1>15, <1>16
     DEF Next, ExtractPsi, UnitWithoutPayload, OutOfSequence

\* The sections sent completely are the first ones, and at most one per byte.
LEMMA SentFirst ==
  TypeOK /\ Layout =>
    /\ Sent \in Nat /\ Sent <= Len(sections) /\ Sent <= sent
    /\ \A k \in DOMAIN sections : sections[k].last <= sent <=> k <= Sent
<1> SUFFICES ASSUME TypeOK, Layout
             PROVE  /\ Sent \in Nat /\ Sent <= Len(sections) /\ Sent <= sent
                    /\ \A k \in DOMAIN sections : sections[k].last <= sent <=> k <= Sent
  OBVIOUS
<1> DEFINE whole == {k \in DOMAIN sections : sections[k].last <= sent}
           N == Len(sections)
<1>1. N \in Nat /\ DOMAIN sections = 1 .. N /\ sent \in Nat
  BY DEF TypeOK
<1>2. \A k \in DOMAIN sections : /\ sections[k].last \in Nat /\ sections[k].first \in Nat
                                 /\ sections[k].first <= sections[k].last
                                 /\ k <= sections[k].first
                                 /\ k < N => sections[k].last <= sent
  BY PlacedType DEF Layout
<1> HIDE DEF N
<1>3. ASSUME NEW m \in 0 .. N, whole = 1 .. m
      PROVE  /\ Sent \in Nat /\ Sent <= N /\ Sent <= sent
             /\ \A k \in DOMAIN sections : sections[k].last <= sent <=> k <= Sent
  <2>1. Cardinality(1 .. m) = IF 1 > m THEN 0 ELSE m - 1 + 1
    BY FS_Interval, 1 \in Int, m \in Int
  <2>2. Sent = m
    <3>1. m \in Nat /\ Sent = Cardinality(1 .. m)
      <4>1. Sent = Cardinality(whole)
        BY DEF Sent
      <4> HIDE DEF whole
      <4> QED
        BY <1>1, <1>3, <4>1
    <3> QED
      BY <2>1, <3>1
  <2>3. m <= sent
    <3>1. CASE m = 0
      BY <1>1, <3>1
    <3>2. CASE m # 0
      <4>1. m \in whole /\ m \in 1 .. N
        BY <1>1, <1>3, <3>2
      <4>2. sections[m].last <= sent /\ m <= sections[m].first
            /\ sections[m].first <= sections[m].last
            /\ sections[m].last \in Nat /\ sections[m].first \in Nat
        BY <1>1, <1>2, <4>1
      <4> QED
        BY <1>1, <4>1, <4>2
    <3> QED
      BY <3>1, <3>2
  <2>4. \A k \in DOMAIN sections : sections[k].last <= sent <=> k \in 1 .. m
    BY <1>3
  <2> QED
    BY <1>1, <2>2, <2>3, <2>4
<1>4. CASE N = 0
  <2>1. whole = 1 .. 0 /\ 0 \in 0 .. N
    BY <1>1, <1>4
  <2> QED
    BY <1>3, <2>1 DEF N
<1>5. CASE N > 0 /\ sections[N].last <= sent
  <2>1. whole = 1 .. N /\ N \in 0 .. N
    BY <1>1, <1>2, <1>5
  <2> QED
    BY <1>3, <2>1 DEF N
<1>6. CASE N > 0 /\ ~(sections[N].last <= sent)
  <2>1. whole = 1 .. N - 1 /\ N - 1 \in 0 .. N
    BY <1>1, <1>2, <1>6
  <2> QED
    BY <1>3, <2>1 DEF N
<1> QED
  BY <1>1, <1>4, <1>5, <1>6

\* The current section is the one whose bytes the caller has, and it was sent completely.
LEMMA CurrentIs ==
  TypeOK /\ Layout /\ OrderInv =>
    /\ handed = << >> => Current = 0
    /\ \A k \in DOMAIN sections : handed = SectionBytes(k) =>
         /\ Current = k /\ handed # << >> /\ handed[1] = sections[k].first
         /\ sections[k].last <= sent
<1> SUFFICES ASSUME TypeOK, Layout, OrderInv
             PROVE  /\ handed = << >> => Current = 0
                    /\ \A k \in DOMAIN sections : handed = SectionBytes(k) =>
                         /\ Current = k /\ handed # << >> /\ handed[1] = sections[k].first
                         /\ sections[k].last <= sent
  OBVIOUS
<1>1. ASSUME NEW k \in DOMAIN sections
      PROVE  /\ SectionBytes(k) # << >>
             /\ SectionBytes(k)[1] = sections[k].first
             /\ SectionSize(k) \in DOMAIN SectionBytes(k)
             /\ SectionBytes(k)[SectionSize(k)] = sections[k].last
  <2>1. /\ SectionSize(k) \in Nat \ {0} /\ sections[k].first - 1 \in Nat
        /\ SectionSize(k) = sections[k].last + 1 - sections[k].first
        /\ sections[k].first \in Nat /\ sections[k].last \in Nat
    BY PlacedType, SectionSizeType DEF TypeOK
  <2> DEFINE b == SectionBytes(k)
  <2>2. /\ b \in Seq(Nat) /\ Len(b) = SectionSize(k)
        /\ \A i \in 1 .. SectionSize(k) : b[i] = sections[k].first - 1 + i
    BY <2>1, BytesShape DEF SectionBytes
  <2> HIDE DEF b
  <2>3. DOMAIN b = 1 .. SectionSize(k) /\ b # << >>
    BY <2>1, <2>2, EmptySeq
  <2>4. 1 \in 1 .. SectionSize(k) /\ SectionSize(k) \in 1 .. SectionSize(k)
    BY <2>1
  <2>5. /\ b[1] = sections[k].first - 1 + 1
        /\ b[SectionSize(k)] = sections[k].first - 1 + SectionSize(k)
    BY <2>2, <2>4
  <2>6. b[1] = sections[k].first /\ b[SectionSize(k)] = sections[k].last
    BY <2>1, <2>5
  <2> QED
    BY <2>3, <2>4, <2>6 DEF b
<1>2. ASSUME NEW j \in DOMAIN sections, NEW k \in DOMAIN sections,
             SectionBytes(j) = SectionBytes(k)
      PROVE  j = k
  <2>1. sections[j].first = sections[k].first
    BY <1>1, <1>2
  <2>2. /\ j \in Nat /\ k \in Nat
        /\ sections[j].first \in Nat /\ sections[k].first \in Nat
        /\ sections[j].last \in Nat /\ sections[k].last \in Nat
        /\ sections[j].first <= sections[j].last /\ sections[k].first <= sections[k].last
    BY PlacedType
  <2>3. ~(j < k) /\ ~(k < j)
    BY <2>1, <2>2 DEF Layout
  <2> QED
    BY <2>2, <2>3
<1>3. handed = << >> => Current = 0
  BY <1>1 DEF Current
<1>4. ASSUME NEW k \in DOMAIN sections, handed = SectionBytes(k)
      PROVE  /\ Current = k /\ handed # << >> /\ handed[1] = sections[k].first
             /\ sections[k].last <= sent
  <2> DEFINE c == CHOOSE j \in DOMAIN sections : handed = SectionBytes(j)
  <2>1. c \in DOMAIN sections /\ handed = SectionBytes(c)
    BY <1>4
  <2>2. Current = c
    BY <1>4 DEF Current
  <2> HIDE DEF c
  <2>3. Current = k
    BY <1>2, <1>4, <2>1, <2>2
  <2>4. sections[k].last <= sent
    BY <1>1, <1>4 DEF OrderInv
  <2> QED
    BY <1>1, <1>4, <2>3, <2>4
<1> QED
  BY <1>3, <1>4

\* A caller has no section yet or one of those placed.
LEMMA HandedPlaced ==
  TypeOK /\ Layout /\ WholeInv /\ OrderInv =>
    /\ Current \in Nat
    /\ Current = 0 => handed = << >>
    /\ Current # 0 => /\ Current \in DOMAIN sections /\ handed = SectionBytes(Current)
                      /\ handed # << >> /\ handed[1] = sections[Current].first
                      /\ sections[Current].last <= sent
<1> SUFFICES ASSUME TypeOK, Layout, WholeInv, OrderInv
             PROVE  /\ Current \in Nat
                    /\ Current = 0 => handed = << >>
                    /\ Current # 0 =>
                         /\ Current \in DOMAIN sections /\ handed = SectionBytes(Current)
                         /\ handed # << >> /\ handed[1] = sections[Current].first
                         /\ sections[Current].last <= sent
  OBVIOUS
<1>1. CASE handed = << >>
  BY <1>1, CurrentIs
<1>2. CASE handed # << >>
  <2>1. PICK k \in DOMAIN sections : handed = SectionBytes(k)
    BY <1>2 DEF WholeInv, DeliveredWhole
  <2>2. k \in Nat \ {0}
    BY DEF TypeOK
  <2> QED
    BY <2>1, <2>2, CurrentIs
<1> QED
  BY <1>1, <1>2

\* What a step does to the sections sent and to the section in use.
ReaderStep ==
  \/ UNCHANGED <<handed, sections, sent>>
  \/ /\ UNCHANGED handed
     /\ sent <= sent'
     /\ DOMAIN sections \subseteq DOMAIN sections'
     /\ \A k \in DOMAIN sections : sections'[k] = sections[k]
  \/ UNCHANGED <<sections, sent>>

LEMMA ReaderStepIs ==
  ASSUME TypeOK, [Next]_vars
  PROVE  ReaderStep
<1>1. ASSUME NEW unit, NEW pointer, NEW n \in 1 .. MaxPayload, Send(unit, pointer, n)
      PROVE  UNCHANGED handed /\ sent <= sent'
  BY <1>1 DEF Send, TypeOK
<1>2. CASE SendContinuation
  BY <1>1, <1>2 DEF SendContinuation, ReaderStep
<1>3. CASE SendStart
  <2>1. UNCHANGED handed /\ sent <= sent'
    BY <1>1, <1>3 DEF SendStart
  <2> QED
    BY <1>3, <2>1, PlacedStay DEF ReaderStep
<1> QED
  BY <1>2, <1>3 DEF Next, SendEmpty, Repeat, ExtractPsi, UnitWithoutPayload, FinishPrevious,
     StartSection, ContinueSection, OutOfSequence, vars, muxVars, histVars, ReaderStep

\* Everything the order of the sections used rests on.
DeliveryInv == TypeOK /\ Layout /\ WholeInv /\ OrderInv

LEMMA DeliveryStep ==
  ASSUME DeliveryInv, [Next]_vars
  PROVE  DeliveryInv' /\ HandedOn
<1>1. TypeOK'
  BY TypeStep DEF DeliveryInv
<1> QED
  BY <1>1, LayoutStep, WholeStep, OrderStep DEF DeliveryInv

\* Where the reader and the multiplexer stand.
DeliveryShape ==
  /\ Sent \in Nat /\ Sent <= Len(sections) /\ Sent <= sent /\ Current \in Nat
  /\ Current = 0 => handed = << >>
  /\ \A k \in DOMAIN sections : sections[k].last <= sent <=> k <= Sent
  /\ \A k \in DOMAIN sections : handed = SectionBytes(k) => Current = k
  /\ Current # 0 => /\ Current \in DOMAIN sections /\ handed = SectionBytes(Current)
                    /\ handed # << >> /\ handed[1] = sections[Current].first
                    /\ sections[Current].last <= sent

LEMMA DeliveryShapeIs == DeliveryInv => DeliveryShape
BY SentFirst, HandedPlaced, CurrentIs DEF DeliveryInv, DeliveryShape

\* Every step of extract_psi and of the multiplexer is one that SectionDelivery allows.
LEMMA DeliveryMaps ==
  ASSUME DeliveryInv, DeliveryInv', HandedOn, [Next]_vars
  PROVE  [Ordered!SDNext]_(<<Sent, Current>>)
<1> USE DEF DeliveryShape
<1>1. DeliveryShape
  BY DeliveryShapeIs
<1>2. DeliveryShape'
  BY DeliveryShapeIs, PTL
<1>3. CASE UNCHANGED <<sections, sent>>
  <2>1. Sent' = Sent
    BY <1>3 DEF Sent
  <2>2. CASE Current = 0
    <3>1. Current' \in Nat /\ (Current' = 0 \/ Current' <= Sent')
      BY <1>2
    <3> QED
      BY <1>1, <2>1, <2>2, <3>1 DEF Ordered!SDNext, Ordered!Handover
  <2>3. CASE Current # 0
    <3>1. /\ Current \in DOMAIN sections /\ handed # << >>
          /\ handed[1] = sections[Current].first
      BY <1>1, <2>3
    <3>2. handed' # << >> /\ handed[1] <= handed'[1]
      BY <3>1 DEF HandedOn
    <3>3. /\ Current' # 0 /\ Current' \in DOMAIN sections
          /\ handed'[1] = sections[Current'].first /\ Current' <= Sent
      BY <1>2, <1>3, <2>1, <3>2
    <3>4. sections[Current].first <= sections[Current'].first
      BY <3>1, <3>2, <3>3
    <3>5. ASSUME Current' < Current
          PROVE  FALSE
      <4>1. sections[Current'].last < sections[Current].first
        BY <3>1, <3>3, <3>5 DEF DeliveryInv, Layout
      <4>2. /\ sections[Current].first \in Nat /\ sections[Current'].first \in Nat
            /\ sections[Current'].last \in Nat
            /\ sections[Current'].first <= sections[Current'].last
        BY <3>1, <3>3, PlacedType DEF DeliveryInv
      <4> QED
        BY <3>4, <4>1, <4>2
    <3>6. Current' \in Current .. Sent
      BY <1>1, <1>2, <3>3, <3>5
    <3> QED
      BY <2>1, <3>6 DEF Ordered!SDNext, Ordered!Handover
  <2> QED
    BY <2>2, <2>3
<1>4. CASE /\ UNCHANGED handed
           /\ sent <= sent'
           /\ DOMAIN sections \subseteq DOMAIN sections'
           /\ \A k \in DOMAIN sections : sections'[k] = sections[k]
  <2>1. Current' = Current
    <3>1. CASE Current = 0
      BY <1>1, <1>2, <1>4, <3>1
    <3>2. CASE Current # 0
      <4>1. Current \in DOMAIN sections /\ handed = SectionBytes(Current)
        BY <1>1, <3>2
      <4>2. \A k \in DOMAIN sections : SectionBytes(k)' = SectionBytes(k)
        BY <1>4 DEF SectionBytes, SectionSize
      <4> QED
        BY <1>2, <1>4, <4>1, <4>2
    <3> QED
      BY <3>1, <3>2
  <2>2. Sent <= Sent'
    <3>1. CASE Sent = 0
      BY <1>2, <3>1
    <3>2. CASE Sent # 0
      <4>1. Sent \in DOMAIN sections
        BY <1>1, <3>2 DEF DeliveryInv, TypeOK
      <4>2. sections[Sent].last <= sent /\ sections[Sent].last \in Nat
        BY <1>1, <4>1, PlacedType DEF DeliveryInv
      <4>3. sent \in Nat /\ sent' \in Nat
        BY DEF DeliveryInv, TypeOK
      <4>4. Sent \in DOMAIN sections' /\ sections'[Sent].last <= sent'
        BY <1>4, <4>1, <4>2, <4>3
      <4> QED
        BY <1>2, <4>4
    <3> QED
      BY <3>1, <3>2
  <2>3. Sent' <= MaxCells
    <3>1. sent' <= MaxCells /\ sent' \in Nat
      BY DEF DeliveryInv, Layout, TypeOK
    <3> QED
      BY <1>2, <3>1
  <2>4. Sent' = Sent \/ Sent' \in Sent + 1 .. MaxCells
    BY <1>1, <1>2, <2>2, <2>3
  <2> QED
    BY <2>1, <2>4 DEF Ordered!SDNext, Ordered!Finish
<1> QED
  BY <1>3, <1>4, ReaderStepIs DEF ReaderStep, DeliveryInv

\* Whatever the reception does to the packets, the callers of extract_psi are handed sections
\* that were sent completely, and never one sent before the one they have.
THEOREM DeliveredInOrder == Spec => OrderedDelivery
<1>1. Init => DeliveryInv /\ Ordered!SDInit
  <2> SUFFICES ASSUME Init PROVE DeliveryInv /\ Ordered!SDInit
    OBVIOUS
  <2>1. TypeOK
    BY TypeInit
  <2>2. /\ sections = << >> /\ DOMAIN sections = {} /\ sent = 0 /\ ~pending /\ repeated
        /\ data = << >> /\ handed = << >> /\ cc = NoCounter /\ length = 0
        /\ DOMAIN data = {} /\ DOMAIN handed = {}
    BY DEF Init
  <2>3. Layout /\ OrderInv
    BY <2>2 DEF Layout, OrderInv, InHand
  <2>4. WholeInv
    BY <2>2 DEF WholeInv, Vouched, DeliveredWhole
  <2>5. Sent = 0
    BY <2>1, <2>2, <2>3, SentFirst
  <2>6. Current = 0
    BY <2>1, <2>2, <2>3, CurrentIs
  <2> QED
    BY <2>1, <2>3, <2>4, <2>5, <2>6 DEF DeliveryInv, Ordered!SDInit
<1>2. DeliveryInv /\ [Next]_vars => DeliveryInv' /\ [Ordered!SDNext]_(<<Sent, Current>>)
  BY DeliveryStep, DeliveryMaps
<1> QED
  BY <1>1, <1>2, PTL DEF Spec, OrderedDelivery, Ordered!SDSpec, Ordered!sdVars
=============================================================================
