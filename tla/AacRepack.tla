----------------------------- MODULE AacRepack -----------------------------
(***************************************************************************)
(* What a frame is converted into: a single channel element becomes a      *)
(* channel pair element that holds its channel twice, or is copied, and an *)
(* end element follows.  The bits are moved by bytes, and the last bits of *)
(* one channel share a byte with the first of the next.                    *)
(*                                                                         *)
(* A bit is 0, 1, or the place of a bit of the frame plus 2: a byte is a   *)
(* sequence of eight bits.                                                 *)
(***************************************************************************)
EXTENDS Integers, Sequences, SequencesExt

Zeros(n) == [i \in 1 .. n |-> 0]
Ones(n) == [i \in 1 .. n |-> 1]

\* read_bits of the n bits from pos on
Bits(from, n) == [i \in 1 .. n |-> from + i + 1]

\* A byte with these bits at its high, or at its low end; the others are 0.
High(bits) == bits \o Zeros(8 - Len(bits))
Low(bits) == Zeros(8 - Len(bits)) \o bits

\* The bits that both have set are told by a value that is no bit.
Or(a, b) == [i \in 1 .. 8 |-> IF a[i] = 0 THEN b[i] ELSE IF b[i] = 0 THEN a[i] ELSE -1]

\* The whole bytes of a stretch of bits, and the bits that remain
WholeBytes(from, to) == [k \in 1 .. (to - from) \div 8 |-> Bits(from + 8 * (k - 1), 8)]
Remain(from, to) == (to - from) % 8

-----------------------------------------------------------------------------
(* One block; pos is in the channel, whose last bit is before end.         *)

\* Fault: the end element is thought to fit behind six bits.
RestAndEndCut(pos, end) ==
  LET n == Remain(pos, end)
  IN  WholeBytes(pos, end)
        \o (IF n = 0 THEN << >> ELSE <<Or(High(Bits(end - n, n)), Zeros(n) \o High(Ones(3)))>>)
        \o (IF n = 0 \/ n = 7 THEN <<High(Ones(IF n = 0 THEN 3 ELSE 2))>> ELSE << >>)

\* The rest of the channel, and the end element behind it, filled up with zeros: what does not
\* fit into the byte of the bits that remain is in a byte of its own.
RestAndEnd(pos, end) ==
  LET n   == Remain(pos, end)
      fit == IF n < 6 THEN 3 ELSE 8 - n
  IN  WholeBytes(pos, end)
        \o (IF n = 0 THEN << >>
            ELSE <<Or(High(Bits(end - n, n)), Zeros(n) \o Ones(fit) \o Zeros(8 - n - fit))>>)
        \o (IF n = 0 THEN <<High(Ones(3))>> ELSE IF fit < 3 THEN <<High(Ones(3 - fit))>> ELSE << >>)

\* The bits that remain of the first channel share a byte with the first of the second.
BothChannels(pos, end) ==
  LET n      == Remain(pos, end)
      shared == Or(High(Bits(end - n, n)), Low(Bits(pos, 8 - n)))
  IN  WholeBytes(pos, end)
        \o IF n = 0 THEN RestAndEnd(pos, end) ELSE <<shared>> \o RestAndEnd(pos + 8 - n, end)

\* The element of a block from begin to end: copied, or muxed to stereo.
Block(begin, end, mux) ==
  IF ~mux THEN RestAndEnd(begin, end)
  ELSE <<Or(High(<<0, 0, 1>>), Low(Bits(begin + 3, 4) \o <<0>>))>> \o BothChannels(begin + 7, end)

\* The bits of some bytes
BitsOf(bytes) == [i \in 1 .. 8 * Len(bytes) |-> bytes[(i + 7) \div 8][((i - 1) % 8) + 1]]

-----------------------------------------------------------------------------
(* The header: protection_absent is bit 16, channel_configuration bits 24  *)
(* to 26, and aac_frame_length bits 31 to 43.  A length that needs one bit *)
(* more sets bit 30, too.                                                  *)

Weights == <<4096, 2048, 1024, 512, 256, 128, 64, 32, 16, 8, 4, 2, 1>>

\* The 13 bits of a number
Field(number) == [i \in 1 .. 13 |-> (number \div Weights[i]) % 2]

\* The number with these bits
Shifted(number, bit) == 2 * number + bit
Number(bits) == FoldLeft(Shifted, 0, bits)

Header(config, mux, frameBytes) ==
  [i \in 1 .. 56 |->
     IF i = 16 \/ (i = 30 /\ frameBytes >= 8192) THEN 1
     ELSE IF i \in 24 .. 26 THEN (IF config = 1 \/ mux THEN <<0, 1, 0>> ELSE <<0, 0, 1>>)[i - 23]
     ELSE IF i \in 31 .. 43 THEN Field(frameBytes)[i - 30] ELSE Bits(0, 56)[i]]

\* The bits of the frame made from the elements of all blocks
Frame(config, elements, mux) ==
  LET bytes == FlattenSeq([k \in DOMAIN elements |-> Block(elements[k].begin, elements[k].end, mux)])
  IN  Header(config, mux, 7 + Len(bytes)) \o BitsOf(bytes)

-----------------------------------------------------------------------------
\* What the standard asks for: a channel pair element with the tag of the single one, no
\* common window and the channel twice, or the single one; the end element, filled up.
Wanted(e, mux) ==
  LET channel == Bits(e.begin + 7, e.end - e.begin - 7)
      bits == (IF mux THEN <<0, 0, 1>> \o Bits(e.begin + 3, 4) \o <<0>> \o channel \o channel
               ELSE Bits(e.begin, e.end - e.begin)) \o <<1, 1, 1>>
  IN  bits \o Zeros((8 - (Len(bits) % 8)) % 8)

CONSTANTS Elements,   \* the elements of one channel, from bit begin to bit end of their frame
          MaxBlocks   \* the blocks in a frame

\* An element has an id, a tag and a channel, which begins with its global gain.
ASSUME RepackAssumption ==
  /\ Elements \subseteq [begin : Nat, end : Nat]
  /\ \A e \in Elements : e.end >= e.begin + 7 + 8
  /\ MaxBlocks \in Nat

\* The frame made from these elements is the one wanted; its length field says how long it is,
\* as long as the field can.
AsWanted(elements, mux) ==
  LET frame == Frame(0, elements, mux)
  IN  /\ SubSeq(frame, 57, Len(frame)) = FlattenSeq([k \in DOMAIN elements |-> Wanted(elements[k], mux)])
      /\ Len(frame) < 8 * 8192 => 8 * Number(SubSeq(frame, 31, 43)) = Len(frame)
=============================================================================
