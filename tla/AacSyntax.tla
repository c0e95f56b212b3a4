----------------------------- MODULE AacSyntax -----------------------------
(***************************************************************************)
(* RawDataBlock and what it calls, as far as the position in the frame     *)
(* goes.  Parsing reads bits, steps over bits and now and then checks      *)
(* whether the position is behind the end of the frame; between two checks *)
(* it may read bytes behind the frame, for which EXTRA_WORKSPACE_BYTES are *)
(* kept behind the workspace.                                              *)
(*                                                                         *)
(* A course is a sequence of such steps, and each part of the syntax is    *)
(* the set of the courses its parsing may take.  Where the bits decide how *)
(* far a step goes it goes as far as it can, and what is optional is       *)
(* there; how often each loop is run, and with what, is left open.         *)
(***************************************************************************)
EXTENDS Integers, Sequences, SequencesExt

CONSTANTS MaxRounds,   \* how often a loop is run at most
          MaxElements  \* elements and error checks in a frame

ASSUME SyntaxAssumption == MaxRounds \in Nat /\ MaxElements \in Nat

ExtraWorkspaceBytes == 16

Read(n) == {<<[step |-> "read", bits |-> n]>>}
Skip(n) == {<<[step |-> "skip", bits |-> n]>>}
CheckOverrun == {<<[step |-> "check", bits |-> 0]>>}
ByteAlignment == Skip(7)

\* One part after the other
A \bullet B == {a \o b : a \in A, b \in B}

\* One part up to n times, each time with another course
Times(A, n) == {FlattenSeq(courses) : courses \in BoundedSeq(A, n)}

Loop(A) == Times(A, MaxRounds)

\* The longest codewords of the tables: the scale factors, quads (codebooks 1 to 4: 11, 9,
\* 16, 12) and pairs of coefficients (5 to 10: 13, 11, 12, 10, 15, 12), and the pairs that
\* may be followed by escapes (11: 12).  Nothing else of the tables is taken over here.
ScalefactorBits == 19
QuadBits == 16
PairBits == 15
EscPairBits == 12

-----------------------------------------------------------------------------
(* A single channel element; short for windows in EIGHT_SHORT_SEQUENCE.    *)

IcsInfo(short) ==
  Skip(4 + 8 + 1) \bullet Read(2) \bullet Skip(1)
    \bullet IF short THEN Read(4 + 7) ELSE Read(6 + 1) \bullet Read(1) \bullet Skip(5) \bullet Skip(40)

\* A length in several parts, for as long as the part is the largest one
SectionLength(short) == CheckOverrun \bullet Read(IF short THEN 3 ELSE 5)

Section(short) ==
  CheckOverrun \bullet Read(4) \bullet SectionLength(short) \bullet Loop(SectionLength(short))

SectionData(short) == Loop(Section(short))

\* The first noise energy has nine bits instead of a codeword.
ScaleFactorData == Loop(CheckOverrun \bullet (Read(ScalefactorBits) \cup Skip(9)))

PulseData == CheckOverrun \bullet Read(1) \bullet Read(2) \bullet Skip(6 + 9 * 4)

\* The order of a filter is up to 2^orderBits - 1, with up to four bits for each.
TnsFilter(short) ==
  Skip(IF short THEN 4 ELSE 6) \bullet CheckOverrun \bullet Read(IF short THEN 3 ELSE 5)
    \bullet Skip(1) \bullet Read(1) \bullet Skip(4 * (IF short THEN 7 ELSE 31))

\* A short window has one filter at most, and there is only one long window.
TnsWindow(short) ==
  CheckOverrun \bullet Read(IF short THEN 1 ELSE 2) \bullet Read(1)
    \bullet IF short THEN TnsFilter(TRUE) \cup {<< >>} ELSE Loop(TnsFilter(FALSE))

TnsData(short) ==
  CheckOverrun \bullet Read(1) \bullet IF short THEN Loop(TnsWindow(TRUE)) ELSE TnsWindow(FALSE)

\* The conditions name constants, so that there are six bits for each adjustment.
GainControlData ==
  CheckOverrun \bullet Read(1) \bullet Read(2) \bullet Loop(CheckOverrun \bullet Read(3) \bullet Skip(6 * 7))

\* Up to eight ones and a zero, or the ninth one that is refused
Escape == Read(9) \bullet Skip(8 + 4)

\* Coefficients of any section, with sign bits and escapes
Coefficients ==
  CheckOverrun \bullet (Read(QuadBits) \bullet Skip(4)
                          \cup Read(PairBits) \bullet Skip(2)
                          \cup Read(EscPairBits) \bullet Skip(2) \bullet Escape \bullet Escape)

SpectralData == CheckOverrun \bullet Loop(Coefficients)

SingleChannelElement(short) ==
  IcsInfo(short) \bullet SectionData(short) \bullet ScaleFactorData \bullet PulseData
    \bullet TnsData(short) \bullet GainControlData \bullet SpectralData

-----------------------------------------------------------------------------
(* The other elements, and the blocks of a frame.                          *)

DataStreamElement ==
  Skip(4) \bullet Read(1 + 8) \bullet Read(8) \bullet ByteAlignment \bullet Skip(8 * (255 + 255))

\* Everything in front of the comment
ProgramConfig ==
  Skip(10) \bullet Read(4 + 4 + 4 + 2 + 3 + 4) \bullet Read(1) \bullet Skip(4) \bullet Read(1) \bullet Skip(4)
    \bullet Read(1) \bullet Skip(3) \bullet Skip(5 * (15 + 15 + 15) + 4 * 3 + 4 * 7 + 5 * 15)

Comment == ByteAlignment \bullet Read(8) \bullet Skip(8 * 255)

\* Fault: the end is not checked before the comment.
UncheckedProgramConfigElement == ProgramConfig \bullet Comment

ProgramConfigElement == ProgramConfig \bullet CheckOverrun \bullet Comment

FillElement == Read(4) \bullet Read(8) \bullet Read(4) \bullet Skip(8 * (15 + 255 - 2) + 4)

RawDataBlock ==
  CheckOverrun \bullet Read(3)
    \bullet (SingleChannelElement(TRUE) \cup SingleChannelElement(FALSE) \cup DataStreamElement
              \cup ProgramConfigElement \cup FillElement \cup {<< >>})

\* adts_raw_data_block_error_check
ErrorCheck == ByteAlignment \bullet Skip(16)

\* Any element may follow any other, be it in the same block or in the next.
Courses == Times(ErrorCheck \bullet RawDataBlock, MaxElements) \bullet CheckOverrun

-----------------------------------------------------------------------------
\* How far behind the end of the frame the position may be, and has been read
AtEnd == [behind |-> 0, read |-> 0]

\* At a check that passes, the position is at most at the end.
BehindAfter(position, stride) == IF stride.step = "check" THEN 0 ELSE position.behind + stride.bits

Go(position, stride) ==
  LET behind == BehindAfter(position, stride)
  IN  [behind |-> behind,
       read   |-> IF stride.step = "read" /\ behind > position.read THEN behind ELSE position.read]

\* How far behind the end of the frame the reads of a course may go: it begins behind the
\* header, which is part of the frame.
ReadsBehind(course) ==
  LET position[i \in 0 .. Len(course)] == IF i = 0 THEN AtEnd ELSE Go(position[i - 1], course[i])
  IN  position[Len(course)].read
=============================================================================
