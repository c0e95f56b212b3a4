------------------------------- MODULE MCAac -------------------------------
(* The transmuxing of AAC on a small stream, and its pure parts.           *)
EXTENDS AacInputs

\* A frame that can be converted; one that is refused, with a false header in it that
\* seems to begin a frame as long as what is left; and one refused for its header, with a
\* lone 0xff.
SomeFrames == {
  [len |-> 3, verdict |-> "converted",   fake |-> 0, fakeLen |-> 0],
  [len |-> 5, verdict |-> "refused",     fake |-> 3, fakeLen |-> 3],
  [len |-> 4, verdict |-> "unsupported", fake |-> 3, fakeLen |-> 0]}

\* The cells of up to three of them, which are as many as the frame begun and a PES of four
\* bytes touch.
Flat ==
  [frames \in BoundedSeq(SomeFrames, 3) |-> FoldLeft(LAMBDA s, f : s \o Cells(f), << >>, frames)]

SomeStreams == Range(Flat) \ {<< >>}

\* Elements that begin and end at any bit of a byte
SmallElements ==
  {[begin |-> begin, end |-> begin + 7 + bits] : begin \in {56, 117}, bits \in 20 .. 27}
=============================================================================
