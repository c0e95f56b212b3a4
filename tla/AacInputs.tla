----------------------------- MODULE AacInputs -----------------------------
(***************************************************************************)
(* The transmuxing of a stream, with an input for each of its pure parts:  *)
(* the course of parsing, the frame made, and the codebooks.               *)
(***************************************************************************)
EXTENDS AacStream, AacSyntax, AacRepack, HuffmanTree

-----------------------------------------------------------------------------
(* An input of a pure part is drawn at the start and is gone with the      *)
(* first step of the stream.                                               *)
VARIABLE input

NoInput == [of |-> "nothing"]

Inputs ==
  {NoInput}
    \cup [of : {"course"}, course : Courses]
    \cup [of : {"elements"}, elements : BoundedSeq(Elements, MaxBlocks) \ {<< >>}, mux : BOOLEAN]
    \cup [of : {"words"}, book : PrefixFree]
    \cup [of : {"spectrum"}, number : DOMAIN Codebooks]

InputInit == Init /\ input \in Inputs

InputNext == Next /\ input' = NoInput

InputSpec == InputInit /\ [][InputNext]_<<vars, input>> /\ WF_vars(Parse)

-----------------------------------------------------------------------------
\* Whatever the bits of a frame are, parsing reads no byte behind those kept behind the
\* workspace, even when the frame is the last in it (RawDataBlock, EXTRA_WORKSPACE_BYTES).
ReadsInside ==
  input.of = "course" => ReadsBehind(input.course) <= 8 * ExtraWorkspaceBytes

\* Whatever bits of a byte an element ends at, the frame written has the channel twice, or once,
\* and ends with an end element; its length field says how long it is (TransmuxDualMono,
\* TransmuxMonoToStereo).
Repacked ==
  input.of = "elements" => AsWanted(input.elements, input.mux)

\* A codebook without prefixes becomes a tree exactly when it is full, and the tree gives every
\* codeword its index back and takes no bit more, in whatever order the codewords are appended
\* (AppendCodeword, DecodeBits).
TreeDecodes ==
  input.of = "words" =>
    /\ Tree(input.book) # Thrown <=> Full(input.book)
    /\ Full(input.book) => Decodes(input.book)

\* The codewords of a codebook stand for all values up to the largest, each once: with signs when
\* the codebook has them, and without when sign bits follow (DecodeSpectrumQuadBits,
\* DecodeSpectrumPairBits).
SpectrumValues ==
  input.of = "spectrum" => Decoded(input.number) = Values(input.number)
=============================================================================
