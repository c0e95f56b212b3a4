---------------------------- MODULE HuffmanTree ----------------------------
(***************************************************************************)
(* maketree writes the trees of the Huffman codebooks and DecodeBits walks *)
(* them; the spectrum decoders split the index of a codeword into values.  *)
(*                                                                         *)
(* A tree is a sequence of nodes, a pair for the bits 0 and 1: a node is   *)
(* named by its place from 0 on, a codeword by Leaf plus its index, and 0  *)
(* is what is not set.  A codeword is a sequence of bits.                  *)
(***************************************************************************)
EXTENDS Integers, Sequences, SequencesExt, FiniteSets

Leaf == 500

\* What throws
Thrown == << >>

\* Fault: the node that is made is not gone to.
StepStaying(t, bit, last, codeIndex) ==
  LET next == t.tree[t.current + 1][bit + 1]
      made == IF last THEN Leaf + codeIndex ELSE Len(t.tree)
  IN  IF t.tree = Thrown \/ next >= Leaf THEN [t EXCEPT !.tree = Thrown]
      ELSE IF next # 0 THEN [t EXCEPT !.current = next]
      ELSE [tree |-> [t.tree EXCEPT ![t.current + 1][bit + 1] = made] \o (IF last THEN << >> ELSE <<(<<0, 0>>)>>),
            current |-> t.current]

\* One bit of a codeword: make a leaf or a node where nothing is set, or go to the node.
Step(t, bit, last, codeIndex) ==
  IF t.tree = Thrown \/ t.tree[t.current + 1][bit + 1] >= Leaf THEN [t EXCEPT !.tree = Thrown]
  ELSE LET next == t.tree[t.current + 1][bit + 1]
           made == IF last THEN Leaf + codeIndex ELSE Len(t.tree)
       IN  IF next # 0 THEN [t EXCEPT !.current = next]
           ELSE [tree |-> [t.tree EXCEPT ![t.current + 1][bit + 1] = made]
                            \o (IF last THEN << >> ELSE <<(<<0, 0>>)>>),
                 current |-> IF last THEN t.current ELSE made]

AppendCodeword(tree, codeIndex, codeword) ==
  FoldLeft(LAMBDA t, i : Step(t, codeword[i], i = Len(codeword), codeIndex),
           [tree |-> tree, current |-> 0], [i \in DOMAIN codeword |-> i]).tree

\* The tree of a codebook; it is thrown when a node is not set at the end.
Tree(codebook) ==
  LET tree == FoldLeft(LAMBDA t, j : AppendCodeword(t, j - 1, codebook[j]), <<(<<0, 0>>)>>,
                       [j \in DOMAIN codebook |-> j])
  IN  IF \E n \in DOMAIN tree : 0 \in {tree[n][1], tree[n][2]} THEN Thrown ELSE tree

\* One bit taken, as long as no leaf is reached
Taking(tree, s, bit) ==
  IF s.index >= Leaf THEN s ELSE [index |-> tree[s.index + 1][bit + 1], pos |-> s.pos + 1]

\* The index found, and the bits taken
DecodeBits(tree, data) ==
  LET found == FoldLeft(LAMBDA s, bit : Taking(tree, s, bit), [index |-> 0, pos |-> 0], data)
  IN  [found EXCEPT !.index = @ - Leaf]

-----------------------------------------------------------------------------
(* The values of a codeword of codebook 1 to 11; the decoders are given    *)
(* the number of the codebook less one.                                    *)

\* DecodeSpectrumQuadBits: w, x, y, z
Quad(codebook, index) ==
  LET un == IF codebook >= 2 THEN 1 ELSE 0
  IN  <<index \div 27 + un - 1, ((index \div 9) % 3) + un - 1, ((index \div 3) % 3) + un - 1, (index % 3) + un - 1>>

\* Fault: the bounds are those of the numbers of the codebooks.
PairByNumber(codebook, index) ==
  LET mod == IF codebook >= 11 THEN 17 ELSE IF codebook >= 9 THEN 13 ELSE IF codebook >= 7 THEN 8 ELSE 9
      un  == IF codebook >= 7 THEN 1 ELSE 0
  IN  <<index \div mod + 4 * un - 4, (index % mod) + 4 * un - 4>>

\* DecodeSpectrumPairBits: y, z
Pair(codebook, index) ==
  LET mod == IF codebook >= 10 THEN 17 ELSE IF codebook >= 8 THEN 13 ELSE IF codebook >= 6 THEN 8 ELSE 9
      un  == IF codebook >= 6 THEN 1 ELSE 0
  IN  <<index \div mod + 4 * un - 4, (index % mod) + 4 * un - 4>>

\* Whether the values of a codebook have signs, the largest one, and the number of codewords
\* in its table
Codebooks == <<
  [signs |-> TRUE,  largest |-> 1,  words |-> 81],  [signs |-> TRUE,  largest |-> 1,  words |-> 81],
  [signs |-> FALSE, largest |-> 2,  words |-> 81],  [signs |-> FALSE, largest |-> 2,  words |-> 81],
  [signs |-> TRUE,  largest |-> 4,  words |-> 81],  [signs |-> TRUE,  largest |-> 4,  words |-> 81],
  [signs |-> FALSE, largest |-> 7,  words |-> 64],  [signs |-> FALSE, largest |-> 7,  words |-> 64],
  [signs |-> FALSE, largest |-> 12, words |-> 169], [signs |-> FALSE, largest |-> 12, words |-> 169],
  [signs |-> FALSE, largest |-> 16, words |-> 289]>>

-----------------------------------------------------------------------------
CONSTANTS WordBits,   \* the bits of a codeword, 19 at most
          BookWords   \* the codewords of a codebook, 289 at most

ASSUME BookAssumption == WordBits \in Nat /\ BookWords \in Nat

\* Codewords in any order
Words == BoundedSeq({0, 1}, WordBits) \ {<< >>}

\* What the nodes of a tree stand for: what has been read of a codeword that goes on
Begun(book) == UNION {{SubSeq(book[j], 1, k) : k \in 0 .. Len(book[j]) - 1} : j \in DOMAIN book}

\* None begins another, and there are not more nodes than numbers for them.
PrefixFree == {book \in BoundedSeq(Words, BookWords) \ {<< >>} :
                 /\ \A i, j \in DOMAIN book : i # j => ~IsPrefix(book[i], book[j])
                 /\ Cardinality(Begun(book)) <= Leaf}

\* There is no room for a further codeword.
Full(book) == \A word \in Words : \E i \in DOMAIN book : IsPrefix(book[i], word) \/ IsPrefix(word, book[i])

\* The tree of a codebook gives every codeword its index back and takes no bit more.
Decodes(book) ==
  \A j \in DOMAIN book, next \in {0, 1} :
    DecodeBits(Tree(book), Append(book[j], next)) = [index |-> j - 1, pos |-> Len(book[j])]

\* What the codewords of codebook n stand for, and what a spectrum may consist of with it
Decoded(n) ==
  {IF n < 5 THEN Quad(n - 1, i) ELSE Pair(n - 1, i) : i \in 0 .. Codebooks[n].words - 1}

Values(n) ==
  LET values == (IF Codebooks[n].signs THEN -Codebooks[n].largest ELSE 0) .. Codebooks[n].largest
  IN  IF n < 5 THEN [1 .. 4 -> values] ELSE [1 .. 2 -> values]
=============================================================================
