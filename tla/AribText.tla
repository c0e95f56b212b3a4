------------------------------ MODULE AribText ------------------------------
(***************************************************************************)
(* AddArib8AsUtf8 and AnalizeArib8: a text in the 8-bit code of ARIB       *)
(* STD-B24 is rewritten as UTF-8, and the positions where readable text    *)
(* begins and ends are noted: a position is pushed on the list whenever    *)
(* what comes next is readable and what came before is not, or the other   *)
(* way round.                                                              *)
(*                                                                         *)
(* A text is a sequence of tokens [op, ...], one per control code or       *)
(* character; what is written is a sequence with an element per code:      *)
(* "read" or "control", or "either" for the U+FFFD of a set that is not    *)
(* supported.                                                              *)
(***************************************************************************)
EXTENDS Naturals, Sequences, SequencesExt

\* The graphic sets, by what becomes of their characters: GS_1BYTE_G, GS_2BYTE_G, the
\* sets of DRCS, the macros, and GS_1BYTE_DRCS and GS_2BYTE_DRCS of other sets.
Sets == {"1byte", "2byte", "drcs", "macro", "unsupported"}

\* InitializeArib8: the sets of Japanese; Latin has one-byte sets throughout.
InitializeArib8(t) ==
  [t EXCEPT !.g = IF t.latin THEN <<"1byte", "1byte", "1byte", "1byte">>
                  ELSE <<"2byte", "1byte", "1byte", "macro">>,
            !.gl = 1, !.gr = 3]

Repeated(x, n) == [i \in 1 .. n |-> x]

Written(t, what) == [t EXCEPT !.out = @ \o what]

\* Fault: the position is that of the last code written, not of the next.
CheckedBehind(t, readable) ==
  IF (Len(t.pos) % 2 = 1) = readable THEN [t EXCEPT !.pos = Append(@, Len(t.out) - 1)] ELSE t

\* CheckReadableTextPosList: an odd number of positions means that the text so far ends
\* unreadable.
CheckReadable(t, readable) ==
  IF (Len(t.pos) % 2 = 1) = readable THEN [t EXCEPT !.pos = Append(@, Len(t.out))] ELSE t

Readable(t, n) == Written(CheckReadable(t, TRUE), Repeated("read", n))
Control(t, n)  == Written(CheckReadable(t, FALSE), Repeated("control", n))

\* The graphic set of a character: that of a single shift, else of the half it is in.
SetOf(t, half) ==
  IF t.shift # 0 THEN t.g[t.shift]
  ELSE IF half = "GL" THEN t.g[t.gl] ELSE t.g[t.gr]

\* The default macros designate all sets, the macros to G3, and invoke G0 and G2.
Macro(t, sets) == [t EXCEPT !.g = <<sets[1], sets[2], sets[3], "macro">>, !.gl = 1, !.gr = 3]

\* A character of a set; a Latin % is escaped, a macro is run.
Character(t, set, token) ==
  CASE set = "1byte"                          -> Readable(t, token.codes)
    [] set \in {"2byte", "drcs"}              -> Readable(t, 1)
    [] set = "macro" /\ token.macro # << >>   -> Macro(t, token.macro)
    [] OTHER                                  -> Written(t, <<"either">>)

\* One turn of the loop.
Analize(t, token) ==
  LET u == [t EXCEPT !.shift = 0]   \* gss = nullptr
  IN  CASE token.op = "LS"        -> [u EXCEPT !.gl = token.to]
        [] token.op = "LSR"       -> [u EXCEPT !.gr = token.to]
        [] token.op = "SS"        -> [u EXCEPT !.shift = token.to]
        [] token.op = "designate" -> [u EXCEPT !.g[token.to] = token.set]
        [] token.op = "space"     -> Readable(u, 1)
        [] token.op = "control"   -> Control(u, token.codes)
        [] token.op = "reset"     -> InitializeArib8(Control(u, token.codes))
        [] token.op = "ignored"   -> u
        [] token.op = "char"      -> Character(u, SetOf(t, token.half), token)

\* AddArib8AsUtf8, for a statement body behind what is written already.
AddArib8AsUtf8(t, tokens) ==
  CheckReadable(FoldLeft(Analize, [InitializeArib8(t) EXCEPT !.shift = 0], tokens), FALSE)

\* The header and the braces around the units have no readable code.
Framing(t) == Written(t, <<"control">>)

\* A data group: the list begins with the position behind its number.
Group(latin, bodies) ==
  FoldLeft(LAMBDA t, tokens : Framing(AddArib8AsUtf8(Framing(t), tokens)),
           CheckReadable([latin |-> latin, g |-> << >>, gl |-> 1, gr |-> 3, shift |-> 0,
                          out |-> <<"control">>, pos |-> << >>], FALSE),
           bodies)

-----------------------------------------------------------------------------
\* A control code or a character is rewritten as one code at least.
TokenSet ==
  [op : {"LS", "LSR", "SS"}, to : 1 .. 4] \cup [op : {"designate"}, to : 1 .. 4, set : Sets]
    \cup [op : {"space", "ignored"}] \cup [op : {"control", "reset"}, codes : Nat \ {0}]
    \cup [op : {"char"}, half : {"GL", "GR"}, codes : Nat \ {0},
           macro : {<< >>} \cup [1 .. 3 -> Sets]]

CONSTANTS Tokens,     \* the tokens that a text may consist of
          MaxTokens,  \* bound: the length of a text
          MaxBodies   \* bound: the statement bodies of a group

ASSUME TextAssumption ==
  Tokens \subseteq TokenSet /\ MaxTokens \in Nat /\ MaxBodies \in Nat

Texts == UNION {[1 .. n -> BoundedSeq(Tokens, MaxTokens \div n)] : n \in 1 .. MaxBodies}

\* Behind the first position, where the group begins, a code is readable iff the number of
\* positions up to it is even.  They come in order, and every readable part of a statement
\* body ends with it.
Told(t) ==
  /\ Len(t.pos) % 2 = 1
  /\ \A i \in 1 .. Len(t.pos) - 1 : t.pos[i] < t.pos[i + 1]
  /\ \A i \in t.pos[1] + 1 .. Len(t.out) :
       t.out[i] # "either" =>
         (t.out[i] = "read") = (Cardinality({k \in DOMAIN t.pos : t.pos[k] < i}) % 2 = 0)
=============================================================================
