----------------------------- MODULE TraceTexts -----------------------------
(***************************************************************************)
(* The caption trace with the texts it rewrites.  What a text is rewritten *)
(* as depends on nothing that the packets before it left behind but the    *)
(* DRCS codes, which TraceB24 is about: a group of texts is drawn at the   *)
(* start, and is gone with the first packet.                               *)
(***************************************************************************)
EXTENDS TraceB24, AribText

VARIABLE text

NoBodies == [latin |-> FALSE, bodies |-> << >>]

TextInit == Init /\ text \in {NoBodies} \cup [latin : BOOLEAN, bodies : Texts]

TextNext == Next /\ text' = NoBodies

TextSpec == TextInit /\ [][TextNext]_<<vars, text>>

\* The positions tell every readable code from every one that controls, for every text
\* (CheckReadableTextPosList): the list alone says which parts a reader may show.
PositionsTold == Told(Group(text.latin, text.bodies))
=============================================================================
