----------------------------- MODULE MCTraceB24 -----------------------------
(***************************************************************************)
(* TraceB24 on small instances.  PIDs: 1 video with the PCR, 3 and 4       *)
(* captions, 8 the PMT.                                                    *)
(***************************************************************************)
EXTENDS TraceTexts

Stream(tag, p) == [tag |-> tag, pid |-> p]

Section(es) == [long |-> TRUE, fits |-> TRUE, pcrPid |-> 1, es |-> es]

\* A stream changes its PID and its role; one PMT is without PCR and
\* too short for its descriptors.
SmallSections ==
  [p \in {8} |-> {Section(<<Stream("caption", 4), Stream("caption", 3)>>),
                  Section(<<Stream("superimpose", 3)>>),
                  [Section(<< >>) EXCEPT !.fits = FALSE, !.pcrPid = NullPid]}]

AlikeCodes == Permutations(Codes)

\* The control codes, and characters that stand for themselves or run a macro.
Char(half, codes, macro) == [op |-> "char", half |-> half, codes |-> codes, macro |-> macro]

SmallTokens ==
  {[op |-> "LS", to |-> 2], [op |-> "LSR", to |-> 4], [op |-> "SS", to |-> 3],
   [op |-> "SS", to |-> 4], [op |-> "space"], [op |-> "control", codes |-> 2],
   [op |-> "reset", codes |-> 3], [op |-> "ignored"],
   [op |-> "designate", to |-> 1, set |-> "drcs"],
   [op |-> "designate", to |-> 3, set |-> "unsupported"],
   Char("GL", 1, << >>), Char("GR", 3, << >>), Char("GR", 1, <<"2byte", "drcs", "1byte">>)}

\* The lines written are gone with the step.
TraceView == <<reception, memory, parse, history, text>>
=============================================================================
