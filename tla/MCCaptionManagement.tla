------------------------ MODULE MCCaptionManagement ------------------------
(***************************************************************************)
(* CaptionManagement on the instances of MCServiceFilter.                  *)
(***************************************************************************)
EXTENDS CaptionManagement, MCServiceFilter

\* What decides about management packets.
TextView ==
  <<clock, quiet, after, filter.opt, filter.pat, filter.es, filter.pcrPid, filter.pcr,
    filter.since, [x \in TextSlots |-> filter.counter[x]], source[4]>>
=============================================================================
