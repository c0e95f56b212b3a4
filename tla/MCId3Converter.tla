--------------------------- MODULE MCId3Converter ---------------------------
(***************************************************************************)
(* Id3Converter on small instances.  PIDs: 1 video with the PCR, 3 and 4   *)
(* captions, 8 and 9 the PMT.                                              *)
(***************************************************************************)
EXTENDS Id3Converter

Ref(program, pid) == [program |-> program, pid |-> pid]

Stream(tag, pid) == [tag |-> tag, pid |-> pid]

Section(es) == [parts |-> 1, pcrPid |-> 1, fits |-> TRUE, es |-> es]

EitherWay == {[unknown |-> TRUE, monotonous |-> TRUE], [unknown |-> FALSE, monotonous |-> FALSE]}
OnlyTagged   == {[unknown |-> FALSE, monotonous |-> FALSE]}

SmallPats == {<<Ref(0, 6), Ref(1, 8)>>, <<Ref(2, 9)>>, <<Ref(0, 6)>>}

\* Captions move between the PIDs and the roles, are withdrawn, and a stream that stays
\* takes over their PID; one section does not fit, and one is without PCR.
SmallSections ==
  (8 :> {Section(<<Stream("other", 1), Stream("caption", 4)>>),
         Section(<<Stream("other", 1), Stream("captionC", 4), Stream("caption", 3)>>),
         [Section(<< >>) EXCEPT !.pcrPid = NullPid, !.fits = FALSE]}
   @@ 9 :> {Section(<<Stream("other", 1), Stream("unknown", 4), Stream("caption", 3)>>),
            Section(<<Stream("other", 4), Stream("superimpose", 3)>>)})

\* Two programs with captions; the first one leaves the PAT.
TwoPats == {<<Ref(1, 8), Ref(2, 9)>>, <<Ref(2, 9)>>}

TwoSections ==
  (8 :> {Section(<<Stream("other", 1), Stream("caption", 4)>>)}
   @@ 9 :> {Section(<<Stream("other", 1), Stream("caption", 3)>>)})

\* How far a packet held is behind the last one of the source: the counters received and
\* the numbers of the PES only matter against each other.
Behind(p) ==
  LET last == source[4].last
  IN  [p EXCEPT !.counter = (last.counter - @) % CounterMod, !.pes = (last.pes - @) % PesMod]

Held(held) ==
  IF held.unit = << >> THEN << >>
  ELSE <<(source[4].last.counter - held.counter) % CounterMod, [i \in DOMAIN held.unit |-> Behind(held.unit[i])]>>

\* The counters given out decide nothing, and the packets sent are gone with the step.
Id3View ==
  <<[conv EXCEPT !.id3Counter = 0, !.pmtCounter = 0, !.packets = << >>,
                 !.pes = [r \in Roles |-> Held(conv.pes[r])]],
    source[4].last.start, source[4].last.index, source[4].lost, pmt, shown, intact>>
=============================================================================
