-------------------------- MODULE MCServiceFilter --------------------------
(***************************************************************************)
(* ServiceFilter on small instances: command lines, tables and streams for *)
(* the runs.  PIDs: 1 video, 2 and 3 audio, 4 captions, 5 PCR alone, 6 the *)
(* NIT, 7 service information, 8 the PMT.                                  *)
(***************************************************************************)
EXTENDS ServiceFilter

Ref(program, pid) == [program |-> program, pid |-> pid]

Stream(type, tag, pid) == [type |-> type, tag |-> tag, pid |-> pid]

Section(parts, pcrPid, es) ==
  [program |-> 1, parts |-> parts, pcrPid |-> pcrPid, fits |-> TRUE, es |-> es]

\* Modes of audio1, audio2, caption, superimpose.
Option(program, a1, a2, c, s) ==
  [program  |-> program,
   mode     |-> [audio1 |-> a1, audio2 |-> a2, caption |-> c, superimpose |-> s],
   stereo   |-> [audio1 |-> FALSE, audio2 |-> FALSE], dualMono |-> FALSE,
   insert   |-> [caption |-> FALSE, superimpose |-> FALSE]]

Converting(opt, stereo1, stereo2, dualMono) ==
  [opt EXCEPT !.stereo = [audio1 |-> stereo1, audio2 |-> stereo2], !.dualMono = dualMono]

\* Nothing depends on a time but by how far it is from another.
Ago(t) == IF t = NoTime THEN NoTime ELSE Past(clock, t)

Video   == Stream("video", "none", 1)
First   == Stream("adts", "none", 2)
Caption == Stream("private", "caption", 4)

OnePat == {<<Ref(0, 6), Ref(1, 8)>>}

-----------------------------------------------------------------------------
(* Tables: programs come and go, streams change, a section does not fit.   *)

TablesOptions == {Converting(Option(1, 0, mode, 0, 2), FALSE, FALSE, TRUE) : mode \in {0, 1}}
                   \cup {Converting(Option(-2, 1, 3, 1, 2), FALSE, TRUE, FALSE),
                         Option(-2, 1, 1, 1, 2)}

TablesPats == {<<Ref(0, 6), Ref(2, 8), Ref(1, 8)>>, <<Ref(2, 8)>>}

TablesSections ==
  {Section(1, 2, <<Video, First>>),
   Section(2, 5, <<Video, Stream("mpeg2", "none", 2), Stream("mpeg2", "none", 3), Caption>>),
   [Section(1, 3, << >>) EXCEPT !.fits = FALSE]}

\* What decides on the tables: not the counters given out nor, without management packets,
\* the time of the last caption; of a version only whether it changes, and of the packets
\* sent their PIDs.
PidsOf(q) == <<q.pid, q.kind, IF "unit" \in DOMAIN q THEN q.unit[1].pid ELSE 0>>

TablesView ==
  <<filter.opt, filter.pat, filter.section, filter.es, filter.pcrPid, Ago(filter.pcr),
    filter.dualMono, filter.diff, [a \in AudioSlots |-> Ago(filter.pts[a])],
    [x \in DOMAIN filter.last |-> filter.last[x].content],
    {PidsOf(q) : q \in ToSet(filter.packets)}, Ago(source[2].last.pts)>>

-----------------------------------------------------------------------------
(* Audio: packets are lost, repeated and empty while the selection changes. *)

AudioOptions == {Converting(Option(1, 1, 3, 2, 2), FALSE, TRUE, FALSE),
                 Converting(Option(1, 0, 1, 2, 2), FALSE, FALSE, TRUE)}

AudioSections == {Section(1, 2, <<First>>),
                  Section(1, 2, <<Stream("adts", "audio2", 2)>>)}

\* A packet of audio, with how long ago its time is.
Dated(p) == <<p.start, p.counter, p.payload, p.pes, p.index, p.of, Ago(p.pts)>>

\* The tables sent, their counters and versions have no influence on audio.  Of the packets
\* sent the view keeps those that are made of packets of audio.
AudioView ==
  <<filter.opt, filter.pat, filter.es, filter.pcrPid, Ago(filter.pcr), filter.dualMono,
    [a \in AudioSlots |-> <<filter.counter[a], Ago(filter.pts[a]), filter.diff[a],
                            [i \in DOMAIN filter.unit[a] |-> Dated(filter.unit[a][i])]>>],
    {<<q.pid, q.kind, [i \in DOMAIN q.unit |-> Dated(q.unit[i])]>> :
       q \in {sent \in ToSet(filter.packets) : "unit" \in DOMAIN sent}},
    Dated(source[2].last), source[2].lost>>

-----------------------------------------------------------------------------
(* Silence: the first and the second audio come and go while the clock runs *)
(* and jumps.                                                              *)

SilenceOptions == {Option(1, 1, mode, 2, 2) : mode \in {1, 3}}

DualMonoOptions == {Converting(Option(1, 1, 1, 2, 2), FALSE, FALSE, TRUE)}

SilenceSections == {Section(1, 1, <<Video, First>>), Section(1, 1, <<Video>>)}

\* What decides about silence: neither the tables nor the counters do.
SilenceView ==
  <<clock, filter.opt, filter.pat, filter.es, filter.pcrPid, filter.pcr, filter.dualMono,
    filter.pts, filter.diff, [a \in AudioSlots |-> Len(filter.unit[a])],
    source[2].last.index, source[2].last.of, source[2].last.pts>>

-----------------------------------------------------------------------------
(* Management packets: captions that come now and then, or not at all.     *)

Inserting(opt) == [opt EXCEPT !.insert = [caption |-> TRUE, superimpose |-> TRUE]]

TextOptions == {Inserting(Option(1, 0, 0, 0, 2)), Inserting(Option(1, 0, 0, 1, 2)),
                Inserting(Option(1, 0, 0, 2, 1))}

TextSections == {Section(1, 1, <<Video, Caption>>), Section(1, 1, <<Video>>)}
=============================================================================
