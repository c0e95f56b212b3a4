----------------------------- MODULE AacStream -----------------------------
(***************************************************************************)
(* TransmuxDualMono and TransmuxMonoToStereo: the ADTS frames in the PES   *)
(* of an audio stream are converted one by one.  Frames need not end where *)
(* PES end: what is left of a PES is carried to the next in a workspace,   *)
(* and after a lost PES the two do not belong together.                    *)
(*                                                                         *)
(* A byte is a cell: the frame it was sent in, its place there, and        *)
(* whether the byte sent before it was lost.  Of a header, HeaderLen bytes *)
(* long, the first is 0xff and the second stands for all the fields; a     *)
(* frame may hold one further 0xff, which may look like such a header.     *)
(***************************************************************************)
EXTENDS Naturals, SequencesExt

CONSTANTS Frames,     \* the frames the source may send
          Streams,    \* what it may send: the cells of frames one behind the other
          HeaderLen,  \* 7
          MaxPes      \* bound: bytes of a PES

\* What becomes of a whole frame; "unsupported" shows in its header already.
Verdicts == {"converted", "refused", "unsupported"}

\* fake is the place of the further 0xff, or 0; fakeLen the length of the frame it seems
\* to begin, or 0 when no second byte of a header follows.
ASSUME StreamAssumption ==
  /\ HeaderLen \in Nat /\ HeaderLen >= 2 /\ MaxPes \in Nat \ {0}
  /\ Frames \subseteq [len : Nat, verdict : Verdicts, fake : Nat, fakeLen : Nat]
  /\ \A f \in Frames : HeaderLen <= f.len /\ (f.fake = 0 \/ f.fake \in 3 .. f.len)

\* d comes behind c.
Follows(c, d) == IF c.at = c.of.len THEN d.at = 1 ELSE d.of = c.of /\ d.at = c.at + 1

\* Of the cells of a source no byte is lost before another.
ASSUME StreamsAssumption ==
  \A s \in Streams :
    /\ s \in Seq([of : Frames, at : Nat, gap : {FALSE}]) /\ s # << >>
    /\ s[1].at = 1 /\ \A i \in DOMAIN s : s[i].at \in 1 .. s[i].of.len
    /\ \A i \in 1 .. Len(s) - 1 : Follows(s[i], s[i + 1])

VARIABLES
  workspace,   \* m_audio1MuxDualMonoWorkspace, ..., without the EXTRA_WORKSPACE_BYTES
  synced,      \* its first byte was set to 0: a frame begins there
  phase,       \* "idle" between PES; "frames" in the loop over the frames of one
  dest,        \* the stretches of the workspace that were converted
  result,      \* what became of the last PES: "converted", or "passed" on as it came
  begun,       \* the source: the cells of the frame begun that it has sent
  gap,         \* the last PES was lost
  sent,        \* history: the cells from the frame begun before the PES in hand to its end
  wasInStep    \* history: workspace and source agreed before the PES in hand

vars == <<workspace, synced, phase, dest, result, begun, gap, sent, wasInStep>>

Cells(f) == [i \in 1 .. f.len |-> [of |-> f, at |-> i, gap |-> FALSE]]

\* 0xff
Sync(c) == c.at = 1 \/ c.at = c.of.fake

\* The upper half is 0xf.
Second(c) == c.at = 2 \/ Sync(c) \/ (c.of.fakeLen # 0 /\ c.at = c.of.fake + 1)

\* aac_frame_length, of the header with this second byte
FrameLen(c) == IF c.at = 2 THEN c.of.len ELSE c.of.fakeLen

\* These are the first bytes of one frame, with nothing lost between them.
Genuine(s) ==
  \A i \in DOMAIN s : s[i].at = i /\ s[i].of = s[1].of /\ ~s[i].gap

\* Workspace and source agree on where the frames begin.
InStep == workspace = begun /\ Genuine(begun)

-----------------------------------------------------------------------------
(* Where a frame begins, and what is carried over.                         *)

\* Fault: the second byte is not looked at.
BeginsAtAnySync(w, i) == Sync(w[i])

\* A header seems to begin at i, as far as it can be seen.
Begins(w, i) == Sync(w[i]) /\ (i = Len(w) \/ Second(w[i + 1]))

Resynced(w) ==
  LET starts == {i \in DOMAIN w : Begins(w, i)}
  IN  IF starts = {} THEN << >>
      ELSE SubSeq(w, CHOOSE i \in starts : \A k \in starts : i <= k, Len(w))

\* Fault: unless a frame is known to begin in it, what is carried over is dropped.
SyncDropping(payload) == IF synced THEN workspace \o payload ELSE Resynced(payload)

\* SyncPayload: the workspace from where a frame begins, with the payload behind it.
SyncPayload(payload) ==
  IF synced THEN workspace \o payload ELSE Resynced(workspace \o payload)

\* There is no frame at the front: a byte of its header is not what it has to be.
NoFrame(w) ==
  \/ w # << >> /\ ~Sync(w[1])
  \/ Len(w) >= HeaderLen /\ (~Second(w[2]) \/ FrameLen(w[2]) < HeaderLen)

\* The frame at the front is all there.
Whole(w) == Len(w) >= HeaderLen /\ ~NoFrame(w) /\ FrameLen(w[2]) <= Len(w)

FirstFrame(w) == SubSeq(w, 1, FrameLen(w[2]))
Behind(w) == SubSeq(w, FrameLen(w[2]) + 1, Len(w))

\* Fault: only one frame is stepped over.
CarriedOnce(w) ==
  LET v == IF Whole(w) THEN Behind(w) ELSE w IN IF NoFrame(v) THEN << >> ELSE v

Skipped(v) == IF Whole(v) THEN Behind(v) ELSE v

\* SkipPayload: what is left behind the whole frames that follow each other; nothing
\* when they do not.
Carried(w) ==
  LET after[n \in 0 .. Len(w)] ==   \* at most n whole frames
        IF n = 0 THEN w ELSE Skipped(after[n - 1])
      v == after[Len(w) \div HeaderLen]
  IN  IF NoFrame(v) THEN << >> ELSE v

-----------------------------------------------------------------------------
(* The source cuts its streams into PES anywhere, and some PES are lost:   *)
(* the workspace is not told.                                              *)

Marked(cells, which) == [i \in DOMAIN cells |-> [cells[i] EXCEPT !.gap = i \in which]]

\* The cells of the frame begun at the end of these.
Unfinished(cells) ==
  LET c == Last(cells)
  IN  IF c.at = c.of.len THEN << >> ELSE SubSeq(cells, Len(cells) - c.at + 1, Len(cells))

\* Where the next PES may end in a stream: it begins the last frame at least.
PesEnds(stream) ==
  {m \in Len(begun) + 1 .. Len(begun) + MaxPes :
     m <= Len(stream) /\ Len(stream) - m < Last(stream).of.len}

\* The source goes on with these.
Upcoming == {stream \in Streams : begun # << >> => stream[1].of = begun[1].of}

\* A PES comes, with the cells of a stream behind those sent and up to m.
Receive(stream, m) ==
  /\ phase = "idle"
  /\ LET cells   == SubSeq(stream, Len(begun) + 1, m)
         payload == Marked(cells, IF gap /\ cells[1].at # 1 THEN {1} ELSE {})
         w       == SyncPayload(payload)
     IN  /\ sent' = begun \o payload
         /\ begun' = Unfinished(begun \o payload)
         /\ workspace' = w
         /\ phase' = IF ~synced /\ Len(w) < 2 THEN "idle" ELSE "frames"
  /\ result' = "passed"
  /\ synced' = FALSE /\ dest' = << >> /\ gap' = FALSE /\ wasInStep' = InStep

\* A PES is lost: its packets are not given to the transmuxer.  Bound: not while the
\* workspace holds bytes from both sides of an earlier loss.
Lose(stream, m) ==
  /\ phase = "idle" /\ \A i \in DOMAIN workspace : ~workspace[i].gap
  /\ LET cells == SubSeq(stream, Len(begun) + 1, m)
     IN  begun' = Unfinished(begun \o Marked(cells, DOMAIN cells))
  /\ gap' = TRUE /\ sent' = << >> /\ wasInStep' = FALSE
  /\ UNCHANGED <<workspace, synced, phase, dest, result>>

-----------------------------------------------------------------------------
(* The loop over the frames.  Bytes that are not one frame as it was sent  *)
(* may be taken for one, or not.                                           *)

Return(carried, returned) ==
  /\ phase' = "idle"
  /\ workspace' = carried
  /\ synced' = (carried # << >>)
  /\ result' = IF returned /\ dest # << >> THEN "converted" ELSE "passed"
  /\ UNCHANGED <<dest, begun, gap, sent, wasInStep>>

\* The workspace has to be resynchronised.
LoseSync == phase = "frames" /\ NoFrame(workspace) /\ Return(<< >>, FALSE)

\* The frame at the front has an unsupported sampling frequency or channel configuration;
\* that it is all there is not asked for.
RefuseHeader ==
  /\ phase = "frames" /\ Len(workspace) >= HeaderLen
  /\ Sync(workspace[1]) /\ Second(workspace[2])
  /\ Genuine(SubSeq(workspace, 1, HeaderLen)) => workspace[1].of.verdict = "unsupported"
  /\ Return(Carried(workspace), FALSE)

\* The frames that are all there are done.
Finish ==
  /\ phase = "frames" /\ ~NoFrame(workspace) /\ ~Whole(workspace)
  /\ (Len(workspace) >= HeaderLen /\ Genuine(SubSeq(workspace, 1, HeaderLen)))
        => workspace[1].of.verdict # "unsupported"
  /\ Return(Carried(workspace), TRUE)

\* RawDataBlock does not parse it, or it does not hold the single channel elements wanted.
Refuse ==
  /\ phase = "frames" /\ Whole(workspace)
  /\ Genuine(FirstFrame(workspace)) => workspace[1].of.verdict = "refused"
  /\ Return(Carried(workspace), FALSE)

Convert ==
  /\ phase = "frames" /\ Whole(workspace)
  /\ Genuine(FirstFrame(workspace)) => workspace[1].of.verdict = "converted"
  /\ dest' = Append(dest, FirstFrame(workspace))
  /\ workspace' = Behind(workspace)
  /\ UNCHANGED <<synced, phase, result, begun, gap, sent, wasInStep>>

-----------------------------------------------------------------------------
Init ==
  /\ workspace = << >> /\ synced = FALSE /\ phase = "idle" /\ dest = << >> /\ result = "passed"
  /\ begun = << >> /\ gap = FALSE /\ sent = << >> /\ wasInStep = TRUE

Comes == \E stream \in Upcoming : \E m \in PesEnds(stream) : Receive(stream, m)
Lost  == \E stream \in Upcoming : \E m \in PesEnds(stream) : Lose(stream, m)

Parse == LoseSync \/ RefuseHeader \/ Finish \/ Refuse \/ Convert

Next == Comes \/ Lost \/ Parse

\* The loop goes on until it returns.
Spec == Init /\ [][Next]_vars /\ WF_vars(Parse)

-----------------------------------------------------------------------------
IsCell(c) == c.of \in Frames /\ c.at \in 1 .. c.of.len /\ c.gap \in BOOLEAN

\* Between PES the workspace is empty, or begins with 0xff (asserted at the end of SyncPayload
\* and of SkipPayload) and holds no whole frame; more than that one byte is carried over only
\* when it is known to begin a frame.
TypeOK ==
  /\ \A s \in {workspace, begun, sent} : \A i \in DOMAIN s : IsCell(s[i])
  /\ synced \in BOOLEAN /\ gap \in BOOLEAN /\ wasInStep \in BOOLEAN
  /\ phase \in {"idle", "frames"} /\ result \in {"converted", "passed"}
  /\ \A k \in DOMAIN dest : \A i \in DOMAIN dest[k] : IsCell(dest[k][i])
  /\ phase = "idle" /\ workspace # << >> =>
       Sync(workspace[1]) /\ ~Whole(workspace) /\ (synced \/ Len(workspace) = 1)

\* The header of the frame begun shows that it is not supported.
RefusedAhead ==
  /\ Len(begun) >= HeaderLen
  /\ begun[1].of.verdict = "unsupported"

\* Where frames end.
Ends(cells) == {i \in DOMAIN cells : cells[i].at = cells[i].of.len}

\* These are the frames that end in the cells, each whole, once and in their order.
FramesOf(frames, cells) ==
  /\ Len(frames) = Cardinality(Ends(cells))
  /\ \A i \in Ends(cells) :
       frames[Cardinality({k \in Ends(cells) : k <= i})] = Cells(cells[i].of)

\* While no PES is lost, workspace and source stay in step wherever the frames are cut, and
\* a PES is converted exactly when it completes frames that all can be converted: then into
\* these frames (TransmuxDualMono, TransmuxMonoToStereo).
StaysInStep ==
  phase = "idle" /\ wasInStep =>
    /\ InStep
    /\ IF Ends(sent) # {} /\ (\A i \in Ends(sent) : sent[i].of.verdict = "converted") /\ ~RefusedAhead
       THEN result = "converted" /\ FramesOf(dest, sent)
       ELSE result = "passed"

\* When PES keep coming and no more are lost, workspace and source agree again some time,
\* although what was carried over before the loss is put before bytes it does not belong to
\* (SyncPayload, SkipPayload); if nothing in the frames leads from one false header to another.
BackInStep ==
  []<>(phase = "frames") /\ <>[](~gap) => <>[](phase = "idle" => InStep)
=============================================================================
