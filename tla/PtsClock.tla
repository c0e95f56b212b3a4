------------------------------ MODULE PtsClock ------------------------------
(***************************************************************************)
(* Arithmetic on PCR and PTS, which count modulo 2^33, and the two         *)
(* decisions CServiceFilter bases on it: how many frames of silence bring  *)
(* an inserted audio stream up to date, and when a caption stream has been *)
(* silent for so long that a management packet has to be inserted.         *)
(***************************************************************************)
EXTENDS Pts

CONSTANTS Frame,     \* length of one inserted PES: 90000 * 64 / 1000
          Accept,    \* ACCEPTABLE_PTS_DIFF_SEC: 90000 * 10
          Absence,   \* INSERT_MANAGEMENT_DETERMINE_ABSENCE_SEC: 90000 * 15
          Interval   \* INSERT_MANAGEMENT_INTERVAL_SEC: 90000 * 10

ASSUME ClockAssumption ==
  /\ {Frame, Accept, Absence, Interval} \subseteq Nat \ {0}
  /\ Frame <= Accept
  /\ 2 * Accept + Frame < PtsMod
  /\ Interval < Absence
  /\ 2 * Absence < PtsMod

-----------------------------------------------------------------------------
(* CServiceFilter::AddAudioPesPackets for silence.                         *)

\* Fault: a target further away than the acceptable difference is chased as well.
ResumeAlways(pts, target) == IF pts = NoTime THEN target ELSE pts

\* Where the insertion goes on: where it stopped, unless it has not begun or the
\* target is more than the acceptable difference away, either way round.
Resume(pts, target) ==
  IF pts = NoTime \/ (Accept < Past(target, pts) /\ Past(target, pts) < PtsMod - Accept)
  THEN target
  ELSE pts

\* Fault: the frame only has to begin before the target.
FitsBegun(pts, target) == Past(target, pts) <= Accept

\* One more frame at pts ends at or before the target.
Fits(pts, target) == Past(target, Later(pts, Frame)) <= Accept

\* The frames that fit one after the other, which the loop emits.
Frames(pts, target) ==
  CHOOSE n \in 0 .. PtsMod :
    /\ ~Fits(Later(pts, n * Frame), target)
    /\ \A k \in 0 .. n - 1 : Fits(Later(pts, k * Frame), target)

-----------------------------------------------------------------------------
(* The management packets of captions.                                     *)

\* Nothing was seen on the stream for so long that it counts as absent.
Absent(pcr, since) == Past(pcr, since) > Absence

\* Fault: the clock is trusted however far it jumped.
PlausibleAlways(pcr, since) == TRUE

\* The clock moved on normally and did not jump.
Plausible(pcr, since) == Past(pcr, since) < 2 * Absence

\* Fault: the insertion counts like captions, so the next comes too late.
NextDueFull(pcr) == pcr

\* From an insertion on, the next one is due when the interval has passed.
NextDue(pcr) == Past(pcr, Interval)
=============================================================================
