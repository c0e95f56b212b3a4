------------------------- MODULE CaptionManagement -------------------------
(***************************************************************************)
(* When CServiceFilter inserts management packets into streams of captions *)
(* (Readme.txt: +4 of -c and -u).  The behaviour is that of ServiceFilter; *)
(* history variables record for how long a stream has sent nothing.        *)
(*                                                                         *)
(* Steps of the clock are either shorter than Absence, or jumps of at      *)
(* least 2 * Absence.                                                      *)
(***************************************************************************)
EXTENDS ServiceFilter, FiniteSetsExt

ASSUME StepAssumption ==
  \A d \in Steps : d > 0 /\ (d < Absence \/ (d >= 2 * Absence /\ d + 2 * Absence < PtsMod))

VARIABLES
  quiet,   \* for each stream: time since its last packet went out, without jumps
  after    \* what it has been quiet since: "text", "management" or "jump"

hvars == <<filter, clock, source, quiet, after>>

Kinds(x) == {filter'.packets[i].kind : i \in {j \in DOMAIN filter'.packets :
                                                filter'.packets[j].pid = x}}

Ticked == clock' # clock
Jumped == Past(clock', clock) >= 2 * Absence

\* For how long the stream has been quiet at the PCR that comes.
Silence(x) == quiet[x] + Past(clock', clock)

\* The stream is one that packets are inserted into.
Watched(x) == /\ filter.since[x] # NoTime /\ filter.opt.insert[x]
              /\ Pid(filter, x) # 0 \/ filter.opt.mode[x] = 1

\* What makes a stream start anew: captions of its own or a PCR while it is not watched,
\* a management packet, a jump of the clock.
Event(x) ==
  IF "text" \in Kinds(x) \/ (Ticked /\ ~Watched(x)) THEN "text"
  ELSE IF "management" \in Kinds(x) THEN "management"
  ELSE IF Ticked /\ Jumped THEN "jump"
  ELSE "none"

HInit == /\ Init
         /\ quiet = [x \in TextSlots |-> 0]
         /\ after = [x \in TextSlots |-> "text"]

\* Bound: a silence of more than 2 * Absence counts as one of 2 * Absence.
HNext ==
  /\ Next
  /\ quiet' = [x \in TextSlots |-> IF Event(x) # "none" THEN 0
                                   ELSE Min({Silence(x), 2 * Absence})]
  /\ after' = [x \in TextSlots |-> IF Event(x) # "none" THEN Event(x) ELSE after[x]]

HSpec == HInit /\ [][HNext]_hvars

-----------------------------------------------------------------------------
\* The silence that makes the next packet due (15 s of no captions, then 5 s).
Limit(x) == IF after[x] = "text" THEN Absence ELSE Absence - Interval

\* No management packet comes before the silence has reached its limit, none when the
\* clock jumped, and none at all but at a PCR while the stream is watched.
ManagementSpacing ==
  [][\A x \in TextSlots : "management" \in Kinds(x) =>
       Ticked /\ ~Jumped /\ Watched(x) /\ Silence(x) > Limit(x)]_hvars

\* Where captions do not show up, a management packet comes with the first PCR past the
\* limit: captions that were quiet for longer never stay without one.
ManagementDue ==
  [][\A x \in TextSlots :
       (Ticked /\ ~Jumped /\ Watched(x) /\ Silence(x) > Limit(x)) => "management" \in Kinds(x)]_hvars

\* The counter of the packet before the i-th one
CounterBefore(f, out, x, i) ==
  LET j == Previous(On(out, x), i) IN IF j = 0 THEN f.counter[x] % CounterMod ELSE out[j].counter

\* A packet of captions that has kept its counter, as long as nothing was inserted
KeptCounter(f, out, x, i) ==
  /\ Previous(On(out, x), i) = 0 /\ f.counter[x] >= CounterMod
  /\ out[i].kind = "text" /\ out[i].counter = out[i].unit[1].counter

TextCounted(f, g, x) ==
  /\ \A i \in On(g.packets, x) :
       \/ g.packets[i].counter = Successor(CounterBefore(f, g.packets, x, i))
       \/ KeptCounter(f, g.packets, x, i)
  /\ g.counter[x] % CounterMod = CounterBefore(f, g.packets, x, Len(g.packets) + 1)

\* On a stream that packets have been inserted into, the counters go on without gap
\* through received and inserted packets alike; before that, a gap is one of the source.
TextContiguous == [][\A x \in TextSlots : TextCounted(filter, filter', x)]_hvars
=============================================================================
