---------------------------- MODULE PsiSplicing ----------------------------
(***************************************************************************)
(* PsiSection with a history variable that says whether the continuity     *)
(* counters have told every loss so far: they cannot tell a burst of a     *)
(* whole round of the counter (16 packets), nor a loss before a packet     *)
(* without payload, which repeats the counter of the packet lost.          *)
(***************************************************************************)
EXTENDS PsiSection

VARIABLE telling   \* history: no such burst and no such packet has come

svars == <<vars, telling>>

\* The step brings neither a burst of a whole round nor a packet without payload.
Told == lost' < CounterMod /\ (pending' => pkt'.size > 0)

PSInit == Init /\ telling = TRUE

PSNext == Next /\ telling' = (telling /\ Told)

PSSpec == PSInit /\ [][PSNext]_svars /\ WF_vars(ExtractPsi)

\* As long as the counters tell every loss, the collecting buffer of extract_psi holds an
\* unbroken stretch of the stream: what is lost is never spliced over.
NoSplice == telling => NoMixing
=============================================================================
