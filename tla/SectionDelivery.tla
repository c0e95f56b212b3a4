-------------------------- MODULE SectionDelivery --------------------------
(***************************************************************************)
(* What a reader of one PSI PID is promised, whatever the reception does   *)
(* to the packets: the tables handed to it are tables the broadcaster      *)
(* sent, sent completely, and they never go back to an older one.  Losing  *)
(* a table and handing the same one over again are both allowed.           *)
(***************************************************************************)
EXTENDS Naturals

CONSTANT MaxSections   \* bound on the sections sent

VARIABLES complete,    \* number of sections sent up to their last byte
          current      \* the section the reader works from, 0 before the first

sdVars == <<complete, current>>

SDInit == complete = 0 /\ current = 0

\* The last byte of one or more further sections leaves the broadcaster.
Finish == /\ complete' \in complete + 1 .. MaxSections
          /\ UNCHANGED current

\* The reader is handed a complete section, the current one or a later one.
Handover == /\ current' \in current .. complete
            /\ UNCHANGED complete

SDNext == Finish \/ Handover

SDSpec == SDInit /\ [][SDNext]_sdVars
=============================================================================
