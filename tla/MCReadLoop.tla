----------------------------- MODULE MCReadLoop -----------------------------
(***************************************************************************)
(* ReadLoop on small instances.                                            *)
(***************************************************************************)
EXTENDS ReadLoop

Input(mode, pipe, timed) == [mode |-> mode, pipe |-> pipe, timed |-> timed]

\* Every combination of source and options that the program takes.
EveryInput == {Input(0, FALSE, FALSE), Input(0, FALSE, TRUE), Input(0, TRUE, FALSE),
               Input(1, FALSE, FALSE), Input(1, FALSE, TRUE), Input(2, TRUE, TRUE)}

Preallocation == {Input(1, FALSE, TRUE)}
=============================================================================
