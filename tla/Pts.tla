--------------------------------- MODULE Pts ---------------------------------
(***************************************************************************)
(* PCR and PTS count modulo 2^33.                                          *)
(***************************************************************************)
EXTENDS Integers

CONSTANT PtsMod   \* 2^33

ASSUME PtsAssumption == PtsMod \in Nat \ {0}

Times  == 0 .. PtsMod - 1
NoTime == -1               \* the members are initialised to -1

Later(t, d) == (t + d) % PtsMod

\* How far t is past s: the code adds 2^33 before it subtracts and masks.
Past(t, s) == (PtsMod + t - s) % PtsMod
=============================================================================
