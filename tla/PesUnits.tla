------------------------------ MODULE PesUnits ------------------------------
(***************************************************************************)
(* CServiceFilter::AccumulatePesPackets: the packets of an audio stream    *)
(* are held back until a whole PES is there, and dropped when it cannot    *)
(* become whole.                                                           *)
(*                                                                         *)
(* A packet is a record [start, counter, payload, pes, index, of, ...]:    *)
(* payload_unit_start_indicator, continuity_counter, whether it has        *)
(* payload, and, for the properties, the PES it was cut from, its place in *)
(* it and the packets its length field asks for.                           *)
(***************************************************************************)
EXTENDS Naturals, Sequences, FiniteSets

CONSTANTS CounterMod,   \* continuity counters count modulo this (16)
          UnitLimit     \* packets after which nothing more is held back (0x20000 bytes)

ASSUME UnitAssumption == /\ CounterMod \in Nat /\ CounterMod >= 2
                         /\ UnitLimit \in Nat \ {0}

Successor(c) == (c + 1) % CounterMod

\* Fault: what is held back has no limit.
HeldUnlimited(unit, p) ==
  IF p.start THEN <<p>> ELSE IF unit # << >> THEN Append(unit, p) ELSE unit

\* The packets held back once packet p has come.
Held(unit, p) ==
  IF p.start THEN <<p>>
  ELSE IF unit # << >> /\ Len(unit) < UnitLimit THEN Append(unit, p) ELSE unit

\* Every packet has the counter after that of the packet before it.
Unbroken(unit) ==
  \A i \in 1 .. Len(unit) - 1 : unit[i + 1].counter = Successor(unit[i].counter)

\* The payload reaches the length that the PES header at the front gives.
Whole(unit) ==
  /\ unit # << >>
  /\ Cardinality({i \in DOMAIN unit : unit[i].payload}) >= unit[1].of

\* What stays held back after p: a broken unit is dropped.
Accumulated(unit, p) ==
  LET held == Held(unit, p) IN IF Unbroken(held) THEN held ELSE << >>
=============================================================================
