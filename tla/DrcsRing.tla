------------------------------ MODULE DrcsRing ------------------------------
(***************************************************************************)
(* The list that CTraceB24Caption keeps of the DRCS codes of a stream.     *)
(* Element 0 of the vector is the index mapped last, the others the codes; *)
(* the code with index i is written as the character U+EC00 + i - 1.       *)
(***************************************************************************)
EXTENDS Naturals, Sequences

CONSTANT RingSize   \* 1024

ASSUME RingAssumption == RingSize \in Nat \ {0}

EmptyRing == [last |-> 0, codes |-> << >>]

\* The first index that has the code, 0 if there is none.
Index(ring, c) ==
  IF \E i \in DOMAIN ring.codes : ring.codes[i] = c
  THEN CHOOSE i \in DOMAIN ring.codes :
         ring.codes[i] = c /\ \A k \in 1 .. i - 1 : ring.codes[k] # c
  ELSE 0

\* The index the next new code takes: the one after the last, 1 after the highest.
NextIndex(ring) == IF ring.last >= RingSize THEN 1 ELSE ring.last + 1

\* Fault: a code defined again becomes the newest where it is.
MappedMovingLast(ring, c) ==
  IF Index(ring, c) # 0 THEN [ring EXCEPT !.last = Index(ring, c)]
  ELSE [last  |-> NextIndex(ring),
        codes |-> IF NextIndex(ring) > Len(ring.codes)
                  THEN Append(ring.codes, c)
                  ELSE [ring.codes EXCEPT ![NextIndex(ring)] = c]]

\* A code is defined: it keeps its index or takes the next one.
Mapped(ring, c) ==
  IF Index(ring, c) # 0 THEN ring
  ELSE [last  |-> NextIndex(ring),
        codes |-> IF NextIndex(ring) > Len(ring.codes)
                  THEN Append(ring.codes, c)
                  ELSE [ring.codes EXCEPT ![NextIndex(ring)] = c]]

\* The codes from the oldest to the newest: a full ring goes on after the last index.
Unrolled(ring) ==
  LET n == Len(ring.codes)
  IN  [i \in 1 .. n |-> ring.codes[IF ring.last + i > n THEN ring.last + i - n ELSE ring.last + i]]

\* No code has two indices, and the last index is that of the newest code.
RingOK(ring) ==
  /\ Len(ring.codes) <= RingSize
  /\ ring.last \in DOMAIN ring.codes \/ ring = EmptyRing
  /\ Len(ring.codes) < RingSize => ring.last = Len(ring.codes)
  /\ \A i, k \in DOMAIN ring.codes : ring.codes[i] = ring.codes[k] => i = k
=============================================================================
