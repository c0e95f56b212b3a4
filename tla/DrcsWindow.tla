----------------------------- MODULE DrcsWindow -----------------------------
(***************************************************************************)
(* What the mapping of DRCS codes promises: of the codes defined since the *)
(* stream began, the last RingSize new ones have a code point each.  A     *)
(* code that is still mapped keeps its place when it is defined again.     *)
(***************************************************************************)
EXTENDS Naturals, Sequences

CONSTANTS Codes,     \* the codes a stream may define
          RingSize   \* the code points there are: 1024, U+EC00 to U+EFFF

VARIABLE window   \* the codes mapped, the newest last

\* One more code is defined: a new one takes the place of the oldest.
Pushed(w, c) ==
  IF \E i \in DOMAIN w : w[i] = c THEN w
  ELSE IF Len(w) < RingSize THEN Append(w, c)
  ELSE Append(Tail(w), c)

Define == \E c \in Codes : window' = Pushed(window, c)

\* Another stream begins.
Forget == window' = << >>

WSpec == window = << >> /\ [][Define \/ Forget]_window
=============================================================================
