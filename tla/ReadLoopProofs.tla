--------------------------- MODULE ReadLoopProofs ---------------------------
(***************************************************************************)
(* What the read loop passes on, for packets and blocks of every size,     *)
(* every source and every way in which the reads fall short.               *)
(***************************************************************************)
EXTENDS ReadLoop, IndexLemmas, SequenceTheorems, TLAPS

Cell == [pos : Nat, ok : BOOLEAN]

Loops == [mode : {0, 1, 2}, known : BOOLEAN, buf : Seq(Cell), filePos : Nat, offset : Nat,
          bufSize : BufSizes, connected : BOOLEAN, bufPos : Int, retry : BOOLEAN,
          completed : BOOLEAN, running : BOOLEAN, broken : BOOLEAN]

-----------------------------------------------------------------------------
(* Arithmetic.                                                             *)

LEMMA Constants ==
  /\ Unit \in Nat /\ Unit >= 2 /\ Total \in Nat /\ Spare \in Nat /\ Timeout \in Nat \ {0}
  /\ \A s \in BufSizes : s \in Nat /\ s >= 2 * Unit
BY ReadAssumption DEF ReadAssumption

LEMMA Division ==
  ASSUME NEW a \in Nat
  PROVE  /\ a \div Unit \in Nat /\ a % Unit \in 0 .. Unit - 1
         /\ a = (a \div Unit) * Unit + (a % Unit)
BY Constants

LEMMA DivisionUnique ==
  ASSUME NEW q \in Nat, NEW r \in 0 .. Unit - 1
  PROVE  (q * Unit + r) \div Unit = q /\ (q * Unit + r) % Unit = r
BY Constants

LEMMA MinIs ==
  ASSUME NEW S \in SUBSET Int, NEW m \in S, \A x \in S : m <= x
  PROVE  Min(S) = m
<1> DEFINE Lowest(x) == \A y \in S : x <= y
<1>1. \A x \in S : Lowest(x) => x = m
  OBVIOUS
<1>2. Lowest(m)
  OBVIOUS
<1>3. Min(S) = CHOOSE x \in S : Lowest(x)
  BY DEF Min
<1> HIDE DEF Lowest
<1> QED
  BY <1>1, <1>2, <1>3

LEMMA MinSingle ==
  ASSUME NEW a \in Int
  PROVE  Min({a}) = a
BY MinIs

LEMMA MinOfTwo ==
  ASSUME NEW a \in Int, NEW b \in Int
  PROVE  Min({a, b}) = IF a <= b THEN a ELSE b
BY MinIs

\* The first packet begins within a packet's length of the position seeked to.
LEMMA FirstPosition ==
  ASSUME input.start \in Nat
  PROVE  /\ FirstPos \in Nat /\ FirstPos >= input.start /\ FirstPos < input.start + Unit
         /\ FirstPos % Unit = 0
<1> USE Constants
<1> DEFINE r == input.start % Unit
           q == input.start \div Unit
<1>1. r \in 0 .. Unit - 1 /\ q \in Nat /\ input.start = q * Unit + r
  BY Division
<1> HIDE DEF r, q
<1>2. CASE r = 0
  <2>1. (Unit - r) % Unit = 0
    BY <1>2, DivisionUnique, Unit - r = 1 * Unit + 0
  <2>2. FirstPos = q * Unit + 0
    BY <1>1, <1>2, <2>1 DEF FirstPos, r
  <2>3. (q * Unit + 0) % Unit = 0
    BY <1>1, DivisionUnique
  <2>4. q * Unit + 0 = input.start
    BY <1>1, <1>2
  <2> QED
    BY <2>2, <2>3, <2>4
<1>3. CASE r # 0
  <2>1. (Unit - r) % Unit = Unit - r
    BY <1>1, <1>3, DivisionUnique, Unit - r = 0 * Unit + (Unit - r)
  <2>2. FirstPos = (q + 1) * Unit + 0
    BY <1>1, <2>1 DEF FirstPos, r
  <2>3. ((q + 1) * Unit + 0) % Unit = 0
    BY <1>1, DivisionUnique
  <2>4. (q + 1) * Unit + 0 = input.start + (Unit - r)
    BY <1>1
  <2>5. FirstPos = input.start + (Unit - r) /\ FirstPos % Unit = 0
    BY <2>2, <2>3, <2>4
  <2> QED
    BY <1>1, <1>3, <2>5
<1> QED
  BY <1>2, <1>3

\* A packet begins at a position, and at no other that is less than a packet away.
LEMMA NextMultiple ==
  ASSUME NEW a \in Nat, NEW b \in Nat, a % Unit = 0, b % Unit = 0, b > a
  PROVE  b >= a + Unit
<1> USE Constants
<1>1. /\ a = (a \div Unit) * Unit /\ a \div Unit \in Nat
      /\ b = (b \div Unit) * Unit /\ b \div Unit \in Nat
  BY Division
<1> DEFINE p == a \div Unit
           q == b \div Unit
<1> HIDE DEF p, q
<1>2. p \in Nat /\ q \in Nat /\ p * Unit < q * Unit
  BY <1>1 DEF p, q
<1>3. q >= p + 1
  BY <1>2
<1>4. q * Unit >= (p + 1) * Unit
  BY <1>2, <1>3
<1>5. q * Unit >= p * Unit + Unit
  BY <1>2, <1>4
<1> QED
  BY <1>1, <1>5 DEF p, q

-----------------------------------------------------------------------------
(* Blocks.                                                                 *)

\* The buffer has room for a packet and a sync byte at least.
LEMMA BufMaxBounds ==
  ASSUME NEW l \in Loops
  PROVE  /\ BufMax(l) \in Nat /\ BufMax(l) > Unit /\ BufMax(l) <= l.bufSize
         /\ ~l.known => BufMax(l) >= 2 * Unit
         /\ l.known /\ l.mode # 1 => BufMax(l) % Unit = 0
         /\ l.known /\ l.mode = 1 => BufMax(l) % Unit = 1
<1> USE Constants
<1> DEFINE q == l.bufSize \div Unit
<1>1. /\ l.bufSize \in Nat /\ l.bufSize >= 2 * Unit
      /\ q \in Nat /\ q * Unit <= l.bufSize /\ l.bufSize < q * Unit + Unit
  <2>1. l.bufSize \in Nat /\ l.bufSize >= 2 * Unit
    BY DEF Loops
  <2>2. q \in Nat /\ l.bufSize % Unit \in 0 .. Unit - 1 /\ l.bufSize = q * Unit + (l.bufSize % Unit)
    BY <2>1, Division
  <2> HIDE DEF q
  <2> QED
    BY <2>1, <2>2
<1>2. BufMax(l) = IF ~l.known THEN l.bufSize ELSE q * Unit - (IF l.mode = 1 THEN Unit - 1 ELSE 0)
  BY DEF BufMax
<1> HIDE DEF q
<1>3. q >= 2
  BY <1>1
<1>4. q * Unit >= 2 * Unit
  BY <1>1, <1>3
<1>5. CASE ~l.known
  BY <1>1, <1>2, <1>5
<1>6. CASE l.known /\ l.mode # 1
  <2>1. BufMax(l) = q * Unit + 0
    BY <1>1, <1>2, <1>6
  <2>2. BufMax(l) % Unit = 0
    <3>1. (q * Unit + 0) % Unit = 0
      BY <1>1, DivisionUnique, 0 \in 0 .. Unit - 1
    <3> QED
      BY <2>1, <3>1
  <2>3. BufMax(l) = q * Unit
    BY <1>1, <2>1
  <2> QED
    BY <1>1, <1>4, <1>6, <2>2, <2>3
<1>7. CASE l.known /\ l.mode = 1
  <2>1. BufMax(l) = (q - 1) * Unit + 1
    BY <1>1, <1>2, <1>7
  <2>2. BufMax(l) % Unit = 1
    <3>1. q - 1 \in Nat /\ 1 \in 0 .. Unit - 1
      BY <1>1, <1>3
    <3>2. ((q - 1) * Unit + 1) % Unit = 1
      BY <3>1, DivisionUnique
    <3> QED
      BY <2>1, <3>2
  <2> QED
    BY <1>1, <1>2, <1>4, <1>7, <2>2
<1> QED
  BY <1>5, <1>6, <1>7

LEMMA CellsShape ==
  ASSUME loop.offset \in Nat, file.written \in Nat, NEW n \in Nat
  PROVE  /\ Cells(n) \in Seq(Cell) /\ Len(Cells(n)) = n
         /\ \A i \in 1 .. n : /\ Cells(n)[i].pos = loop.offset + i - 1
                              /\ Cells(n)[i].ok = (loop.offset + i - 1 < file.written)
<1>1. \A i \in 1 .. n : [pos |-> loop.offset + i - 1, ok |-> loop.offset + i - 1 < file.written] \in Cell
  BY DEF Cell
<1> QED
  BY <1>1 DEF Cells

-----------------------------------------------------------------------------
(* Types.                                                                  *)

Types ==
  /\ input.mode \in 0 .. 2 /\ input.start \in Nat
  /\ input.mode = 1 => ~input.pipe
  /\ loop \in Loops /\ (loop.mode = input.mode \/ (input.mode = 1 /\ loop.mode = 0))
  /\ loop.mode = 1 /\ loop.known => loop.filePos >= 1
  /\ loop.running => Len(loop.buf) < BufMax(loop)
  /\ waited \in 0 .. Timeout
  /\ file \in [written : 0 .. Total, size : Nat, open : BOOLEAN] /\ file.size >= file.written
  /\ input.mode # 1 => file.size = file.written
  /\ input.mode = 1 /\ Grows = FALSE => file.size = Total + Spare
  /\ out \in Seq(Seq(Cell))

\* A read fills the buffer at most, and gives nothing from behind the end.
LEMMA ReadBounds ==
  ASSUME Types, NEW n \in Reads
  PROVE  /\ n \in Int
         /\ n > 0 => n <= BufMax(loop) - Len(loop.buf) /\ n <= file.size - loop.offset
<1>1. /\ BufMax(loop) \in Nat /\ Len(loop.buf) \in Nat /\ file.size \in Nat /\ loop.offset \in Nat
  BY BufMaxBounds, LenProperties DEF Types, Loops
<1> DEFINE room == BufMax(loop) - Len(loop.buf)
           left == file.size - loop.offset
           ready == Min({room, left})
<1>2. ready \in Int /\ ready <= room /\ ready <= left
  <2>1. room \in Int /\ left \in Int
    BY <1>1
  <2> HIDE DEF room, left
  <2> QED
    BY <2>1, MinOfTwo
<1>3. n \in {ready} \/ n \in 1 .. ready \/ n \in {-1, 0}
  BY DEF Reads
<1> HIDE DEF ready
<1> QED
  BY <1>1, <1>2, <1>3

\* The offsets of a block are places in it, and there is a lowest one if any.
LEMMA OffsetsShape ==
  ASSUME NEW b \in Seq(Cell)
  PROVE  /\ Offsets(b) \subseteq 0 .. Len(b)
         /\ Offsets(b) # {} => /\ Min(Offsets(b)) \in Offsets(b) /\ Min(Offsets(b)) \in Nat
                               /\ \A o \in Offsets(b) : Min(Offsets(b)) <= o
<1> DEFINE S == Offsets(b)
<1>1. Len(b) \in Nat
  BY LenProperties
<1>2. Min({Unit, Len(b)}) \in Nat /\ Min({Unit, Len(b)}) <= Len(b)
  BY <1>1, MinOfTwo, Constants
<1>3. S \in SUBSET (0 .. Len(b))
  BY <1>1, <1>2 DEF Offsets
<1> HIDE DEF S
<1>4. S # {} => Min(S) \in S /\ \A o \in S : Min(S) <= o
  BY <1>1, <1>3, LowestOffset
<1> QED
  BY <1>1, <1>3, <1>4 DEF S

\* Resync only moves bufPos, to a place in the buffer, and recognises the packets or not.
LEMMA ResyncType ==
  ASSUME NEW l \in Loops
  PROVE  LET r == Resync(l) IN
         /\ r \in Loops
         /\ r = [l EXCEPT !.known = r.known, !.bufPos = r.bufPos]
         /\ r.known = (l.known \/ Offsets(l.buf) # {})
         /\ r.bufPos = IF Offsets(l.buf) = {} THEN Len(l.buf) ELSE Min(Offsets(l.buf))
         /\ r.bufPos \in 0 .. Len(l.buf)
<1> USE Constants
<1> DEFINE offsets == Offsets(l.buf)
           pos == IF offsets = {} THEN Len(l.buf) ELSE Min(offsets)
           known == l.known \/ offsets # {}
<1>1. Len(l.buf) \in Nat /\ l.buf \in Seq(Cell) /\ l.known \in BOOLEAN
  BY LenProperties DEF Loops
<1>2. pos \in 0 .. Len(l.buf)
  <2>1. CASE offsets = {}
    BY <1>1, <2>1
  <2>2. CASE offsets # {}
    <3>1. Min({Unit, Len(l.buf)}) \in Nat /\ Min({Unit, Len(l.buf)}) <= Len(l.buf)
      BY <1>1, MinOfTwo
    <3>2. offsets \subseteq 0 .. Len(l.buf)
      BY <1>1, <3>1 DEF Offsets
    <3> HIDE DEF offsets
    <3>3. Min(offsets) \in offsets
      BY <1>1, <2>2, <3>2, LowestOffset
    <3> QED
      BY <2>2, <3>2, <3>3
  <2> QED
    BY <2>1, <2>2
<1>3. Resync(l) = [l EXCEPT !.known = known, !.bufPos = pos]
  BY DEF Resync
<1>4. known \in BOOLEAN /\ pos \in Int
  BY <1>1, <1>2
<1> HIDE DEF known, pos
<1>5. Resync(l) \in Loops /\ Resync(l).known = known /\ Resync(l).bufPos = pos
  BY <1>3, <1>4 DEF Loops
<1> QED
  BY <1>2, <1>3, <1>5 DEF known, pos

\* A retry goes back to filePos, or completes the loop.
LEMMA RetriedType ==
  ASSUME NEW l \in Loops
  PROVE  LET r == Retried(l) IN
         /\ r \in Loops /\ r = [l EXCEPT !.completed = r.completed, !.offset = r.offset]
         /\ r.offset \in {l.offset, l.filePos}
         /\ ~l.retry => r = l
         /\ l.retry /\ ~r.completed /\ l.mode # 2 => r.offset = l.filePos
<1>1. CASE Retried(l) = l
  <2>1. ~l.retry \/ l.mode = 2 \/ l.offset = l.filePos \/ l.completed
    BY <1>1 DEF Retried, Loops
  <2> QED
    BY <1>1, <2>1 DEF Loops
<1>2. CASE l.retry /\ Retried(l) = [l EXCEPT !.completed = TRUE]
  BY <1>2 DEF Loops
<1>3. CASE l.retry /\ Retried(l) = [l EXCEPT !.offset = l.filePos]
  BY <1>3 DEF Loops
<1> QED
  BY <1>1, <1>2, <1>3 DEF Retried

LEMMA RetriedInTime ==
  ASSUME NEW l \in Loops, l.retry, TimedOut
  PROVE  Retried(l).completed
BY DEF Retried, Loops

\* What ReadBlock makes of the loop: in modes 0 and 2 nothing or more bytes, in mode 1 one
\* of six outcomes.
Unread(l) ==
  /\ loop.mode # 1 /\ l.mode = loop.mode /\ l.buf = loop.buf /\ l.known = loop.known
  /\ l.filePos = loop.filePos /\ l.offset \in {loop.offset, loop.filePos} /\ l.bufPos = -1

Read(l, n) ==
  /\ n \in Nat \ {0} /\ l.mode = loop.mode /\ l.buf = loop.buf \o Cells(n) /\ l.known = loop.known
  /\ l.offset = loop.offset + n /\ l.filePos = loop.filePos + (IF loop.mode = 1 THEN 0 ELSE n)
  /\ l.bufPos = -1 /\ ~l.completed
  /\ loop.mode = 1 => Len(l.buf) # BufMax(loop)

Ended(l) ==
  /\ loop.mode = 1 /\ l.mode = 0 /\ l.buf = loop.buf /\ l.known = loop.known /\ l.bufPos = -1

FirstMissed(l) ==
  /\ loop.mode = 1 /\ ~loop.known /\ l.mode = 1 /\ ~l.known /\ l.buf = << >>
  /\ l.filePos = loop.filePos /\ l.bufPos = -1
  /\ ~l.completed => l.offset = l.filePos

FirstFound(l, n) ==
  LET b == loop.buf \o Cells(n)
      o == Min(Offsets(b))
  IN  /\ n \in Nat \ {0} /\ loop.mode = 1 /\ ~loop.known /\ l.mode = 1 /\ l.known
      /\ Len(loop.buf) + n = BufMax(loop)
      /\ Offsets(b) # {} /\ o + 1 \in 1 .. Len(b) /\ l.buf = <<b[o + 1]>>
      /\ l.filePos = loop.filePos + o + 1 /\ l.offset = l.filePos
      /\ l.bufPos = 0 /\ ~l.completed

NextMissed(l, n) ==
  LET b == loop.buf \o Cells(n)
  IN  /\ n \in Nat \ {0} /\ loop.mode = 1 /\ loop.known /\ l.mode = 1 /\ l.known
      /\ l.buf = <<b[1]>> /\ l.filePos = loop.filePos /\ l.bufPos = 0
      /\ ~l.completed => l.offset = l.filePos
      /\ TimedOut => l.completed

NextFound(l, n) ==
  LET b == loop.buf \o Cells(n)
  IN  /\ n \in Nat \ {0} /\ loop.mode = 1 /\ loop.known /\ l.mode = 1 /\ l.known
      /\ Len(loop.buf) + n = BufMax(loop) /\ 0 \in Offsets(b)
      /\ l.buf = b /\ l.filePos = loop.filePos + Len(b) - 1 /\ l.offset = loop.offset + n
      /\ l.bufPos = 0 /\ ~l.completed

LEMMA FilledType ==
  ASSUME Types, NEW n \in Nat \ {0}
  PROVE  /\ Filled(n) \in Loops /\ Filled(n).buf = loop.buf \o Cells(n)
         /\ Filled(n).offset = loop.offset + n /\ Filled(n).filePos = loop.filePos
         /\ Filled(n).mode = loop.mode /\ Filled(n).known = loop.known
         /\ Filled(n).bufSize = loop.bufSize /\ Filled(n).running = loop.running
         /\ Filled(n).bufPos = -1 /\ ~Filled(n).retry /\ ~Filled(n).completed
         /\ Len(loop.buf \o Cells(n)) = Len(loop.buf) + n
<1> DEFINE b == loop.buf \o Cells(n)
           o == loop.offset + n
           c == loop.connected \/ loop.mode = 2
<1>1. loop \in Loops /\ loop.buf \in Seq(Cell) /\ loop.offset \in Nat /\ file.written \in Nat
      /\ loop.connected \in BOOLEAN
  BY DEF Types, Loops
<1>2. b \in Seq(Cell) /\ Len(b) = Len(loop.buf) + n
  <2> DEFINE d == Cells(n)
  <2>1. d \in Seq(Cell) /\ Len(d) = n
    BY <1>1, CellsShape
  <2> HIDE DEF d
  <2>2. loop.buf \o d \in Seq(Cell) /\ Len(loop.buf \o d) = Len(loop.buf) + n
    BY <1>1, <2>1, ConcatProperties
  <2> QED
    BY <2>2 DEF d
<1>3. o \in Nat /\ c \in BOOLEAN
  BY <1>1
<1>4. Filled(n) = [loop EXCEPT !.buf = b, !.offset = o, !.connected = c,
                               !.bufPos = -1, !.retry = FALSE, !.completed = FALSE]
  BY DEF Filled
<1> HIDE DEF b, o, c
<1>5. Filled(n) \in Loops
  <2>1. b \in Seq(Cell) /\ o \in Nat /\ c \in BOOLEAN /\ -1 \in Int
    BY <1>2, <1>3
  <2> QED
    BY <1>1, <1>4, <2>1 DEF Loops
<1>6. /\ Filled(n).buf = b /\ Filled(n).offset = o
      /\ Filled(n).filePos = loop.filePos /\ Filled(n).mode = loop.mode
      /\ Filled(n).known = loop.known /\ Filled(n).bufSize = loop.bufSize
      /\ Filled(n).running = loop.running
      /\ Filled(n).bufPos = -1 /\ ~Filled(n).retry /\ ~Filled(n).completed
  BY <1>1, <1>4 DEF Loops
<1> QED
  BY <1>2, <1>5, <1>6 DEF b, o

\* Modes 0 and 2.
LEMMA NormalCases ==
  ASSUME Types, loop.running, NEW n \in Reads, loop.mode # 1
  PROVE  LET l == ReadBlock(n)
         IN  /\ l \in Loops /\ l.running /\ l.bufSize = loop.bufSize
             /\ Unread(l) \/ Read(l, n)
<1> DEFINE p == CASE loop.mode = 0 -> Normal(n)
                  [] loop.mode = 1 -> Preallocated(n)
                  [] loop.mode = 2 -> NonBlocking(n)
<1>1. loop \in Loops /\ n \in Int /\ loop.mode \in {0, 2}
  <2>1. n \in Int
    BY ReadBounds
  <2> QED
    BY <2>1 DEF Types, Loops
<1>2. p = Normal(n) \/ p = [Idle EXCEPT !.completed = TRUE]
  BY <1>1 DEF NonBlocking
<1>3. ReadBlock(n) = Retried(p)
  BY DEF ReadBlock
<1> HIDE DEF p
<1>4. CASE p = [Filled(n) EXCEPT !.filePos = @ + n] /\ n > 0
  <2>1. n \in Nat \ {0} /\ loop.filePos + n \in Nat
    BY <1>1, <1>4 DEF Loops
  <2>2. /\ Filled(n) \in Loops /\ Filled(n).filePos = loop.filePos
        /\ Filled(n).running = loop.running /\ Filled(n).bufSize = loop.bufSize
        /\ Filled(n).buf = loop.buf \o Cells(n) /\ Filled(n).offset = loop.offset + n
        /\ Filled(n).mode = loop.mode /\ Filled(n).known = loop.known
        /\ Filled(n).bufPos = -1 /\ ~Filled(n).retry /\ ~Filled(n).completed
    BY <2>1, FilledType
  <2>3. p \in Loops /\ p.filePos = loop.filePos + n
    BY <1>4, <2>1, <2>2 DEF Loops
  <2>4. /\ p.running = loop.running /\ p.bufSize = loop.bufSize
        /\ p.buf = loop.buf \o Cells(n) /\ p.offset = loop.offset + n
        /\ p.mode = loop.mode /\ p.known = loop.known
        /\ p.bufPos = -1 /\ ~p.retry /\ ~p.completed
    BY <1>4, <2>2 DEF Loops
  <2>5. ReadBlock(n) = p
    BY <1>3, <2>3, <2>4, RetriedType
  <2> QED
    BY <2>1, <2>3, <2>4, <2>5 DEF Read
<1>5. CASE p = [Idle EXCEPT !.retry = TRUE] \/ p = [Idle EXCEPT !.completed = TRUE]
  <2>1. -1 \in Int
    OBVIOUS
  <2>2. p \in Loops
    BY ZenonT(30), <1>1, <1>5, <2>1 DEF Idle, Loops
  <2>3. /\ p.running = loop.running /\ p.bufSize = loop.bufSize /\ p.buf = loop.buf
        /\ p.offset = loop.offset /\ p.filePos = loop.filePos /\ p.mode = loop.mode
        /\ p.known = loop.known /\ p.bufPos = -1
    BY <1>1, <1>5 DEF Idle, Loops
  <2> DEFINE r == Retried(p)
  <2>4. /\ r \in Loops /\ r = [p EXCEPT !.completed = r.completed, !.offset = r.offset]
        /\ r.offset \in {p.offset, p.filePos}
    BY <2>2, RetriedType
  <2> HIDE DEF r
  <2>5. /\ r.running = p.running /\ r.bufSize = p.bufSize /\ r.buf = p.buf
        /\ r.filePos = p.filePos /\ r.mode = p.mode /\ r.known = p.known /\ r.bufPos = p.bufPos
    BY <2>2, <2>4 DEF Loops
  <2> QED
    BY <1>3, <2>3, <2>4, <2>5 DEF Unread, r
<1> QED
  BY <1>1, <1>2, <1>4, <1>5 DEF Normal

\* The end, and the blocks, of a preallocated file.
LEMMA EndCase ==
  ASSUME Types, loop.mode = 1
  PROVE  LET l == Retried(PreallocatedEnd)
         IN  /\ l \in Loops /\ l.running = loop.running /\ l.bufSize = loop.bufSize /\ Ended(l)
             /\ PreallocatedEnd.mode = 0
<1> DEFINE f == loop.filePos + Len(loop.buf) - (IF loop.known THEN 1 ELSE 0)
           p == PreallocatedEnd
           r == Retried(p)
<1>1. loop \in Loops /\ Len(loop.buf) \in Nat /\ loop.filePos \in Nat
  BY LenProperties DEF Types, Loops
<1>2. f \in Nat
  <2> DEFINE len == Len(loop.buf)
  <2>1. loop.known => loop.filePos >= 1
    BY DEF Types
  <2>2. len \in Nat
    BY <1>1
  <2> HIDE DEF len
  <2>3. loop.filePos + len - (IF loop.known THEN 1 ELSE 0) \in Nat
    BY <1>1, <2>1, <2>2
  <2> QED
    BY <2>3 DEF len
<1>3. p = [loop EXCEPT !.bufPos = -1, !.retry = FALSE, !.completed = FALSE, !.filePos = f, !.mode = 0]
  BY <1>1 DEF PreallocatedEnd, Idle, Loops
<1> HIDE DEF f
<1>4. p \in Loops
  BY <1>1, <1>2, <1>3, -1 \in Int DEF Loops
<1>5. p.running = loop.running /\ p.bufSize = loop.bufSize /\ p.buf = loop.buf /\ p.known = loop.known
      /\ p.mode = 0 /\ p.bufPos = -1
  BY <1>1, <1>3 DEF Loops
<1> HIDE DEF p
<1>6. r \in Loops /\ r = [p EXCEPT !.completed = r.completed, !.offset = r.offset]
  BY <1>4, RetriedType
<1> HIDE DEF r
<1>7. r.running = p.running /\ r.bufSize = p.bufSize /\ r.buf = p.buf /\ r.known = p.known
      /\ r.mode = p.mode /\ r.bufPos = p.bufPos
  BY <1>4, <1>6 DEF Loops
<1> QED
  BY <1>5, <1>6, <1>7 DEF Ended, r, p

LEMMA FirstCases ==
  ASSUME Types, loop.mode = 1, ~loop.known, NEW n \in Nat \ {0}, Len(loop.buf) + n = BufMax(loop)
  PROVE  LET l == Retried(PreallocatedFirst(Filled(n)))
         IN  /\ l \in Loops /\ l.running = loop.running /\ l.bufSize = loop.bufSize
             /\ FirstMissed(l) \/ FirstFound(l, n)
<1> DEFINE b == loop.buf \o Cells(n)
           f == Filled(n)
           r == Resync(f)
           p == PreallocatedFirst(f)
<1>1. /\ f \in Loops /\ f.buf = b /\ f.filePos = loop.filePos /\ f.mode = 1 /\ ~f.known
      /\ f.bufSize = loop.bufSize /\ f.running = loop.running /\ f.bufPos = -1
      /\ ~f.completed /\ ~f.retry /\ Len(b) = Len(loop.buf) + n
  BY FilledType
<1>2. /\ r \in Loops /\ r = [f EXCEPT !.known = r.known, !.bufPos = r.bufPos]
      /\ r.known = (Offsets(b) # {})
      /\ Offsets(b) # {} => r.bufPos = Min(Offsets(b))
      /\ r.bufPos \in 0 .. Len(b)
  BY <1>1, ResyncType
<1>3. p = IF ~r.known THEN [f EXCEPT !.retry = TRUE, !.buf = << >>]
          ELSE [r EXCEPT !.filePos = f.filePos + r.bufPos + 1, !.offset = f.filePos + r.bufPos + 1,
                         !.bufPos = 0, !.buf = <<f.buf[r.bufPos + 1]>>]
  BY DEF PreallocatedFirst
<1> HIDE DEF f, r, p, b
<1>4. CASE ~r.known
  <2> DEFINE none == << >>
  <2>a. none \in Seq(Cell)
    OBVIOUS
  <2>b. p = [f EXCEPT !.retry = TRUE, !.buf = none]
    BY <1>3, <1>4
  <2> HIDE DEF none
  <2>c. p \in Loops
    BY <1>1, <2>a, <2>b DEF Loops
  <2>1. p.buf = none /\ p.filePos = loop.filePos /\ p.mode = 1 /\ ~p.known
        /\ p.bufSize = loop.bufSize /\ p.running = loop.running /\ p.bufPos = -1 /\ p.retry
    BY <1>1, <2>b DEF Loops
  <2> DEFINE l == Retried(p)
  <2>2. /\ l \in Loops /\ l = [p EXCEPT !.completed = l.completed, !.offset = l.offset]
        /\ ~l.completed => l.offset = p.filePos
    <3>1. p.mode # 2 /\ p.retry
      BY <2>1
    <3> QED
      BY <2>c, <3>1, RetriedType
  <2> HIDE DEF l
  <2>3. /\ l.buf = none /\ l.filePos = loop.filePos /\ l.mode = 1 /\ ~l.known
        /\ l.bufSize = loop.bufSize /\ l.running = loop.running /\ l.bufPos = -1
    BY <2>1, <2>2, <2>c DEF Loops
  <2> QED
    BY <2>1, <2>2, <2>3 DEF FirstMissed, none, l, p, f
<1>5. CASE r.known
  <2>1. Len(b) \in Nat /\ b \in Seq(Cell) /\ DOMAIN b = 1 .. Len(b)
    BY <1>1, LenProperties DEF Loops
  <2>2. r.bufPos + 1 \in 1 .. Len(b)
    <3>1. Min({Unit, Len(b)}) <= Len(b) /\ Min({Unit, Len(b)}) \in Nat
      BY <2>1, MinOfTwo, Constants
    <3>2. Offsets(b) \in SUBSET (0 .. Len(b) - 1)
      BY <2>1, <3>1 DEF Offsets
    <3>3. Len(b) - 1 \in Nat
      BY <1>1, <2>1, LenProperties DEF Types, Loops
    <3>4. Min(Offsets(b)) \in Offsets(b)
      <4>1. \A m \in Nat : \A S \in SUBSET (0 .. m) : S # {} => Min(S) \in S
        BY LowestOffset
      <4> QED
        BY <1>2, <1>5, <3>2, <3>3, <4>1
    <3> QED
      BY <1>2, <1>5, <2>1, <3>2, <3>4
  <2> DEFINE next == f.filePos + r.bufPos + 1
             c == b[r.bufPos + 1]
  <2> DEFINE one == <<c>>
  <2>3. next \in Nat /\ c \in Cell
    <3>1. c \in Cell
      BY <2>1, <2>2, ElementOfSeq
    <3>2. f.filePos \in Nat /\ r.bufPos \in Nat
      BY <1>1, <1>2, <2>1 DEF Loops
    <3> QED
      BY <3>1, <3>2
  <2>a. one \in Seq(Cell)
    BY <2>3
  <2>4. p = [r EXCEPT !.filePos = next, !.offset = next, !.bufPos = 0, !.buf = one]
    BY <1>1, <1>3, <1>5
  <2>5. /\ r.mode = 1 /\ r.bufSize = loop.bufSize /\ r.running = loop.running
        /\ ~r.completed /\ ~r.retry
    BY <1>1, <1>2 DEF Loops
  <2> HIDE DEF next, c, one
  <2>6. p \in Loops
    BY <1>2, <2>3, <2>4, <2>a, 0 \in Int DEF Loops
  <2>7. /\ p.filePos = next /\ p.offset = next /\ p.bufPos = 0 /\ p.buf = one /\ p.known
        /\ p.mode = 1 /\ p.bufSize = loop.bufSize /\ p.running = loop.running
        /\ ~p.completed /\ ~p.retry
    BY <1>2, <1>5, <2>4, <2>5 DEF Loops
  <2>8. Retried(p) = p
    BY <2>6, <2>7, RetriedType
  <2>9. FirstFound(p, n)
    BY <1>1, <1>2, <1>5, <2>2, <2>7 DEF FirstFound, next, c, one, b
  <2> QED
    BY <2>6, <2>7, <2>8, <2>9 DEF p, f
<1> QED
  BY <1>4, <1>5

LEMMA NextCases ==
  ASSUME Types, loop.mode = 1, loop.known, NEW n \in Nat \ {0}, Len(loop.buf) + n = BufMax(loop)
  PROVE  LET l == Retried(PreallocatedNext(Filled(n)))
         IN  /\ l \in Loops /\ l.running = loop.running /\ l.bufSize = loop.bufSize
             /\ NextMissed(l, n) \/ NextFound(l, n)
<1> DEFINE b == loop.buf \o Cells(n)
           f == Filled(n)
           r == Resync(f)
           p == PreallocatedNext(f)
<1>1. /\ f \in Loops /\ f.buf = b /\ f.filePos = loop.filePos /\ f.mode = 1 /\ f.known
      /\ f.offset = loop.offset + n
      /\ f.bufSize = loop.bufSize /\ f.running = loop.running /\ f.bufPos = -1
      /\ ~f.completed /\ ~f.retry /\ Len(b) = Len(loop.buf) + n
  BY FilledType
<1>2. /\ r \in Loops /\ r = [f EXCEPT !.known = r.known, !.bufPos = r.bufPos]
      /\ r.known = (f.known \/ Offsets(b) # {})
      /\ r.bufPos = IF Offsets(b) = {} THEN Len(b) ELSE Min(Offsets(b))
  BY ZenonT(30), <1>1, ResyncType
<1>3. p = IF r.bufPos # 0
          THEN [f EXCEPT !.retry = TRUE, !.bufPos = 0, !.buf = <<f.buf[1]>>]
          ELSE [r EXCEPT !.filePos = @ + Len(f.buf) - 1]
  BY DEF PreallocatedNext
<1>4. Len(b) \in Nat \ {0} /\ b \in Seq(Cell) /\ b[1] \in Cell
  <2>1. Len(loop.buf) \in Nat /\ b \in Seq(Cell)
    BY <1>1, LenProperties DEF Types, Loops
  <2> HIDE DEF b
  <2> QED
    BY <1>1, <2>1, ElementOfSeq
<1> HIDE DEF f, r, p, b
<1>5. CASE r.bufPos # 0
  <2> DEFINE one == <<b[1]>>
  <2>1. one \in Seq(Cell)
    BY <1>4
  <2>2. p = [f EXCEPT !.retry = TRUE, !.bufPos = 0, !.buf = one]
    BY <1>1, <1>3, <1>5
  <2> HIDE DEF one
  <2>a. p \in Loops
    BY <1>1, <2>1, <2>2, 0 \in Int DEF Loops
  <2>3. p.buf = one /\ p.filePos = loop.filePos /\ p.mode = 1 /\ p.known
        /\ p.bufSize = loop.bufSize /\ p.running = loop.running /\ p.bufPos = 0 /\ p.retry
    BY <1>1, <2>2 DEF Loops
  <2> DEFINE l == Retried(p)
  <2>4. /\ l \in Loops /\ l = [p EXCEPT !.completed = l.completed, !.offset = l.offset]
        /\ ~l.completed => l.offset = p.filePos
        /\ TimedOut => l.completed
    <3>1. p.mode # 2 /\ p.retry
      BY <2>3
    <3> QED
      BY <2>a, <3>1, RetriedType, RetriedInTime
  <2> HIDE DEF l
  <2>5. /\ l.buf = one /\ l.filePos = loop.filePos /\ l.mode = 1 /\ l.known
        /\ l.bufSize = loop.bufSize /\ l.running = loop.running /\ l.bufPos = 0
    BY ZenonT(30), <2>3, <2>4, <2>a DEF Loops
  <2>6. NextMissed(l, n)
    BY <2>3, <2>4, <2>5 DEF NextMissed, one, b
  <2> QED
    BY <2>4, <2>5, <2>6 DEF l, p, f
<1>6. CASE r.bufPos = 0
  <2>1. r.filePos = loop.filePos /\ loop.filePos + Len(b) - 1 \in Nat
    <3>1. r.filePos = loop.filePos
      BY <1>1, <1>2 DEF Loops
    <3>2. loop.filePos \in Nat
      BY DEF Types, Loops
    <3> QED
      BY <1>4, <3>1, <3>2
  <2> DEFINE pos == loop.filePos + Len(b) - 1
  <2>2. p = [r EXCEPT !.filePos = pos]
    BY <1>1, <1>3, <1>6, <2>1
  <2>3. /\ r.mode = 1 /\ r.bufSize = loop.bufSize /\ r.running = loop.running /\ r.known
        /\ r.buf = b /\ r.offset = loop.offset + n /\ ~r.completed /\ ~r.retry
    BY ZenonT(30), <1>1, <1>2 DEF Loops
  <2>4. 0 \in Offsets(b)
    <3>1. Offsets(b) # {}
      BY <1>2, <1>4, <1>6
    <3>2. Min({Unit, Len(b)}) <= Len(b) /\ Min({Unit, Len(b)}) \in Nat
      BY <1>4, MinOfTwo, Constants
    <3>3. Offsets(b) \in SUBSET (0 .. Len(b))
      BY <1>4, <3>2 DEF Offsets
    <3>4. \A m \in Nat : \A S \in SUBSET (0 .. m) : S # {} => Min(S) \in S
      BY LowestOffset
    <3>5. Min(Offsets(b)) \in Offsets(b)
      BY <1>4, <3>1, <3>3, <3>4
    <3> QED
      BY <1>2, <1>6, <3>1, <3>5
  <2> HIDE DEF pos
  <2>5. pos \in Nat
    BY <2>1 DEF pos
  <2>6. p \in Loops
    BY <1>2, <2>2, <2>5 DEF Loops
  <2>7. /\ p.filePos = pos /\ p.bufPos = 0 /\ p.buf = b /\ p.known /\ p.offset = loop.offset + n
        /\ p.mode = 1 /\ p.bufSize = loop.bufSize /\ p.running = loop.running
        /\ ~p.completed /\ ~p.retry
    BY <1>2, <1>6, <2>2, <2>3 DEF Loops
  <2>8. Retried(p) = p
    BY <2>6, <2>7, RetriedType
  <2>9. NextFound(p, n)
    BY <1>1, <2>4, <2>7 DEF NextFound, pos, b
  <2> QED
    BY <2>6, <2>7, <2>8, <2>9 DEF p, f
<1> QED
  BY <1>5, <1>6

LEMMA PreallocatedCases ==
  ASSUME Types, loop.running, NEW n \in Reads, loop.mode = 1
  PROVE  LET l == ReadBlock(n)
         IN  /\ l \in Loops /\ l.running /\ l.bufSize = loop.bufSize
             /\ Ended(l) \/ Read(l, n) \/ FirstMissed(l) \/ FirstFound(l, n)
                          \/ NextMissed(l, n) \/ NextFound(l, n)
<1>1. ReadBlock(n) = Retried(Preallocated(n)) /\ n \in Int
  <2>1. n \in Int
    BY ReadBounds
  <2> QED
    BY <2>1 DEF ReadBlock
<1>2. CASE n <= 0
  BY <1>1, <1>2, EndCase DEF Preallocated
<1>3. CASE n > 0 /\ Len(loop.buf) + n # BufMax(loop)
  <2>1. n \in Nat \ {0}
    BY <1>1, <1>3
  <2>2. /\ Filled(n) \in Loops /\ Filled(n).filePos = loop.filePos
        /\ Filled(n).running = loop.running /\ Filled(n).bufSize = loop.bufSize
        /\ Filled(n).buf = loop.buf \o Cells(n) /\ Filled(n).offset = loop.offset + n
        /\ Filled(n).mode = loop.mode /\ Filled(n).known = loop.known
        /\ Filled(n).bufPos = -1 /\ ~Filled(n).retry /\ ~Filled(n).completed
        /\ Len(loop.buf \o Cells(n)) = Len(loop.buf) + n
    BY <2>1, FilledType
  <2>3. Preallocated(n) = Filled(n)
    BY <1>1, <1>3 DEF Preallocated
  <2>4. ReadBlock(n) = Filled(n)
    BY <1>1, <2>2, <2>3, RetriedType
  <2>5. loop.filePos + 0 = loop.filePos
    BY DEF Types, Loops
  <2> QED
    BY <1>3, <2>1, <2>2, <2>4, <2>5 DEF Read
<1>4. CASE n > 0 /\ Len(loop.buf) + n = BufMax(loop)
  <2>1. n \in Nat \ {0}
    BY <1>1, <1>4
  <2>2. Preallocated(n) = IF loop.known THEN PreallocatedNext(Filled(n)) ELSE PreallocatedFirst(Filled(n))
    BY <1>1, <1>4 DEF Preallocated
  <2>3. CASE loop.known
    BY <1>1, <1>4, <2>1, <2>2, <2>3, NextCases
  <2>4. CASE ~loop.known
    BY <1>1, <1>4, <2>1, <2>2, <2>4, FirstCases
  <2> QED
    BY <2>3, <2>4
<1> QED
  BY <1>1, <1>2, <1>3, <1>4

-----------------------------------------------------------------------------
(* A block is cut into packets.                                            *)

\* The packets of a block, and what remains behind them.
LEMMA Cutting ==
  ASSUME NEW d \in Loops, d.bufPos \in 0 .. Len(d.buf)
  PROVE  LET m == Len(d.buf) - d.bufPos
             n == IF d.known THEN m \div Unit ELSE 0
             rest == IF d.known THEN m % Unit ELSE 0
         IN  /\ m \in Nat /\ n \in Nat /\ rest \in 0 .. Unit - 1
             /\ d.known => m = n * Unit + rest
             /\ Cut(d) \in Seq(Seq(Cell)) /\ Len(Cut(d)) = n
             /\ \A k \in 1 .. n : \A i \in 1 .. Unit :
                  /\ d.bufPos + (k - 1) * Unit + i \in 1 .. Len(d.buf)
                  /\ Cut(d)[k][i] = d.buf[d.bufPos + (k - 1) * Unit + i]
             /\ Rest(d) \in Seq(Cell) /\ Len(Rest(d)) = rest
             /\ \A i \in 1 .. rest : Rest(d)[i] = d.buf[Len(d.buf) - rest + i]
<1> DEFINE len == Len(d.buf)
           m == len - d.bufPos
           n == IF d.known THEN m \div Unit ELSE 0
           rest == IF d.known THEN m % Unit ELSE 0
<1>1. /\ len \in Nat /\ d.buf \in Seq(Cell) /\ DOMAIN d.buf = 1 .. len /\ d.bufPos \in 0 .. len
      /\ Unit \in Nat /\ Unit >= 2
  BY LenProperties, Constants DEF Loops
<1>2. m \in Nat /\ n \in Nat /\ rest \in 0 .. Unit - 1 /\ (d.known => m = n * Unit + rest)
  <2>1. m \in Nat
    BY <1>1
  <2> HIDE DEF m
  <2>2. CASE d.known
    BY <2>1, <2>2, Division
  <2>3. CASE ~d.known
    BY <1>1, <2>1, <2>3
  <2> QED
    BY <2>2, <2>3
<1>3. Cut(d) = [k \in 1 .. n |-> SubSeq(d.buf, d.bufPos + (k - 1) * Unit + 1, d.bufPos + k * Unit)]
  BY DEF Cut
<1>4. Rest(d) = IF ~d.known THEN << >> ELSE SubSeq(d.buf, len - rest + 1, len)
  BY DEF Rest
<1>5. ASSUME NEW k \in 1 .. n
      PROVE  /\ d.bufPos + (k - 1) * Unit + 1 \in Int /\ d.bufPos + k * Unit \in Int
             /\ d.bufPos + (k - 1) * Unit + 1 >= 1 /\ d.bufPos + k * Unit <= len
             /\ d.bufPos + k * Unit - (d.bufPos + (k - 1) * Unit + 1) + 1 = Unit
  <2> HIDE DEF n, rest, len
  <2>1. d.known
    BY <1>5 DEF n
  <2>2. (k - 1) * Unit >= 0 /\ k * Unit <= n * Unit /\ k * Unit = (k - 1) * Unit + Unit
    BY <1>1, <1>2, <1>5
  <2>3. (k - 1) * Unit \in Int /\ k * Unit \in Int /\ n * Unit \in Int
    BY <1>1, <1>2, <1>5
  <2> DEFINE before == (k - 1) * Unit
             behind == k * Unit
             all == n * Unit
  <2>4. /\ before >= 0 /\ behind <= all /\ behind = before + Unit
        /\ before \in Int /\ behind \in Int /\ all \in Int
    BY <2>2, <2>3
  <2>5. d.bufPos \in 0 .. len /\ len - d.bufPos = all + rest /\ rest >= 0 /\ rest \in Int /\ len \in Nat
    BY <1>1, <1>2, <2>1 DEF m
  <2> HIDE DEF before, behind, all
  <2>6. /\ d.bufPos + before + 1 \in Int /\ d.bufPos + behind \in Int
        /\ d.bufPos + before + 1 >= 1 /\ d.bufPos + behind <= len
        /\ d.bufPos + behind - (d.bufPos + before + 1) + 1 = Unit
    BY SMTT(30), <1>1, <2>4, <2>5
  <2> QED
    BY <2>6 DEF before, behind
<1>6. ASSUME NEW k \in 1 .. n
      PROVE  /\ Cut(d)[k] \in Seq(Cell)
             /\ \A i \in 1 .. Unit :
                  /\ d.bufPos + (k - 1) * Unit + i \in 1 .. len
                  /\ Cut(d)[k][i] = d.buf[d.bufPos + (k - 1) * Unit + i]
  <2> DEFINE from == d.bufPos + (k - 1) * Unit + 1
             to == d.bufPos + k * Unit
  <2>1. Cut(d)[k] = SubSeq(d.buf, from, to)
    BY <1>3
  <2>2. from \in Int /\ to \in Int /\ from >= 1 /\ to <= len /\ to - from + 1 = Unit
    <3> HIDE DEF n, len, from, to
    <3>1. /\ d.bufPos + (k - 1) * Unit + 1 \in Int /\ d.bufPos + k * Unit \in Int
          /\ d.bufPos + (k - 1) * Unit + 1 >= 1 /\ d.bufPos + k * Unit <= len
          /\ d.bufPos + k * Unit - (d.bufPos + (k - 1) * Unit + 1) + 1 = Unit
      BY <1>5, <1>6
    <3> QED
      BY <1>1, <1>6, <3>1, SMT DEF from, to
  <2>4. (k - 1) * Unit \in Int
    BY <1>1, <1>6
  <2>5. \A i \in 1 .. Unit : d.bufPos + (k - 1) * Unit + i = from + i - 1
    BY <1>1, <2>4
  <2> HIDE DEF from, to, len, n
  <2>3. \A i \in from .. to : d.buf[i] \in Cell
    BY <1>1, <2>2, ElementOfSeq DEF len
  <2>6. /\ SubSeq(d.buf, from, to) \in Seq(Cell)
        /\ \A i \in 1 .. Unit : SubSeq(d.buf, from, to)[i] = d.buf[from + i - 1]
    BY <2>2, <2>3, SubSeqProperties
  <2>7. \A i \in 1 .. Unit : from + i - 1 \in 1 .. len
    BY <1>1, <2>2
  <2> QED
    BY <2>1, <2>5, <2>6, <2>7
<1>7. Cut(d) \in Seq(Seq(Cell)) /\ Len(Cut(d)) = n
  <2> HIDE DEF n
  <2> QED
    BY <1>2, <1>3, <1>6
<1>8. /\ Rest(d) \in Seq(Cell) /\ Len(Rest(d)) = rest
      /\ \A i \in 1 .. rest : Rest(d)[i] = d.buf[len - rest + i]
  <2>1. CASE ~d.known
    BY <1>4, <2>1
  <2>2. CASE d.known
    <3>1. rest <= len
      <4> HIDE DEF n, rest, len
      <4>1. n * Unit \in Nat
        BY <1>1, <1>2
      <4> QED
        BY <1>1, <1>2, <2>2, <4>1
    <3> HIDE DEF n, rest, len
    <3>2. \A i \in len - rest + 1 .. len : d.buf[i] \in Cell
      BY <1>1, <1>2, <3>1, ElementOfSeq DEF len
    <3>3. len - rest + 1 \in Int /\ len \in Int /\ len - (len - rest + 1) + 1 = rest
      BY <1>1, <1>2
    <3>4. /\ SubSeq(d.buf, len - rest + 1, len) \in Seq(Cell)
          /\ Len(SubSeq(d.buf, len - rest + 1, len))
                = IF len - rest + 1 <= len THEN len - (len - rest + 1) + 1 ELSE 0
          /\ \A i \in 1 .. len - (len - rest + 1) + 1 :
               SubSeq(d.buf, len - rest + 1, len)[i] = d.buf[(len - rest + 1) + i - 1]
      BY <3>2, <3>3, SubSeqProperties
    <3>5. \A i \in 1 .. rest : (len - rest + 1) + i - 1 = len - rest + i
      BY <1>1, <1>2
    <3>6. (IF len - rest + 1 <= len THEN rest ELSE 0) = rest
      BY <1>1, <1>2
    <3> QED
      BY <1>4, <2>2, <3>3, <3>4, <3>5, <3>6
  <2> QED
    BY <2>1, <2>2
<1> HIDE DEF m, n, rest, len
<1> QED
  BY <1>2, <1>6, <1>7, <1>8 DEF m, n, rest, len

\* How many units a block with a known size is cut into.
LEMMA CutLength ==
  ASSUME NEW d \in Loops, d.known, d.bufPos \in 0 .. Len(d.buf)
  PROVE  Len(Cut(d)) = (Len(d.buf) - d.bufPos) \div Unit
BY Cutting

\* What Process makes of the time and the loop, by what was written.
Outcome(d, wrote, failed, size) ==
  /\ waited' = IF wrote THEN 0 ELSE waited
  /\ loop' = IF Leaves(d, wrote, failed)
             THEN [d EXCEPT !.running = FALSE, !.broken = wrote /\ failed]
             ELSE [d EXCEPT !.buf = Rest(d), !.bufSize = size]

LEMMA ProcessOutcome ==
  ASSUME NEW d, Process(d)
  PROVE  \E wrote \in BOOLEAN, failed \in BOOLEAN, size \in BufSizes : Outcome(d, wrote, failed, size)
<1>1. \E wrote \in IF Cut(d) = << >> THEN {FALSE} ELSE BOOLEAN, failed \in BOOLEAN, size \in BufSizes :
        Outcome(d, wrote, failed, size)
  BY DEF Process, Outcome
<1> QED
  BY <1>1

\* Processing a block leaves the loop, or its rest for the next one.
LEMMA Processing ==
  ASSUME NEW d \in Loops, d.bufPos \in 0 .. Len(d.buf), Process(d),
         waited \in 0 .. Timeout, out \in Seq(Seq(Cell))
  PROVE  /\ loop' \in Loops /\ waited' \in 0 .. Timeout
         /\ out' = out \o Cut(d) /\ out' \in Seq(Seq(Cell))
         /\ loop'.mode = d.mode /\ loop'.known = d.known
         /\ loop'.filePos = d.filePos /\ loop'.offset = d.offset
         /\ ~loop'.running \/ (~d.completed /\ loop'.buf = Rest(d))
<1>1. Cut(d) \in Seq(Seq(Cell)) /\ Rest(d) \in Seq(Cell)
  BY Cutting
<1>2. out' = out \o Cut(d) /\ out' \in Seq(Seq(Cell))
  BY <1>1, ConcatProperties DEF Process
<1>3. PICK wrote \in BOOLEAN, failed \in BOOLEAN, size \in BufSizes :
        Outcome(d, wrote, failed, size)
  BY ProcessOutcome
<1>4. waited' \in 0 .. Timeout
  BY <1>3, Constants DEF Outcome
<1>5. CASE loop' = [d EXCEPT !.running = FALSE, !.broken = wrote /\ failed]
  <2> DEFINE broken == wrote /\ failed
  <2>1. broken \in BOOLEAN /\ loop' = [d EXCEPT !.running = FALSE, !.broken = broken]
    BY <1>5
  <2> HIDE DEF broken
  <2> QED
    BY <1>2, <1>4, <2>1 DEF Loops
<1>6. CASE ~d.completed /\ loop' = [d EXCEPT !.buf = Rest(d), !.bufSize = size]
  BY <1>1, <1>2, <1>4, <1>6 DEF Loops
<1> QED
  BY <1>3, <1>5, <1>6 DEF Outcome, Leaves

-----------------------------------------------------------------------------
(* Type correctness.                                                       *)

LEMMA NoOffsets == Offsets(<< >>) = {}
<1>1. Min({Unit, 0}) = 0
  BY MinOfTwo, Constants
<1> QED
  BY <1>1 DEF Offsets

\* What ReadBlock leaves is of the type of the loop, and fits in the buffer.
LEMMA BlockTypes ==
  ASSUME Types, loop.running, NEW n \in Reads
  PROVE  LET l == ReadBlock(n)
         IN  /\ l \in Loops /\ l.running
             /\ l.mode = loop.mode \/ (loop.mode = 1 /\ l.mode = 0)
             /\ l.mode = 1 /\ l.known => l.filePos >= 1
             /\ l.bufPos \in {-1, 0} /\ (l.bufPos = 0 => l.known)
             /\ Len(l.buf) # BufMax(loop) => Len(l.buf) < BufMax(l)
             /\ l.mode = 1 /\ (Len(l.buf) = BufMax(loop) \/ l.completed) =>
                  FirstMissed(l) \/ NextMissed(l, n) \/ NextFound(l, n)
<1> DEFINE l == ReadBlock(n)
<1>1. /\ l \in Loops /\ l.running /\ l.bufSize = loop.bufSize
      /\ \/ loop.mode # 1 /\ (Unread(l) \/ Read(l, n))
         \/ loop.mode = 1 /\ (\/ Ended(l) \/ Read(l, n) \/ FirstMissed(l) \/ FirstFound(l, n)
                             \/ NextMissed(l, n) \/ NextFound(l, n))
  BY NormalCases, PreallocatedCases
<1>2. /\ loop \in Loops /\ Len(loop.buf) \in Nat /\ BufMax(loop) \in Nat /\ Len(loop.buf) < BufMax(loop)
      /\ BufMax(l) \in Nat /\ BufMax(l) > 1 /\ BufMax(loop) > 1 /\ l.filePos \in Nat
      /\ loop.mode = 1 /\ loop.known => loop.filePos >= 1
  <2>1. Len(loop.buf) \in Nat /\ l.filePos \in Nat /\ loop \in Loops
    BY <1>1, LenProperties DEF Types, Loops
  <2>2. BufMax(loop) \in Nat /\ BufMax(l) \in Nat /\ BufMax(loop) > Unit /\ BufMax(l) > Unit
    BY <1>1, <2>1, BufMaxBounds
  <2> QED
    BY <2>1, <2>2, Constants DEF Types
<1> HIDE DEF l
<1>3. CASE Unread(l)
  <2>1. BufMax(l) = BufMax(loop)
    BY <1>1, <1>3 DEF Unread, BufMax
  <2>2. l.mode # 1
    BY <1>3 DEF Unread
  <2> QED
    BY <1>1, <1>2, <1>3, <2>1, <2>2 DEF Unread, l
<1>4. CASE Read(l, n)
  <2>1. BufMax(l) = BufMax(loop)
    BY <1>1, <1>4 DEF Read, BufMax
  <2>2. Len(l.buf) = Len(loop.buf) + n /\ n \in Nat \ {0}
    BY <1>4, FilledType DEF Read
  <2>3. n <= BufMax(loop) - Len(loop.buf)
    BY <2>2, ReadBounds
  <2>4. l.mode = 1 /\ l.known => l.filePos >= 1
    BY <1>2, <1>4 DEF Read, Loops
  <2>5. Len(l.buf) # BufMax(loop) => Len(l.buf) < BufMax(l)
    BY <1>2, <2>1, <2>2, <2>3
  <2> QED
    BY <1>1, <1>4, <2>4, <2>5 DEF Read, l
<1>5. CASE Ended(l)
  <2>1. BufMax(l) >= BufMax(loop)
    <3> DEFINE full == (loop.bufSize \div Unit) * Unit
    <3>1. loop.bufSize \in Nat
      BY <1>2, Constants DEF Loops
    <3>2. full \in Nat
      BY <3>1, Division, Constants
    <3>3. BufMax(loop) = IF ~loop.known THEN loop.bufSize ELSE full - (Unit - 1)
      BY <1>5 DEF BufMax, Ended
    <3>4. BufMax(l) = IF ~loop.known THEN loop.bufSize ELSE full - 0
      BY <1>1, <1>5 DEF BufMax, Ended
    <3> HIDE DEF full
    <3> QED
      BY <3>1, <3>2, <3>3, <3>4, Constants
  <2>2. l.bufPos = -1
    BY <1>5 DEF Ended
  <2> QED
    BY <1>1, <1>2, <1>5, <2>1, <2>2 DEF Ended, l
<1>6. CASE FirstMissed(l)
  <2>1. Len(l.buf) = 0
    BY <1>6 DEF FirstMissed
  <2> QED
    BY <1>1, <1>2, <1>6, <2>1 DEF FirstMissed, l
<1>7. CASE FirstFound(l, n)
  <2>1. Len(l.buf) = 1
    BY <1>7 DEF FirstFound
  <2>2. Len(loop.buf \o Cells(n)) \in Nat /\ l.filePos >= 1
    <3> DEFINE b == loop.buf \o Cells(n)
               o == Min(Offsets(b))
    <3>1. n \in Nat \ {0} /\ o + 1 \in 1 .. Len(b) /\ l.filePos = loop.filePos + o + 1
      BY <1>7 DEF FirstFound
    <3>2. Len(b) \in Nat
      BY <1>2, <3>1, FilledType
    <3>3. loop.filePos \in Nat
      BY <1>2 DEF Loops
    <3>4. o \in Nat
      <4>1. b \in Seq(Cell)
        BY <3>1, FilledType DEF Loops
      <4>2. Offsets(b) # {}
        BY <1>7 DEF FirstFound
      <4> QED
        BY <4>1, <4>2, OffsetsShape
    <3> HIDE DEF o
    <3> QED
      BY <3>1, <3>2, <3>3, <3>4
  <2> QED
    BY <1>1, <1>2, <1>7, <2>1, <2>2 DEF FirstFound, l
<1>8. CASE NextMissed(l, n)
  <2>1. Len(l.buf) = 1
    BY <1>8 DEF NextMissed
  <2> QED
    BY <1>1, <1>2, <1>8, <2>1 DEF NextMissed, l
<1>9. CASE NextFound(l, n)
  <2>1. n \in Nat \ {0} /\ l.buf = loop.buf \o Cells(n) /\ Len(loop.buf) + n = BufMax(loop)
    BY <1>9 DEF NextFound
  <2>2. Len(l.buf) = BufMax(loop)
    BY <2>1, FilledType
  <2>3. l.filePos = loop.filePos + Len(l.buf) - 1 /\ l.filePos >= 1
    <3>1. l.filePos = loop.filePos + Len(l.buf) - 1 /\ loop.filePos >= 1
      BY <1>2, <1>9 DEF NextFound
    <3> QED
      BY <1>2, <2>2, <3>1 DEF Loops
  <2> QED
    BY <1>1, <1>2, <1>9, <2>2, <2>3 DEF NextFound, l
<1> QED
  BY <1>1, <1>3, <1>4, <1>5, <1>6, <1>7, <1>8, <1>9

\* The block that is processed: in sync from bufPos on, as far as was looked at.
Located(l) == IF l.bufPos < 0 THEN Resync(l) ELSE l

LEMMA LocatedType ==
  ASSUME NEW l \in Loops, l.bufPos \in {-1, 0}
  PROVE  LET d == Located(l)
         IN  /\ d \in Loops /\ d.bufPos \in 0 .. Len(d.buf)
             /\ d.buf = l.buf /\ d.mode = l.mode /\ d.filePos = l.filePos /\ d.offset = l.offset
             /\ d.completed = l.completed
             /\ l.bufPos = 0 => d = l
             /\ l.bufPos = -1 => /\ d.known = (l.known \/ Offsets(l.buf) # {})
                                 /\ d.bufPos = IF Offsets(l.buf) = {} THEN Len(l.buf)
                                               ELSE Min(Offsets(l.buf))
<1>1. CASE l.bufPos = 0
  <2>1. Len(l.buf) \in Nat
    BY LenProperties DEF Loops
  <2> QED
    BY <1>1, <2>1 DEF Located
<1>2. CASE l.bufPos = -1
  <2> DEFINE r == Resync(l)
  <2>1. /\ r \in Loops /\ r = [l EXCEPT !.known = r.known, !.bufPos = r.bufPos]
        /\ r.known = (l.known \/ Offsets(l.buf) # {})
        /\ r.bufPos = IF Offsets(l.buf) = {} THEN Len(l.buf) ELSE Min(Offsets(l.buf))
        /\ r.bufPos \in 0 .. Len(l.buf)
    BY ResyncType
  <2>2. Located(l) = r
    BY <1>2 DEF Located
  <2> HIDE DEF r
  <2>3. /\ r.buf = l.buf /\ r.mode = l.mode /\ r.filePos = l.filePos /\ r.offset = l.offset
        /\ r.completed = l.completed
    BY <2>1 DEF Loops
  <2> QED
    BY <1>2, <2>1, <2>2, <2>3
<1> QED
  BY <1>1, <1>2

\* An iteration reads a block and, unless it needs more, processes it.
LEMMA Iterating ==
  ASSUME Iterate
  PROVE  /\ loop.running /\ UNCHANGED <<input, file>>
         /\ \E n \in Reads :
              LET l == ReadBlock(n)
              IN  \/ /\ Len(l.buf) # BufMax(loop) /\ ~l.completed
                     /\ loop' = l /\ UNCHANGED <<waited, out>>
                  \/ /\ Len(l.buf) = BufMax(loop) \/ l.completed
                     /\ Process(Located(l))
<1>1. PICK n \in Reads : \E l \in {ReadBlock(n)} :
        IF Len(l.buf) = BufMax(loop) \/ l.completed
        THEN \E located \in {IF l.bufPos < 0 THEN Resync(l) ELSE l} : Process(located)
        ELSE loop' = l /\ UNCHANGED <<waited, out>>
  BY DEF Iterate
<1> DEFINE l == ReadBlock(n)
<1>2. IF Len(l.buf) = BufMax(loop) \/ l.completed
      THEN Process(Located(l))
      ELSE loop' = l /\ UNCHANGED <<waited, out>>
  BY <1>1 DEF Located
<1> HIDE DEF l
<1>3. \/ /\ Len(l.buf) # BufMax(loop) /\ ~l.completed
         /\ loop' = l /\ UNCHANGED <<waited, out>>
      \/ /\ Len(l.buf) = BufMax(loop) \/ l.completed
         /\ Process(Located(l))
  BY <1>2
<1>4. loop.running /\ UNCHANGED <<input, file>>
  BY DEF Iterate
<1> QED
  BY <1>3, <1>4 DEF l

LEMMA TypesIterate ==
  ASSUME Types, Iterate
  PROVE  Types'
<1>1. loop.running /\ UNCHANGED <<input, file>>
  BY Iterating
<1>2. PICK n \in Reads :
        LET l == ReadBlock(n)
        IN  \/ /\ Len(l.buf) # BufMax(loop) /\ ~l.completed
               /\ loop' = l /\ UNCHANGED <<waited, out>>
            \/ /\ Len(l.buf) = BufMax(loop) \/ l.completed
               /\ Process(Located(l))
  BY Iterating
<1> DEFINE l == ReadBlock(n)
<1>3. /\ l \in Loops /\ l.running
      /\ l.mode = loop.mode \/ (loop.mode = 1 /\ l.mode = 0)
      /\ l.mode = 1 /\ l.known => l.filePos >= 1
      /\ l.bufPos \in {-1, 0} /\ (l.bufPos = 0 => l.known)
      /\ Len(l.buf) # BufMax(loop) => Len(l.buf) < BufMax(l)
      /\ l.mode = 1 /\ (Len(l.buf) = BufMax(loop) \/ l.completed) =>
           FirstMissed(l) \/ NextMissed(l, n) \/ NextFound(l, n)
  BY <1>1, BlockTypes
<1>4. SUFFICES /\ loop' \in Loops
               /\ loop'.mode = l.mode
               /\ loop'.mode = 1 /\ loop'.known => loop'.filePos >= 1
               /\ loop'.running => Len(loop'.buf) < BufMax(loop')
               /\ waited' \in 0 .. Timeout /\ out' \in Seq(Seq(Cell))
  <2> HIDE DEF l
  <2> QED
    BY <1>1, <1>3, <1>4 DEF Types
<1>5. CASE /\ Len(l.buf) # BufMax(loop) /\ ~l.completed
           /\ loop' = l /\ UNCHANGED <<waited, out>>
  <2> HIDE DEF l
  <2>1. BufMax(loop') = BufMax(l)
    BY <1>5 DEF BufMax
  <2> QED
    BY <1>3, <1>5, <2>1 DEF Types
<1>6. CASE /\ Len(l.buf) = BufMax(loop) \/ l.completed
           /\ Process(Located(l))
  <2> DEFINE d == Located(l)
  <2> HIDE DEF l
  <2>1. /\ d \in Loops /\ d.bufPos \in 0 .. Len(d.buf)
        /\ d.buf = l.buf /\ d.mode = l.mode /\ d.filePos = l.filePos
        /\ l.bufPos = 0 => d = l
        /\ l.bufPos = -1 => d.known = (l.known \/ Offsets(l.buf) # {})
    BY <1>3, LocatedType
  <2>2. Process(d)
    BY <1>6
  <2> HIDE DEF d
  <2>3. /\ loop' \in Loops /\ waited' \in 0 .. Timeout /\ out' \in Seq(Seq(Cell))
        /\ loop'.mode = d.mode /\ loop'.known = d.known /\ loop'.filePos = d.filePos
        /\ ~loop'.running \/ loop'.buf = Rest(d)
    BY <2>1, <2>2, Processing DEF Types
  <2>4. d.mode = 1 /\ d.known => l.known
    <3>1. l.mode = 1 => FirstMissed(l) \/ NextMissed(l, n) \/ NextFound(l, n)
      BY <1>3, <1>6
    <3>2. NextMissed(l, n) \/ NextFound(l, n) => l.known
      BY DEF NextMissed, NextFound
    <3>3. FirstMissed(l) => ~d.known
      BY <2>1, NoOffsets DEF FirstMissed
    <3> QED
      BY <2>1, <3>1, <3>2, <3>3
  <2>5. loop'.running => Len(loop'.buf) < BufMax(loop')
    <3>1. Len(Rest(d)) \in 0 .. Unit - 1
      BY <2>1, Cutting
    <3>2. BufMax(loop') \in Nat /\ BufMax(loop') > Unit
      BY <2>3, BufMaxBounds
    <3> QED
      BY <2>3, <3>1, <3>2, Constants
  <2> QED
    BY <1>3, <2>1, <2>3, <2>4, <2>5
<1> QED
  BY <1>2, <1>5, <1>6

LEMMA TypesStep ==
  ASSUME Types, [Next]_vars
  PROVE  Types'
<1>1. CASE Iterate
  BY <1>1, TypesIterate
<1>2. CASE Write
  <2>1. PICK w \in file.written + 1 .. Total :
          file' = [file EXCEPT !.written = w, !.size = Size(w, file.size)]
    BY <1>2 DEF Write
  <2>2. /\ file \in [written : 0 .. Total, size : Nat, open : BOOLEAN] /\ file.size >= file.written
        /\ input.mode # 1 => file.size = file.written
        /\ input.mode = 1 /\ Grows = FALSE => file.size = Total + Spare
    BY DEF Types
  <2>3. file.written \in 0 .. Total /\ file.size \in Nat
    BY <2>2
  <2> DEFINE s == Size(w, file.size)
  <2>4. w \in 0 .. Total /\ s \in Nat /\ s >= w
        /\ (input.mode # 1 => s = w) /\ (input.mode = 1 /\ Grows = FALSE => s = Total + Spare)
    <3>1. w \in 0 .. Total
      BY <2>1, <2>3, Constants
    <3>2. s = IF input.mode # 1 THEN w ELSE IF w > file.size THEN w + Spare ELSE file.size
      BY DEF Size
    <3> QED
      BY <2>2, <2>3, <3>1, <3>2, Constants
  <2> HIDE DEF s
  <2>5. /\ file' \in [written : 0 .. Total, size : Nat, open : BOOLEAN]
        /\ file'.written = w /\ file'.size = s
    BY <2>1, <2>2, <2>4 DEF s
  <2>6. UNCHANGED <<input, loop, waited, out>>
    BY <1>2 DEF Write
  <2>7. BufMax(loop)' = BufMax(loop)
    BY <2>6 DEF BufMax
  <2> QED
    BY <2>4, <2>5, <2>6, <2>7 DEF Types
<1>3. CASE Open \/ Close
  <2>1. /\ UNCHANGED <<input, loop, waited, out>>
        /\ file' = [file EXCEPT !.open = TRUE] \/ file' = [file EXCEPT !.open = FALSE]
    BY <1>3 DEF Open, Close
  <2>2. BufMax(loop)' = BufMax(loop)
    BY <2>1 DEF BufMax
  <2>3. /\ file' \in [written : 0 .. Total, size : Nat, open : BOOLEAN]
        /\ file'.written = file.written /\ file'.size = file.size
    BY <2>1 DEF Types
  <2> QED
    BY <2>1, <2>2, <2>3 DEF Types
<1>4. CASE Tick
  <2>1. UNCHANGED <<input, file, loop, out>> /\ waited < Timeout /\ waited' = waited + 1
    BY <1>4 DEF Tick
  <2>2. waited' \in 0 .. Timeout
    BY <2>1, Constants DEF Types
  <2>3. BufMax(loop)' = BufMax(loop)
    BY <2>1 DEF BufMax
  <2> QED
    BY <2>1, <2>2, <2>3 DEF Types
<1>5. CASE UNCHANGED vars
  <2>1. UNCHANGED <<input, file, loop, waited, out>>
    BY <1>5 DEF vars
  <2>2. BufMax(loop)' = BufMax(loop)
    BY <2>1 DEF BufMax
  <2> QED
    BY <2>1, <2>2 DEF Types
<1> QED
  BY <1>1, <1>2, <1>3, <1>4, <1>5 DEF Next

LEMMA TypesInit == Init => Types
<1> SUFFICES ASSUME Init PROVE Types
  OBVIOUS
<1>1. PICK i \in Inputs, start \in Starts, size \in BufSizes :
        /\ i.pipe => start = 0
        /\ input = [mode |-> i.mode, pipe |-> i.pipe, timed |-> i.timed, start |-> start]
        /\ loop = [mode |-> i.mode, known |-> FALSE, buf |-> << >>, filePos |-> start,
                   offset |-> start, bufSize |-> size, connected |-> FALSE, bufPos |-> -1,
                   retry |-> FALSE, completed |-> FALSE, running |-> TRUE,
                   broken |-> FALSE]
  BY DEF Init
<1>2. /\ i.mode \in {0, 1, 2} /\ (i.mode = 1 => ~i.pipe) /\ start \in Nat
      /\ size \in Nat /\ size >= 2 * Unit
  BY ReadAssumption, Constants DEF ReadAssumption
<1>3. loop \in Loops /\ loop.bufSize = size /\ ~loop.known /\ loop.mode = i.mode
  <2>1. << >> \in Seq(Cell) /\ -1 \in Int
    OBVIOUS
  <2> QED
    BY <1>1, <1>2, <2>1 DEF Loops
<1>4. BufMax(loop) = size
  BY <1>3 DEF BufMax
<1>5. loop.running => Len(loop.buf) < BufMax(loop)
  BY <1>1, <1>2, <1>4, Constants
<1>6. /\ file \in [written : 0 .. Total, size : Nat, open : BOOLEAN] /\ file.size >= file.written
      /\ input.mode # 1 => file.size = file.written
      /\ input.mode = 1 /\ Grows = FALSE => file.size = Total + Spare
  BY <1>1, <1>2, Constants DEF Init
<1>7. waited \in 0 .. Timeout /\ out \in Seq(Seq(Cell))
  BY Constants DEF Init
<1>8. input.mode = i.mode /\ input.start = start /\ (input.mode = 1 => ~input.pipe)
  BY <1>1, <1>2
<1> QED
  BY <1>2, <1>3, <1>5, <1>6, <1>7, <1>8 DEF Types

\* The loop stays within its types: the buffer is never full between two iterations, so
\* that every read asks for something, and the positions stay positions of the input.
THEOREM ReadLoopTypes == Spec => []TypeOK
<1>1. Init => Types
  BY TypesInit
<1>2. Types /\ [Next]_vars => Types'
  BY TypesStep
<1>3. Types => TypeOK
  <2> SUFFICES ASSUME Types PROVE TypeOK
    OBVIOUS
  <2>1. loop.mode \in 0 .. 2 /\ loop.bufSize \in BufSizes /\ loop.filePos \in Nat /\ loop.offset \in Nat
    BY DEF Types, Loops
  <2>2. file.written \in 0 .. Total /\ file.size >= file.written
    BY DEF Types
  <2> QED
    BY <2>1, <2>2 DEF Types, TypeOK
<1> QED
  BY <1>1, <1>2, <1>3, PTL DEF Spec

-----------------------------------------------------------------------------
(* The order of the packets.  In mode 1 the invariant is about the time    *)
(* before the end of the file is met, and a file that is not made longer.  *)

Straight == input.mode = 1 => loop.mode = 1 /\ Grows = FALSE

\* The bytes of the buffer are those of the input before the position of the descriptor.
Consecutive(l) ==
  \A i \in 1 .. Len(l.buf) : l.buf[i].pos = l.offset - Len(l.buf) + i - 1

Intact(l) == \A i \in 1 .. Len(l.buf) : l.buf[i].ok

\* The buffer begins behind the k packets passed on; in mode 1 filePos is behind its sync
\* byte, and a buffer that holds more has met the end of the file.
Placed(l, k) ==
  /\ l.offset - Len(l.buf) = (IF l.known THEN FirstPos + k * Unit ELSE input.start)
  /\ ~l.known => k = 0
  /\ Consecutive(l)
  /\ l.mode # 1 => l.filePos = l.offset /\ Intact(l)
  /\ l.mode = 1 =>
       /\ l.filePos = l.offset - Len(l.buf) + (IF l.known THEN 1 ELSE 0)
       /\ l.known => Len(l.buf) >= 1 /\ l.buf[1].ok
       /\ Len(l.buf) > (IF l.known THEN 1 ELSE 0) => l.offset >= file.size

Passed(o) ==
  \A k \in DOMAIN o : \A i \in 1 .. Unit :
    o[k][i] = [pos |-> FirstPos + (k - 1) * Unit + i - 1, ok |-> TRUE]

Order ==
  Straight =>
    /\ Passed(out)
    /\ loop.running => Placed(loop, Len(out))
    /\ ~loop.running /\ input.mode # 1 => Len(out) = Whole(loop.offset)

LEMMA Distribution ==
  ASSUME NEW a \in Int, NEW b \in Int
  PROVE  (a + b) * Unit = a * Unit + b * Unit
BY Constants

LEMMA MultipleSum ==
  ASSUME NEW a \in Nat, NEW b \in Nat, a % Unit = 0, b % Unit = 0
  PROVE  (a + b) % Unit = 0
<1> DEFINE p == a \div Unit
           q == b \div Unit
<1>1. p \in Nat /\ q \in Nat /\ a = p * Unit + 0 /\ b = q * Unit + 0
  BY Division
<1> HIDE DEF p, q
<1>2. p + q \in Nat /\ p * Unit \in Int /\ q * Unit \in Int /\ (p + q) * Unit = p * Unit + q * Unit
  BY <1>1, Distribution, Constants
<1>3. a + b = (p + q) * Unit + 0
  BY <1>1, <1>2
<1>4. ((p + q) * Unit + 0) % Unit = 0
  BY <1>2, DivisionUnique, Constants
<1> QED
  BY <1>3, <1>4

\* Within the length of a packet only one packet begins.
LEMMA OneStart ==
  ASSUME NEW s \in Nat, NEW f \in Nat, NEW p \in Nat,
         f % Unit = 0, s <= f, f < s + Unit, p % Unit = 0, s <= p, p < s + Unit
  PROVE  p = f
<1>1. p > f => p >= f + Unit
  BY NextMultiple
<1>2. f > p => f >= p + Unit
  BY NextMultiple
<1> QED
  BY <1>1, <1>2, Constants

LEMMA PlaceBehind ==
  ASSUME NEW f \in Nat, NEW s \in Nat, s <= f, NEW c \in Nat, NEW i \in f - s + 1 .. c
  PROVE  i - 1 - (f - s) \in Nat /\ f + (i - 1 - (f - s)) = s + i - 1 /\ i \in 1 .. c
OBVIOUS

\* A block of written bytes is in sync at the first packet that begins in it.
LEMMA OffsetsPlaced ==
  ASSUME NEW l \in Loops, Consecutive(l), Intact(l), NEW s \in Nat, NEW f \in Nat,
         s = l.offset - Len(l.buf), f % Unit = 0, s <= f, f < s + Unit
  PROVE  Offsets(l.buf) = IF f - s < Len(l.buf) THEN {f - s} ELSE {}
<1> DEFINE c == Len(l.buf)
           m == Min({Unit, c})
<1>1. c \in Nat /\ Unit \in Nat /\ Unit >= 2
  BY LenProperties, Constants DEF Loops
<1>2. m \in Nat /\ m <= c /\ m <= Unit /\ (m = c \/ m = Unit)
  BY SMTT(30), <1>1, MinOfTwo
<1>3. \A o : o \in Offsets(l.buf) <=>
        /\ o \in 0 .. m - 1
        /\ \A i \in o + 1 .. c : (i - 1 - o) % Unit = 0 => Sync(l.buf[i])
  BY DEF Offsets
<1>4. \A i \in 1 .. c : Sync(l.buf[i]) <=> (s + i - 1) % Unit = 0
  BY DEF Consecutive, Intact, Sync
<1> HIDE DEF m, c
<1>5. ASSUME NEW o \in Offsets(l.buf)
      PROVE  o = f - s /\ f - s < c
  <2>1. o \in 0 .. m - 1
    BY <1>3, <1>5
  <2>2. o + 1 \in o + 1 .. c /\ o + 1 \in 1 .. c /\ (o + 1 - 1 - o) = 0
    BY <1>1, <1>2, <2>1
  <2>3. 0 % Unit = 0
    <3>1. (0 * Unit + 0) % Unit = 0
      BY DivisionUnique, Constants
    <3> QED
      BY <1>1, <3>1
  <2>4. Sync(l.buf[o + 1])
    BY <1>3, <1>5, <2>2, <2>3
  <2>5. (s + (o + 1) - 1) % Unit = 0 /\ s + (o + 1) - 1 = s + o
    BY <1>4, <2>1, <2>2, <2>4
  <2>6. s + o \in Nat /\ s <= s + o /\ s + o < s + Unit
    BY <1>1, <1>2, <2>1
  <2>7. s + o = f
    BY <2>5, <2>6, OneStart
  <2> QED
    BY <1>1, <1>2, <2>1, <2>7
<1>6. ASSUME f - s < c
      PROVE  f - s \in Offsets(l.buf)
  <2>1. f - s \in 0 .. m - 1
    BY <1>1, <1>2, <1>6
  <2>2. ASSUME NEW i \in f - s + 1 .. c, (i - 1 - (f - s)) % Unit = 0
        PROVE  Sync(l.buf[i])
    <3> DEFINE b == i - 1 - (f - s)
    <3>1. b \in Nat /\ f + b = s + i - 1 /\ i \in 1 .. c
      BY SMTT(30), <1>1, PlaceBehind
    <3>2. (f + b) % Unit = 0
      <4>1. b % Unit = 0
        BY <2>2
      <4> HIDE DEF b
      <4> QED
        BY <3>1, <4>1, MultipleSum
    <3> QED
      BY <1>4, <3>1, <3>2
  <2> QED
    BY <1>3, <2>1, <2>2
<1> QED
  BY <1>5, <1>6 DEF c

LEMMA WholePackets ==
  ASSUME input.start \in Nat, NEW q \in Nat, NEW r \in 0 .. Unit - 1
  PROVE  Whole(FirstPos + q * Unit + r) = q
<1>1. FirstPos \in Nat
  BY FirstPosition
<1>2. q * Unit \in Nat /\ r \in Nat
  BY Constants
<1> DEFINE end == FirstPos + q * Unit + r
<1>3. end >= FirstPos /\ end - FirstPos = q * Unit + r
  BY <1>1, <1>2
<1>4. (q * Unit + r) \div Unit = q
  BY DivisionUnique
<1>5. Whole(end) = IF end < FirstPos THEN 0 ELSE (end - FirstPos) \div Unit
  BY DEF Whole
<1> HIDE DEF end
<1>6. Whole(end) = q
  BY <1>1, <1>2, <1>3, <1>4, <1>5 DEF end
<1> QED
  BY <1>6 DEF end

\* The first packet of the block is the one after those passed on.
Follows(d) == d.offset - Len(d.buf) + d.bufPos = FirstPos + Len(out) * Unit

\* A block that begins behind the packets passed on is cut into those that follow, and
\* what remains begins behind them.
LEMMA PassedOn ==
  ASSUME Types, NEW d \in Loops, d.known, d.bufPos \in 0 .. Len(d.buf), Consecutive(d), Intact(d),
         Follows(d), Passed(out)
  PROVE  /\ Passed(out \o Cut(d)) /\ Len(out \o Cut(d)) \in Nat
         /\ d.offset = FirstPos + Len(out \o Cut(d)) * Unit + Len(Rest(d))
         /\ Len(Rest(d)) \in 0 .. Unit - 1 /\ Len(Rest(d)) = (Len(d.buf) - d.bufPos) % Unit
         /\ \A i \in 1 .. Len(Rest(d)) : /\ Rest(d)[i].pos = d.offset - Len(Rest(d)) + i - 1
                                         /\ Rest(d)[i].ok
<1> DEFINE len == Len(d.buf)
           m == len - d.bufPos
           n == m \div Unit
           rest == m % Unit
           k == Len(out)
           s == d.offset - len
           c == Cut(d)
           r == Rest(d)
<1>1. /\ m \in Nat /\ n \in Nat /\ rest \in 0 .. Unit - 1 /\ m = n * Unit + rest
      /\ c \in Seq(Seq(Cell)) /\ Len(c) = n
      /\ \A j \in 1 .. n : \A i \in 1 .. Unit :
           /\ d.bufPos + (j - 1) * Unit + i \in 1 .. len
           /\ c[j][i] = d.buf[d.bufPos + (j - 1) * Unit + i]
      /\ r \in Seq(Cell) /\ Len(r) = rest
      /\ \A i \in 1 .. rest : r[i] = d.buf[len - rest + i]
  BY Cutting
<1>2. /\ len \in Nat /\ d.offset \in Nat /\ d.bufPos \in 0 .. len /\ k \in Nat /\ out \in Seq(Seq(Cell))
      /\ d.buf \in Seq(Cell) /\ DOMAIN out = 1 .. k
  BY LenProperties DEF Types, Loops
<1>3. FirstPos \in Nat /\ Unit \in Nat /\ Unit >= 2
  BY FirstPosition, Constants DEF Types
<1>4. \A i \in 1 .. len : d.buf[i] = [pos |-> s + i - 1, ok |-> TRUE]
  <2>1. ASSUME NEW i \in 1 .. len PROVE d.buf[i] = [pos |-> s + i - 1, ok |-> TRUE]
    <3>1. d.buf[i].pos = s + i - 1 /\ d.buf[i].ok
      BY DEF Consecutive, Intact
    <3>2. d.buf[i] \in Cell
      BY <1>2, ElementOfSeq
    <3> HIDE DEF s
    <3> QED
      BY <3>1, <3>2 DEF Cell
  <2> QED
    BY <2>1
<1>5. s + d.bufPos = FirstPos + k * Unit /\ s \in Int
  BY <1>2 DEF Follows
<1> HIDE DEF len, m, n, rest, k, s, c, r
<1>6. Len(out \o c) = k + n /\ (k + n) * Unit = k * Unit + n * Unit
      /\ k * Unit \in Int /\ n * Unit \in Int
  <2>1. Len(out \o c) = k + n
    BY <1>1, <1>2, ConcatProperties DEF k
  <2>2. (k + n) * Unit = k * Unit + n * Unit
    BY <1>1, <1>2, Distribution
  <2>3. k * Unit \in Int /\ n * Unit \in Int
    BY <1>1, <1>2, <1>3
  <2> QED
    BY <2>1, <2>2, <2>3
<1>7. d.offset = FirstPos + (k + n) * Unit + rest
  <2>1. d.offset = s + len /\ len = m + d.bufPos
    BY <1>2 DEF s, m
  <2> QED
    <3> DEFINE a == k * Unit
               b == n * Unit
    <3>1. (k + n) * Unit = a + b
      BY <1>6
    <3>2. s + d.bufPos = FirstPos + a
      BY <1>5
    <3>4. m = b + rest
      BY <1>1
    <3>5. a \in Int /\ b \in Int
      BY <1>6
    <3> HIDE DEF a, b
    <3>3. d.offset = FirstPos + (a + b) + rest
      <4>1. FirstPos \in Int /\ d.bufPos \in Int /\ rest \in Int /\ s \in Int
        BY <1>1, <1>2, <1>3, <1>5
      <4>2. s + ((b + rest) + d.bufPos) = FirstPos + (a + b) + rest
        BY <3>2, <3>5, <4>1
      <4> QED
        BY <2>1, <3>4, <4>2, Zenon
    <3> QED
      BY <3>1, <3>3
<1>8. ASSUME NEW j \in DOMAIN (out \o c), NEW i \in 1 .. Unit
      PROVE  (out \o c)[j][i] = [pos |-> FirstPos + (j - 1) * Unit + i - 1, ok |-> TRUE]
  <2>1. j \in 1 .. k + n /\ (out \o c)[j] = IF j <= k THEN out[j] ELSE c[j - k]
    BY <1>1, <1>2, <1>6, ConcatProperties DEF k
  <2>2. CASE j <= k
    <3>1. j \in DOMAIN out /\ (out \o c)[j] = out[j]
      BY <1>2, <2>1, <2>2
    <3>2. out[j][i] = [pos |-> FirstPos + (j - 1) * Unit + i - 1, ok |-> TRUE]
      BY <3>1 DEF Passed
    <3> QED
      BY <3>1, <3>2
  <2>3. CASE j > k
    <3> DEFINE q == j - k
               at == d.bufPos + (q - 1) * Unit + i
    <3>1. q \in 1 .. n
      BY <1>1, <1>2, <2>1, <2>3
    <3>2. at \in 1 .. len /\ c[q][i] = d.buf[at]
      BY <1>1, <3>1
    <3>3. (j - 1) * Unit = k * Unit + (q - 1) * Unit /\ (q - 1) * Unit \in Int
      <4>1. k \in Int /\ q - 1 \in Int /\ j - 1 = k + (q - 1)
        BY <1>2, <2>1, <3>1
      <4> HIDE DEF q
      <4>2. (k + (q - 1)) * Unit = k * Unit + (q - 1) * Unit
        BY <4>1, Distribution
      <4> QED
        BY <1>3, <4>1, <4>2
    <3>4. s + at - 1 = FirstPos + (j - 1) * Unit + i - 1
      <4> DEFINE a == (q - 1) * Unit
                 b == (j - 1) * Unit
                 e == k * Unit
      <4>1. a \in Int /\ e \in Int /\ s \in Int /\ d.bufPos \in Int /\ i \in Int /\ FirstPos \in Int
        BY SMTT(30), <1>2, <1>3, <1>5, <1>6, <3>3
      <4>2. s + d.bufPos = FirstPos + e
        BY <1>5
      <4>3. b = e + a
        BY <3>3
      <4>4. at = d.bufPos + a + i
        OBVIOUS
      <4> HIDE DEF a, b, e, at
      <4>5. s + (d.bufPos + a + i) - 1 = FirstPos + (e + a) + i - 1
        BY SMTT(30), <4>1, <4>2
      <4>6. s + at - 1 = FirstPos + b + i - 1
        BY <4>3, <4>4, <4>5, Zenon
      <4> QED
        BY <4>6 DEF b
    <3>5. ~(j <= k)
      BY <1>2, <2>1, <2>3
    <3> HIDE DEF at
    <3>6. d.buf[at] = [pos |-> s + at - 1, ok |-> TRUE]
      BY <1>4, <3>2
    <3> QED
      BY <2>1, <3>2, <3>4, <3>5, <3>6
  <2> QED
    BY <1>2, <2>1, <2>2, <2>3
<1>9. ASSUME NEW i \in 1 .. rest
      PROVE  r[i].pos = d.offset - rest + i - 1 /\ r[i].ok
  <2>1. rest <= len
    <3>1. n * Unit >= 0
      BY <1>1, <1>3
    <3> QED
      BY SMTT(30), <1>1, <1>2, <1>6, <3>1 DEF m
  <2>2. len - rest + i \in 1 .. len /\ s + (len - rest + i) - 1 = d.offset - rest + i - 1
    BY <1>1, <1>2, <1>3, <2>1 DEF s
  <2>3. r[i] = [pos |-> s + (len - rest + i) - 1, ok |-> TRUE]
    BY <1>1, <1>4, <2>2
  <2> QED
    BY <2>2, <2>3
<1>10. Passed(out \o c)
  BY <1>8 DEF Passed
<1>11. Len(out \o c) \in Nat /\ rest = m % Unit
  BY <1>1, <1>2, <1>6 DEF rest
<1>12. d.offset = FirstPos + Len(out \o c) * Unit + Len(r)
  BY Zenon, <1>1, <1>6, <1>7
<1>13. Len(r) \in 0 .. Unit - 1 /\ Len(r) = m % Unit
  BY Zenon, <1>1, <1>11
<1>14. \A i \in 1 .. Len(r) : r[i].pos = d.offset - Len(r) + i - 1 /\ r[i].ok
  BY Zenon, <1>1, <1>9
<1> QED
  BY Zenon, <1>10, <1>11, <1>12, <1>13, <1>14 DEF c, r, m, len

LEMMA WholeNone ==
  ASSUME input.start \in Nat, NEW e \in Nat, e <= FirstPos
  PROVE  Whole(e) = 0
<1>1. FirstPos \in Nat
  BY FirstPosition
<1>2. CASE e < FirstPos
  BY <1>2 DEF Whole
<1>3. CASE e = FirstPos
  <2>1. Whole(FirstPos + 0 * Unit + 0) = 0
    BY WholePackets, Constants
  <2>2. FirstPos + 0 * Unit + 0 = FirstPos
    BY <1>1, Constants
  <2> QED
    BY <1>3, <2>1, <2>2
<1> QED
  BY <1>1, <1>2, <1>3

\* A buffer that was read into.
LEMMA Appended ==
  ASSUME Types, NEW n \in Nat \ {0}, NEW l \in Loops,
         l.buf = loop.buf \o Cells(n), l.offset = loop.offset + n
  PROVE  /\ Len(l.buf) = Len(loop.buf) + n
         /\ l.offset - Len(l.buf) = loop.offset - Len(loop.buf)
         /\ \A i \in 1 .. Len(loop.buf) : l.buf[i] = loop.buf[i]
         /\ \A i \in 1 .. Len(l.buf) : i > Len(loop.buf) =>
              l.buf[i].ok = (loop.offset + (i - Len(loop.buf)) - 1 < file.written)
         /\ Consecutive(loop) => Consecutive(l)
<1> DEFINE c == Cells(n)
           b == loop.buf
           old == Len(b)
<1>1. b \in Seq(Cell) /\ old \in Nat /\ loop.offset \in Nat /\ file.written \in Nat
  BY LenProperties DEF Types, Loops
<1>2. /\ c \in Seq(Cell) /\ Len(c) = n
      /\ \A i \in 1 .. n : /\ c[i].pos = loop.offset + i - 1
                           /\ c[i].ok = (loop.offset + i - 1 < file.written)
  BY <1>1, CellsShape
<1>3. l.buf = b \o c
  OBVIOUS
<1> HIDE DEF c, b
<1>4. /\ Len(l.buf) = old + n
      /\ \A i \in 1 .. old + n : l.buf[i] = IF i <= old THEN b[i] ELSE c[i - old]
  <2>1. Len(b \o c) = Len(b) + Len(c)
    BY <1>1, <1>2, ConcatProperties
  <2>2. \A i \in 1 .. Len(b) + Len(c) : (b \o c)[i] = IF i <= Len(b) THEN b[i] ELSE c[i - Len(b)]
    BY <1>1, <1>2, ConcatProperties
  <2> QED
    BY <1>2, <1>3, <2>1, <2>2
<1> HIDE DEF old
<1>5. l.offset - Len(l.buf) = loop.offset - old
  BY <1>1, <1>4
<1>6. \A i \in 1 .. old : l.buf[i] = b[i]
  BY <1>1, <1>4
<1>7. ASSUME NEW i \in 1 .. old + n, i > old
      PROVE  /\ l.buf[i].ok = (loop.offset + (i - old) - 1 < file.written)
             /\ l.buf[i].pos = loop.offset + (i - old) - 1
  <2>1. l.buf[i] = c[i - old] /\ i - old \in 1 .. n
    BY <1>1, <1>4, <1>7
  <2> QED
    BY <1>2, <2>1
<1>8. ASSUME \A i \in 1 .. old : b[i].pos = loop.offset - old + i - 1, NEW i \in 1 .. old + n
      PROVE  l.buf[i].pos = loop.offset - old + i - 1
  <2>1. CASE i <= old
    <3>1. i \in 1 .. old
      BY <1>1, <2>1
    <3> QED
      BY <1>6, <1>8, <3>1
  <2>2. CASE i > old
    <3>1. l.buf[i].pos = loop.offset + (i - old) - 1
      BY <1>7, <2>2
    <3>2. loop.offset + (i - old) - 1 = loop.offset - old + i - 1
      BY <1>1
    <3> QED
      BY <3>1, <3>2
  <2>3. i <= old \/ i > old
    BY <1>1
  <2> QED
    BY <2>1, <2>2, <2>3
<1> QED
  BY <1>4, <1>5, <1>6, <1>7, <1>8 DEF Consecutive, b, old

\* Modes 0 and 2: what is read follows what is in the buffer, and has been written.
LEMMA ReadPlaced ==
  ASSUME Types, NEW k \in Nat, Placed(loop, k), NEW n \in Reads, NEW l \in Loops,
         loop.mode # 1, input.mode # 1, Unread(l) \/ Read(l, n)
  PROVE  Placed(l, k) /\ l.mode # 1 /\ l.known = loop.known
<1> DEFINE s == loop.offset - Len(loop.buf)
<1>1. /\ s = (IF loop.known THEN FirstPos + k * Unit ELSE input.start)
      /\ ~loop.known => k = 0
      /\ Consecutive(loop) /\ loop.filePos = loop.offset /\ Intact(loop)
  BY DEF Placed
<1>2. CASE Unread(l)
  <2>1. /\ l.offset = loop.offset /\ l.buf = loop.buf /\ l.known = loop.known /\ l.mode # 1
        /\ l.filePos = loop.filePos
    BY <1>1, <1>2 DEF Unread
  <2>2. Consecutive(l) /\ Intact(l)
    BY <1>1, <2>1 DEF Consecutive, Intact
  <2> QED
    BY <1>1, <2>1, <2>2 DEF Placed
<1>3. CASE Read(l, n)
  <2>1. /\ n \in Nat \ {0} /\ l.buf = loop.buf \o Cells(n) /\ l.known = loop.known /\ l.mode # 1
        /\ l.offset = loop.offset + n /\ l.filePos = loop.filePos + n
    BY <1>3 DEF Read
  <2>2. /\ Len(l.buf) = Len(loop.buf) + n /\ l.offset - Len(l.buf) = s
        /\ \A i \in 1 .. Len(loop.buf) : l.buf[i] = loop.buf[i]
        /\ \A i \in 1 .. Len(l.buf) : i > Len(loop.buf) =>
             l.buf[i].ok = (loop.offset + (i - Len(loop.buf)) - 1 < file.written)
        /\ Consecutive(l)
    BY <1>1, <2>1, Appended
  <2>3. /\ Len(loop.buf) \in Nat /\ loop.offset \in Nat /\ file.written \in Nat
        /\ file.size = file.written
    BY LenProperties DEF Types, Loops
  <2>4. n <= file.written - loop.offset
    BY <2>1, <2>3, ReadBounds
  <2>5. ASSUME NEW i \in 1 .. Len(l.buf)
        PROVE  l.buf[i].ok
    <3>1. CASE i <= Len(loop.buf)
      BY SMTT(30), <1>1, <2>2, <2>3, <3>1 DEF Intact
    <3>2. CASE i > Len(loop.buf)
      <4>1. loop.offset + (i - Len(loop.buf)) - 1 < file.written
        BY SMTT(30), <2>1, <2>2, <2>3, <2>4
      <4> QED
        BY <2>2, <3>2, <4>1
    <3> QED
      BY <2>3, <3>1, <3>2
  <2> HIDE DEF s
  <2> QED
    BY <1>1, <2>1, <2>2, <2>5 DEF Placed, Intact
<1> QED
  BY <1>2, <1>3

\* Modes 0 and 2: the block is processed from the packet after those passed on, or no
\* packet begins in it.
LEMMA ResyncPlaced ==
  ASSUME Types, NEW l \in Loops, l.mode # 1, l.bufPos = -1, Placed(l, Len(out))
  PROVE  LET d == Located(l)
         IN  \/ d.known /\ Consecutive(d) /\ Intact(d) /\ Follows(d)
             \/ /\ ~d.known /\ ~l.known /\ Len(out) = 0
                /\ l.offset <= FirstPos /\ Len(l.buf) < Unit
<1> DEFINE d == Located(l)
           c == Len(l.buf)
           k == Len(out)
           s == l.offset - c
<1>1. /\ d \in Loops /\ d.bufPos \in 0 .. Len(d.buf) /\ d.buf = l.buf /\ d.offset = l.offset
      /\ d.known = (l.known \/ Offsets(l.buf) # {})
      /\ d.bufPos = IF Offsets(l.buf) = {} THEN c ELSE Min(Offsets(l.buf))
  BY LocatedType
<1>2. /\ s = (IF l.known THEN FirstPos + k * Unit ELSE input.start)
      /\ ~l.known => k = 0
      /\ Consecutive(l) /\ Intact(l)
  BY DEF Placed
<1>3. /\ c \in Nat /\ k \in Nat /\ l.offset \in Nat /\ input.start \in Nat /\ l.known \in BOOLEAN
      /\ Unit \in Nat /\ Unit >= 2
  BY LenProperties, Constants DEF Types, Loops
<1>4. FirstPos \in Nat /\ FirstPos >= input.start /\ FirstPos < input.start + Unit
      /\ FirstPos % Unit = 0
  BY <1>3, FirstPosition
<1>5. Consecutive(d) /\ Intact(d)
  BY <1>1, <1>2 DEF Consecutive, Intact
<1> HIDE DEF d, c, k
<1>6. CASE l.known
  <2> DEFINE f == FirstPos + k * Unit
  <2>1. f \in Nat /\ f % Unit = 0
    <3>1. k * Unit \in Nat /\ (k * Unit) % Unit = 0
      <4>1. k * Unit \in Nat
        BY <1>3
      <4>2. (k * Unit + 0) % Unit = 0
        BY <1>3, DivisionUnique, 0 \in 0 .. Unit - 1
      <4> QED
        BY <4>1, <4>2
    <3>2. \A a \in Nat : a % Unit = 0 => (FirstPos + a) % Unit = 0
      BY <1>4, MultipleSum
    <3> QED
      BY <1>4, <3>1, <3>2
  <2>2. s = f
    BY <1>2, <1>6
  <2> HIDE DEF f
  <2>3. s \in Nat /\ f <= f /\ f < f + Unit /\ f - f = 0
    BY <1>3, <2>1, <2>2
  <2> HIDE DEF s
  <2>4. Offsets(l.buf) = IF 0 < c THEN {0} ELSE {}
    BY ZenonT(30), <1>2, <2>1, <2>2, <2>3, OffsetsPlaced DEF s, c
  <2>5. Min({0}) = 0
    BY MinIs
  <2>6. d.bufPos = 0
    BY <1>1, <1>3, <2>4, <2>5
  <2>7. Follows(d)
    <3>1. d.offset - Len(d.buf) + d.bufPos = s
      BY <1>1, <1>3, <2>6 DEF s, c
    <3> QED
      BY <2>2, <3>1 DEF Follows, f, k
  <2> QED
    BY <1>1, <1>5, <1>6, <2>7 DEF d
<1>7. CASE ~l.known
  <2>1. s = input.start /\ k = 0
    BY <1>2, <1>7
  <2>2. Offsets(l.buf) = IF FirstPos - s < c THEN {FirstPos - s} ELSE {}
    <3>1. s \in Nat /\ s <= FirstPos /\ FirstPos < s + Unit
      BY <1>3, <1>4, <2>1
    <3>2. s = l.offset - Len(l.buf)
      BY DEF c
    <3> HIDE DEF s
    <3> QED
      BY <1>2, <1>4, <3>1, <3>2, OffsetsPlaced DEF c
  <2>3. CASE FirstPos - s < c
    <3>1. Offsets(l.buf) = {FirstPos - s}
      BY <2>2, <2>3
    <3>2. Min({FirstPos - s}) = FirstPos - s
      <4>1. FirstPos - s \in Int
        BY <1>3, <1>4
      <4> DEFINE g == FirstPos - s
      <4> HIDE DEF g
      <4>2. Min({g}) = g
        BY <4>1, MinSingle DEF g
      <4> QED
        BY <4>2 DEF g
    <3>3. d.known /\ d.bufPos = FirstPos - s
      BY <1>1, <3>1, <3>2
    <3>4. Follows(d)
      <4>1. d.offset - Len(d.buf) + d.bufPos = FirstPos
        BY <1>1, <1>3, <1>4, <3>3 DEF c
      <4>2. k * Unit = 0
        BY <1>3, <2>1
      <4> QED
        BY <1>4, <4>1, <4>2 DEF Follows, k
    <3> QED
      BY <1>5, <3>3, <3>4 DEF d
  <2>4. CASE ~(FirstPos - s < c)
    <3>1. ~d.known
      BY <1>1, <1>7, <2>2, <2>4
    <3>2. c < Unit /\ l.offset <= FirstPos
      BY SMTT(30), <1>3, <1>4, <2>1, <2>4
    <3> QED
      BY <1>7, <2>1, <3>1, <3>2 DEF d, c, k
  <2> QED
    BY <2>3, <2>4
<1> QED
  BY <1>3, <1>6, <1>7

\* The invariant after a step of the loop, in terms of the state before it.
LEMMA OrderAfter ==
  ASSUME UNCHANGED <<input, file>>,
         Straight' => /\ Passed(out')
                      /\ loop'.running => Placed(loop', Len(out'))
                      /\ ~loop'.running /\ input.mode # 1 => Len(out') = Whole(loop'.offset)
  PROVE  Order'
<1>1. FirstPos' = FirstPos
  BY DEF FirstPos
<1>2. Passed(out)' <=> Passed(out')
  BY <1>1 DEF Passed
<1>3. Placed(loop, Len(out))' <=> Placed(loop', Len(out'))
  BY <1>1 DEF Placed, Consecutive, Intact
<1>4. Whole(loop.offset)' = Whole(loop'.offset)
  BY <1>1 DEF Whole
<1> QED
  BY <1>2, <1>3, <1>4 DEF Order

\* Modes 0 and 2: an iteration passes on the packets that follow.
LEMMA OrderNormal ==
  ASSUME Types, Order, Straight, loop.mode # 1, Iterate
  PROVE  Order'
<1>1. loop.running /\ UNCHANGED <<input, file>> /\ input.mode # 1 /\ loop.mode # 1
  BY Iterating DEF Types, Straight
<1>2. PICK n \in Reads :
        LET l == ReadBlock(n)
        IN  \/ /\ Len(l.buf) # BufMax(loop) /\ ~l.completed
               /\ loop' = l /\ UNCHANGED <<waited, out>>
            \/ /\ Len(l.buf) = BufMax(loop) \/ l.completed
               /\ Process(Located(l))
  BY Iterating
<1> DEFINE l == ReadBlock(n)
<1>3. /\ l \in Loops /\ l.running /\ l.bufSize = loop.bufSize
      /\ Unread(l) \/ Read(l, n)
  BY <1>1, NormalCases
<1> HIDE DEF l
<1>4. Len(out) \in Nat /\ out \in Seq(Seq(Cell)) /\ DOMAIN out = 1 .. Len(out) /\ input.start \in Nat
      /\ waited \in 0 .. Timeout /\ loop \in Loops
  BY LenProperties DEF Types
<1>5. Passed(out) /\ Placed(loop, Len(out))
  BY <1>1 DEF Order
<1>6. Placed(l, Len(out)) /\ l.mode # 1 /\ l.known = loop.known
  BY <1>1, <1>3, <1>4, <1>5, ReadPlaced
<1>7. CASE loop' = l /\ UNCHANGED <<waited, out>>
  BY <1>1, <1>3, <1>5, <1>6, <1>7, OrderAfter
<1>8. CASE /\ Len(l.buf) = BufMax(loop) \/ l.completed
           /\ Process(Located(l))
  <2> DEFINE d == Located(l)
             c == Cut(d)
             r == Rest(d)
  <2>1. l.bufPos = -1
    BY <1>3 DEF Unread, Read
  <2>2. /\ d \in Loops /\ d.bufPos \in 0 .. Len(d.buf) /\ d.mode = l.mode
        /\ d.filePos = l.filePos /\ d.offset = l.offset
    BY <1>3, <2>1, LocatedType
  <2>3. \/ d.known /\ Consecutive(d) /\ Intact(d) /\ Follows(d)
        \/ /\ ~d.known /\ ~l.known /\ Len(out) = 0
           /\ l.offset <= FirstPos /\ Len(l.buf) < Unit
    BY <1>3, <1>6, <2>1, ResyncPlaced
  <2>4. Process(d) /\ d.completed = l.completed
    BY <1>3, <1>8, <2>1, LocatedType
  <2> HIDE DEF d
  <2>5. /\ loop' \in Loops /\ out' = out \o c
        /\ loop'.mode = d.mode /\ loop'.known = d.known
        /\ loop'.filePos = d.filePos /\ loop'.offset = d.offset
        /\ ~loop'.running \/ (~d.completed /\ loop'.buf = r)
    BY <1>4, <2>2, <2>4, Processing
  <2>6. d.offset \in Nat /\ l.filePos = l.offset
    BY <1>3, <1>6, <2>2 DEF Loops, Placed
  <2>7. CASE d.known /\ Consecutive(d) /\ Intact(d) /\ Follows(d)
    <3>1. /\ Passed(out \o c) /\ Len(out \o c) \in Nat
          /\ d.offset = FirstPos + Len(out \o c) * Unit + Len(r)
          /\ Len(r) \in 0 .. Unit - 1
          /\ \A i \in 1 .. Len(r) : r[i].pos = d.offset - Len(r) + i - 1 /\ r[i].ok
      BY <1>5, <2>2, <2>7, PassedOn
    <3> HIDE DEF c, r
    <3>2. Whole(d.offset) = Len(out')
      BY <1>4, <2>5, <3>1, WholePackets
    <3>3. loop'.running => Placed(loop', Len(out'))
      <4>1. d.offset - Len(r) = FirstPos + Len(out') * Unit
        <5> DEFINE a == Len(out') * Unit
        <5>1. a \in Nat /\ FirstPos \in Nat /\ Len(r) \in Nat
          BY <1>4, <2>5, <3>1, FirstPosition, Constants
        <5>2. d.offset = FirstPos + a + Len(r)
          BY <2>5, <3>1
        <5> HIDE DEF a
        <5>3. d.offset - Len(r) = FirstPos + a
          BY <5>1, <5>2
        <5> QED
          BY <5>3 DEF a
      <4>2. ASSUME loop'.running
            PROVE  Consecutive(loop') /\ Intact(loop')
        BY <2>5, <3>1, <4>2 DEF Consecutive, Intact
      <4>3. loop'.mode # 1 /\ loop'.known /\ loop'.filePos = loop'.offset
        BY <1>6, <2>2, <2>5, <2>6, <2>7
      <4> QED
        BY <2>5, <4>1, <4>2, <4>3 DEF Placed
    <3> QED
      BY <1>1, <2>5, <3>1, <3>2, <3>3, OrderAfter
  <2>8. CASE /\ ~d.known /\ ~l.known /\ Len(out) = 0
             /\ l.offset <= FirstPos /\ Len(l.buf) < Unit
    <3>1. c \in Seq(Seq(Cell)) /\ Len(c) = 0
      BY <2>2, <2>8, Cutting
    <3> HIDE DEF c, r
    <3>2. Len(out') = 0 /\ DOMAIN out' = {}
      <4>1. out \o c \in Seq(Seq(Cell)) /\ Len(out \o c) = 0
        BY <1>4, <2>8, <3>1, ConcatProperties
      <4> QED
        BY <2>5, <4>1, LenProperties
    <3>3. Whole(loop'.offset) = 0
      BY <1>4, <2>2, <2>5, <2>6, <2>8, WholeNone
    <3>4. Passed(out')
      BY <3>2 DEF Passed
    <3>5. ~loop'.running
      <4>1. BufMax(loop) >= 2 * Unit /\ BufMax(loop) \in Nat
        BY <1>4, <1>6, <2>8, BufMaxBounds
      <4>2. Len(l.buf) # BufMax(loop)
        BY <2>8, <4>1, Constants
      <4> QED
        BY <1>8, <2>4, <2>5, <4>2
    <3> QED
      BY <1>1, <3>2, <3>3, <3>4, <3>5, OrderAfter
  <2> QED
    BY <2>3, <2>7, <2>8
<1> QED
  BY <1>2, <1>7, <1>8 DEF l

\* The block of mode 1 begins with a sync byte, and one is looked at every Unit bytes.
LEMMA OffsetSync ==
  ASSUME NEW b \in Seq(Cell), NEW o \in Offsets(b)
  PROVE  /\ o \in Nat /\ o < Unit /\ o < Len(b) /\ Sync(b[o + 1])
         /\ \A i \in o + 1 .. Len(b) : (i - 1 - o) % Unit = 0 => Sync(b[i])
<1>1. Len(b) \in Nat /\ Unit \in Nat /\ Unit >= 2
  BY LenProperties, Constants
<1>2. Min({Unit, Len(b)}) \in Nat /\ Min({Unit, Len(b)}) <= Len(b) /\ Min({Unit, Len(b)}) <= Unit
  BY <1>1, MinOfTwo
<1>3. /\ o \in 0 .. Min({Unit, Len(b)}) - 1
      /\ \A i \in o + 1 .. Len(b) : (i - 1 - o) % Unit = 0 => Sync(b[i])
  BY DEF Offsets
<1>4. o \in Nat /\ o < Unit /\ o < Len(b)
  BY <1>1, <1>2, <1>3
<1>5. Sync(b[o + 1])
  <2>1. o + 1 \in o + 1 .. Len(b) /\ o + 1 - 1 - o = 0
    BY <1>1, <1>4
  <2>2. 0 % Unit = 0
    <3>1. (0 * Unit + 0) % Unit = 0
      BY DivisionUnique, Constants
    <3> QED
      BY <1>1, <3>1
  <2> QED
    BY <1>3, <2>1, <2>2
<1> QED
  BY <1>3, <1>4, <1>5

LEMMA NothingCut ==
  ASSUME NEW o \in Seq(Seq(Cell)), NEW c \in Seq(Seq(Cell)), Len(c) = 0, Passed(o)
  PROVE  Passed(o \o c)
<1>1. o \o c = o
  BY EmptySeq, ConcatEmptySeq
<1> QED
  BY <1>1

\* In mode 1 a read falls short at the end of the file only.
LEMMA ReadShort ==
  ASSUME Types, loop.mode = 1, NEW n \in Reads, Len(loop.buf) + n # BufMax(loop)
  PROVE  loop.offset + n = file.size
<1>1. ~input.pipe
  BY DEF Types
<1>2. n = Min({BufMax(loop) - Len(loop.buf), file.size - loop.offset})
  BY <1>1 DEF Reads
<1>3. /\ BufMax(loop) \in Nat /\ Len(loop.buf) \in Nat /\ file.size \in Nat /\ loop.offset \in Nat
  BY BufMaxBounds, LenProperties DEF Types, Loops
<1> DEFINE room == BufMax(loop) - Len(loop.buf)
           left == file.size - loop.offset
<1>4. room \in Int /\ left \in Int
  BY <1>3
<1>5. n = IF room <= left THEN room ELSE left
  <2> HIDE DEF room, left
  <2> QED
    BY <1>2, <1>4, MinOfTwo DEF room, left
<1> QED
  BY <1>3, <1>4, <1>5

\* Mode 1, a block that is not full yet: it has met the end of the file.
LEMMA PlacedRead ==
  ASSUME Types, loop.mode = 1, NEW k \in Nat, Placed(loop, k), NEW n \in Reads, NEW l \in Loops,
         Read(l, n), BufMax(l) = BufMax(loop)
  PROVE  Placed(l, k)
<1>1. /\ n \in Nat \ {0} /\ l.buf = loop.buf \o Cells(n) /\ l.known = loop.known
      /\ l.offset = loop.offset + n /\ l.filePos = loop.filePos /\ l.mode = 1
      /\ Len(l.buf) # BufMax(loop)
  <2>1. loop.filePos + 0 = loop.filePos
    BY DEF Types, Loops
  <2> QED
    BY <2>1 DEF Read
<1>2. /\ loop.offset - Len(loop.buf) = (IF loop.known THEN FirstPos + k * Unit ELSE input.start)
      /\ ~loop.known => k = 0
      /\ Consecutive(loop)
      /\ loop.filePos = loop.offset - Len(loop.buf) + (IF loop.known THEN 1 ELSE 0)
      /\ loop.known => Len(loop.buf) >= 1 /\ loop.buf[1].ok
  BY DEF Placed
<1>3. /\ Len(l.buf) = Len(loop.buf) + n
      /\ l.offset - Len(l.buf) = loop.offset - Len(loop.buf)
      /\ \A i \in 1 .. Len(loop.buf) : l.buf[i] = loop.buf[i]
      /\ Consecutive(l)
  BY <1>1, <1>2, Appended
<1>4. Len(loop.buf) \in Nat /\ file.size \in Nat
  BY LenProperties DEF Types, Loops
<1>5. l.offset >= file.size
  <2>1. loop.offset + n = file.size
    BY <1>1, <1>3, ReadShort
  <2> QED
    BY <1>1, <1>4, <2>1
<1>6. l.known => Len(l.buf) >= 1 /\ l.buf[1].ok
  <2>1. CASE loop.known
    <3>1. Len(loop.buf) >= 1 /\ loop.buf[1].ok /\ 1 \in 1 .. Len(loop.buf)
      BY <1>2, <1>4, <2>1
    <3>2. Len(l.buf) >= 1
      BY <1>1, <1>3, <1>4, <3>1
    <3> QED
      BY <1>3, <3>1, <3>2
  <2> QED
    BY <1>1, <2>1
<1> QED
  BY <1>1, <1>2, <1>3, <1>5, <1>6 DEF Placed

\* Mode 1, the first block is not in sync: it is read again.
LEMMA PlacedFirstMissed ==
  ASSUME Types, loop.mode = 1, NEW k \in Nat, Placed(loop, k), NEW l \in Loops,
         FirstMissed(l), ~l.completed
  PROVE  Placed(l, k)
<1>1. /\ ~loop.known /\ l.mode = 1 /\ ~l.known /\ l.buf = << >>
      /\ l.filePos = loop.filePos /\ l.offset = l.filePos
  BY DEF FirstMissed
<1>2. loop.filePos = loop.offset - Len(loop.buf) + 0 /\ loop.offset - Len(loop.buf) = input.start
      /\ k = 0 /\ input.start \in Nat
  BY <1>1 DEF Placed, Types
<1>3. l.offset = input.start /\ Len(l.buf) = 0
  BY <1>1, <1>2
<1>4. Consecutive(l)
  BY <1>3 DEF Consecutive
<1> QED
  BY <1>1, <1>2, <1>3, <1>4 DEF Placed

\* A buffer of the sync byte of the packet after those passed on.
LEMMA PlacedOne ==
  ASSUME NEW k \in Nat, NEW l \in Loops, NEW cell \in Cell, input.start \in Nat,
         l.mode = 1, l.known, l.buf = <<cell>>, l.offset = l.filePos,
         l.filePos = cell.pos + 1, cell.pos = FirstPos + k * Unit, cell.ok
  PROVE  Placed(l, k)
<1>1. Len(l.buf) = 1 /\ l.buf[1] = cell /\ cell.pos \in Nat
  BY DEF Cell
<1>2. l.offset - Len(l.buf) = cell.pos
  <2>1. l.offset = cell.pos + 1
    OBVIOUS
  <2> QED
    BY <1>1, <2>1
<1>3. Consecutive(l)
  <2>1. ASSUME NEW i \in 1 .. Len(l.buf)
        PROVE  l.buf[i].pos = l.offset - Len(l.buf) + i - 1
    <3>1. i = 1
      BY <1>1, <2>1
    <3>2. cell.pos = cell.pos + 1 - 1
      BY <1>1
    <3> QED
      BY <1>1, <1>2, <3>1, <3>2
  <2> QED
    BY <2>1 DEF Consecutive
<1>4. l.filePos = l.offset - Len(l.buf) + 1
  BY <1>2
<1>5. ~(Len(l.buf) > 1) /\ Len(l.buf) >= 1
  BY <1>1
<1> QED
  BY <1>1, <1>2, <1>3, <1>4, <1>5 DEF Placed

\* Mode 1, the first block is in sync: it is read again from its first packet.
LEMMA PlacedFirstFound ==
  ASSUME Types, loop.mode = 1, NEW k \in Nat, Placed(loop, k), NEW n \in Reads, NEW l \in Loops,
         FirstFound(l, n)
  PROVE  Placed(l, k)
<1> DEFINE f == Filled(n)
           b == loop.buf \o Cells(n)
           o == Min(Offsets(b))
<1>1. /\ n \in Nat \ {0} /\ ~loop.known /\ l.mode = 1 /\ l.known
      /\ Offsets(b) # {} /\ l.buf = <<b[o + 1]>>
      /\ l.filePos = loop.filePos + o + 1 /\ l.offset = l.filePos
  BY DEF FirstFound
<1>2. /\ loop.offset - Len(loop.buf) = input.start /\ k = 0 /\ Consecutive(loop)
      /\ loop.filePos = loop.offset - Len(loop.buf) + 0
      /\ input.start \in Nat /\ loop.filePos \in Nat
  BY <1>1 DEF Placed, Types, Loops
<1>3. f \in Loops /\ f.buf = b /\ f.offset = loop.offset + n /\ b \in Seq(Cell) /\ Len(b) \in Nat
  <2>1. f \in Loops /\ f.buf = b /\ f.offset = loop.offset + n
    BY <1>1, FilledType
  <2> HIDE DEF f, b
  <2>2. b \in Seq(Cell)
    BY <2>1 DEF Loops
  <2> QED
    BY <2>1, <2>2, LenProperties
<1>4. Consecutive(f) /\ f.offset - Len(b) = input.start
  <2>1. f.buf = loop.buf \o Cells(n)
    BY <1>3
  <2> HIDE DEF f, b
  <2>2. f.offset - Len(f.buf) = loop.offset - Len(loop.buf) /\ Consecutive(f)
    BY <1>1, <1>2, <1>3, <2>1, Appended
  <2> QED
    BY <1>2, <1>3, <2>2
<1>5. o \in Offsets(b)
  BY <1>1, <1>3, OffsetsShape
<1> HIDE DEF o, b, f
<1>6. o \in Nat /\ o < Unit /\ o < Len(b) /\ Sync(b[o + 1])
  BY <1>3, <1>5, OffsetSync
<1> DEFINE cell == b[o + 1]
<1>7. o + 1 \in 1 .. Len(b) /\ cell \in Cell
  <2>1. o + 1 \in 1 .. Len(b)
    BY <1>3, <1>6
  <2> QED
    BY <1>3, <2>1, ElementOfSeq
<1>8. cell.pos = input.start + o
  <2>1. cell.pos = input.start + (o + 1) - 1
    BY <1>3, <1>4, <1>7 DEF Consecutive
  <2> QED
    BY <1>2, <1>6, <2>1
<1>9. cell.pos % Unit = 0 /\ cell.ok
  BY <1>6 DEF Sync
<1> HIDE DEF cell
<1>10. cell.pos = FirstPos
  <2>1. /\ FirstPos \in Nat /\ FirstPos >= input.start /\ FirstPos < input.start + Unit
        /\ FirstPos % Unit = 0
    BY <1>2, FirstPosition
  <2>2. cell.pos \in Nat /\ input.start <= cell.pos /\ cell.pos < input.start + Unit
    BY <1>2, <1>6, <1>8, Constants
  <2> QED
    BY <1>2, <1>9, <2>1, <2>2, OneStart
<1>11. FirstPos = FirstPos + k * Unit
  <2>1. k * Unit = 0 /\ FirstPos \in Nat
    BY <1>2, FirstPosition, Constants
  <2> QED
    BY <2>1
<1>12. l.filePos = cell.pos + 1
  BY <1>1, <1>2, <1>6, <1>8
<1> QED
  BY <1>1, <1>2, <1>7, <1>9, <1>10, <1>11, <1>12, PlacedOne DEF cell

\* Mode 1, a later block is not in sync: it will be read again behind its sync byte.
LEMMA PlacedNextMissed ==
  ASSUME Types, loop.mode = 1, NEW k \in Nat, Placed(loop, k), NEW n \in Reads, NEW l \in Loops,
         NextMissed(l, n), ~l.completed
  PROVE  Placed(l, k)
<1> DEFINE f == Filled(n)
           b == loop.buf \o Cells(n)
           cell == loop.buf[1]
<1>1. /\ n \in Nat \ {0} /\ loop.known /\ l.mode = 1 /\ l.known
      /\ l.buf = <<b[1]>> /\ l.filePos = loop.filePos /\ l.offset = l.filePos
  BY DEF NextMissed
<1>2. /\ loop.offset - Len(loop.buf) = FirstPos + k * Unit /\ Consecutive(loop)
      /\ loop.filePos = loop.offset - Len(loop.buf) + 1
      /\ Len(loop.buf) >= 1 /\ loop.buf[1].ok
      /\ input.start \in Nat /\ loop.offset \in Nat /\ loop.buf \in Seq(Cell)
  BY <1>1 DEF Placed, Types, Loops
<1>3. 1 \in 1 .. Len(loop.buf) /\ Len(loop.buf) \in Nat /\ cell \in Cell
  <2>1. 1 \in 1 .. Len(loop.buf) /\ Len(loop.buf) \in Nat
    BY <1>2, LenProperties
  <2> QED
    BY <1>2, <2>1, ElementOfSeq
<1>4. b[1] = cell
  <2>1. f \in Loops /\ f.buf = b /\ f.offset = loop.offset + n
    BY <1>1, FilledType
  <2>2. \A i \in 1 .. Len(loop.buf) : f.buf[i] = loop.buf[i]
    BY <1>1, <2>1, Appended
  <2> HIDE DEF f, b
  <2> QED
    BY <1>3, <2>1, <2>2
<1>5. cell.pos = FirstPos + k * Unit
  <2>1. cell.pos = loop.offset - Len(loop.buf) + 1 - 1
    BY <1>2, <1>3 DEF Consecutive
  <2>2. loop.offset - Len(loop.buf) + 1 - 1 = loop.offset - Len(loop.buf)
    BY <1>2, <1>3
  <2> QED
    BY <1>2, <2>1, <2>2
<1>6. l.filePos = cell.pos + 1
  BY <1>1, <1>2, <1>5
<1> HIDE DEF b, cell
<1> QED
  BY <1>1, <1>2, <1>3, <1>4, <1>5, <1>6, PlacedOne DEF cell

\* Mode 1, a later block is in sync from end to end: all its bytes were read at once, and
\* had been written, because the last one had.
LEMMA NextFoundIntact ==
  ASSUME Types, loop.mode = 1, NEW k \in Nat, Placed(loop, k), NEW n \in Reads, NEW l \in Loops,
         NextFound(l, n)
  PROVE  /\ Consecutive(l) /\ Intact(l) /\ l.offset - Len(l.buf) = FirstPos + k * Unit
         /\ Len(l.buf) % Unit = 1 /\ l.filePos = l.offset
<1>1. /\ n \in Nat \ {0} /\ loop.known /\ l.mode = 1 /\ l.known
      /\ Len(loop.buf) + n = BufMax(loop) /\ 0 \in Offsets(l.buf)
      /\ l.buf = loop.buf \o Cells(n)
      /\ l.filePos = loop.filePos + Len(l.buf) - 1 /\ l.offset = loop.offset + n
  BY DEF NextFound
<1>2. /\ loop.offset - Len(loop.buf) = FirstPos + k * Unit /\ Consecutive(loop)
      /\ loop.filePos = loop.offset - Len(loop.buf) + 1
      /\ Len(loop.buf) >= 1 /\ loop.buf[1].ok
      /\ Len(loop.buf) > 1 => loop.offset >= file.size
  BY <1>1 DEF Placed
<1>3. /\ loop.offset \in Nat /\ l.buf \in Seq(Cell) /\ Len(loop.buf) \in Nat /\ file.size \in Nat
      /\ file.written \in Nat /\ loop.filePos \in Nat /\ loop \in Loops
  BY LenProperties DEF Types, Loops
<1>4. /\ Len(l.buf) = Len(loop.buf) + n
      /\ l.offset - Len(l.buf) = loop.offset - Len(loop.buf)
      /\ \A i \in 1 .. Len(loop.buf) : l.buf[i] = loop.buf[i]
      /\ \A i \in 1 .. Len(l.buf) : i > Len(loop.buf) =>
           l.buf[i].ok = (loop.offset + (i - Len(loop.buf)) - 1 < file.written)
      /\ Consecutive(loop) => Consecutive(l)
  BY <1>1, Appended
<1>4a. Consecutive(l)
  BY <1>2, <1>4
<1>5. Len(loop.buf) = 1
  <2>1. n <= file.size - loop.offset
    BY <1>1, ReadBounds
  <2>2. Len(loop.buf) >= 1 /\ (Len(loop.buf) > 1 => loop.offset >= file.size)
    BY <1>2
  <2>3. n \in Nat \ {0} /\ loop.offset \in Nat /\ file.size \in Nat /\ Len(loop.buf) \in Nat
    BY <1>1, <1>3
  <2>4. ~(loop.offset >= file.size)
    BY <2>1, <2>3
  <2>5. Len(loop.buf) >= 1 /\ ~(Len(loop.buf) > 1)
    BY <2>2, <2>4, Zenon
  <2> DEFINE m == Len(loop.buf)
  <2>6. m \in Nat /\ m >= 1 /\ ~(m > 1)
    BY <2>3, <2>5
  <2> HIDE DEF m
  <2>7. m = 1
    BY <2>6
  <2> QED
    BY <2>7 DEF m
<1>6. Len(l.buf) \in Nat /\ Len(l.buf) % Unit = 1 /\ Len(l.buf) >= 2
  <2>1. BufMax(loop) % Unit = 1
    BY <1>1, <1>3, BufMaxBounds
  <2>2. Len(l.buf) = BufMax(loop)
    BY Zenon, <1>1, <1>4
  <2>3. Len(l.buf) = 1 + n /\ n \in Nat \ {0}
    BY Zenon, <1>1, <1>4, <1>5
  <2>4. Len(l.buf) \in Nat /\ Len(l.buf) >= 2
    BY <2>3
  <2> QED
    BY Zenon, <2>1, <2>2, <2>4
<1> DEFINE c == Len(l.buf)
<1>7. Sync(l.buf[c])
  <2>1. \A i \in 0 + 1 .. c : (i - 1 - 0) % Unit = 0 => Sync(l.buf[i])
    BY <1>1, <1>3, OffsetSync
  <2>2. c \in 0 + 1 .. c /\ c - 1 - 0 = c - 1
    BY <1>6
  <2>3. (c - 1) % Unit = 0
    <3> HIDE DEF c
    <3>1. c = (c \div Unit) * Unit + 1 /\ c \div Unit \in Nat
      BY <1>6, Division DEF c
    <3> DEFINE q == c \div Unit
    <3>2. q \in Nat /\ q * Unit \in Nat /\ c = q * Unit + 1
      BY <3>1, Constants
    <3> HIDE DEF q
    <3>3. (q * Unit + 0) % Unit = 0 /\ c - 1 = q * Unit + 0
      BY <3>2, DivisionUnique, Constants, 0 \in 0 .. Unit - 1
    <3> QED
      BY <3>3
  <2> HIDE DEF c
  <2> QED
    BY <2>1, <2>2, <2>3
<1>8. loop.offset + (c - 1) - 1 < file.written
  <2>1. l.buf[c].ok
    BY <1>7 DEF Sync
  <2>2. c \in 1 .. Len(l.buf) /\ c > Len(loop.buf)
    BY <1>5, <1>6
  <2>3. l.buf[c].ok = (loop.offset + (c - Len(loop.buf)) - 1 < file.written)
    BY <1>4, <2>2
  <2> QED
    BY <1>5, <2>1, <2>3
<1>9. ASSUME NEW i \in 1 .. c
      PROVE  l.buf[i].ok
  <2>1. CASE i = 1
    <3>1. 1 \in 1 .. Len(loop.buf)
      BY <1>5
    <3> QED
      BY <1>2, <1>4, <2>1, <3>1
  <2>2. CASE i # 1
    <3>1. i > Len(loop.buf)
      BY <1>5, <2>2
    <3>2. l.buf[i].ok = (loop.offset + (i - Len(loop.buf)) - 1 < file.written)
      BY <1>4, <3>1
    <3>3. loop.offset + (i - 1) - 1 < file.written
      BY SMTT(30), <1>3, <1>6, <1>8
    <3> QED
      BY <1>5, <3>2, <3>3
  <2> QED
    BY <2>1, <2>2
<1>10. Intact(l)
  BY <1>9 DEF Intact
<1>11. l.filePos = l.offset
  BY <1>1, <1>2, <1>3, <1>4, <1>5, <1>6
<1> QED
  BY <1>2, <1>4, <1>6, <1>10, <1>11

\* Mode 1 until the end of the file is met.
LEMMA OrderPreallocated ==
  ASSUME Types, Order, Straight, loop.mode = 1, Iterate
  PROVE  Order'
<1>1. loop.running /\ UNCHANGED <<input, file>> /\ input.mode = 1 /\ loop.mode = 1
  BY Iterating DEF Types
<1>2. PICK n \in Reads :
        LET l == ReadBlock(n)
        IN  \/ /\ Len(l.buf) # BufMax(loop) /\ ~l.completed
               /\ loop' = l /\ UNCHANGED <<waited, out>>
            \/ /\ Len(l.buf) = BufMax(loop) \/ l.completed
               /\ Process(Located(l))
  BY Iterating
<1> DEFINE l == ReadBlock(n)
           d == Located(l)
           k == Len(out)
<1>3. /\ l \in Loops /\ l.running /\ l.bufSize = loop.bufSize
      /\ Ended(l) \/ Read(l, n) \/ FirstMissed(l) \/ FirstFound(l, n)
                   \/ NextMissed(l, n) \/ NextFound(l, n)
  BY <1>1, PreallocatedCases
<1> HIDE DEF l
<1>4. k \in Nat /\ out \in Seq(Seq(Cell)) /\ input.start \in Nat
      /\ waited \in 0 .. Timeout /\ loop \in Loops
      /\ BufMax(loop) \in Nat /\ BufMax(loop) > 1
  <2>1. k \in Nat /\ out \in Seq(Seq(Cell)) /\ input.start \in Nat
        /\ waited \in 0 .. Timeout /\ loop \in Loops
    BY LenProperties DEF Types
  <2>2. BufMax(loop) \in Nat /\ BufMax(loop) > Unit
    BY <2>1, BufMaxBounds
  <2> QED
    BY <2>1, <2>2, Constants
<1>5. Passed(out) /\ Placed(loop, k)
  BY <1>1 DEF Order
<1>6. l.bufPos \in {-1, 0}
  BY <1>3 DEF Ended, Read, FirstMissed, FirstFound, NextMissed, NextFound
<1>7. /\ d \in Loops /\ d.bufPos \in 0 .. Len(d.buf)
      /\ d.buf = l.buf /\ d.mode = l.mode /\ d.filePos = l.filePos /\ d.offset = l.offset
      /\ d.completed = l.completed
      /\ l.bufPos = 0 => d = l
      /\ l.bufPos = -1 => d.known = (l.known \/ Offsets(l.buf) # {})
  BY <1>3, <1>6, LocatedType
<1> HIDE DEF d
<1>8. ASSUME Process(d)
      PROVE  /\ out' = out \o Cut(d) /\ loop' \in Loops
             /\ loop'.mode = d.mode /\ loop'.known = d.known
             /\ loop'.filePos = d.filePos /\ loop'.offset = d.offset
             /\ ~loop'.running \/ (~d.completed /\ loop'.buf = Rest(d))
  BY <1>4, <1>7, <1>8, Processing
\* When a block is read on, or the loop is left without it, nothing is passed on.
<1>9. ASSUME loop' = l, UNCHANGED out, Placed(l, k)
      PROVE  Order'
  BY <1>1, <1>5, <1>9, OrderAfter
<1>10. ASSUME Process(d), l.completed, Len(Cut(d)) = 0
       PROVE  Order'
  <2>1. out' = out \o Cut(d) /\ ~loop'.running
    BY <1>7, <1>8, <1>10
  <2>2. Cut(d) \in Seq(Seq(Cell))
    BY <1>7, Cutting
  <2>3. Passed(out')
    BY <1>4, <1>5, <1>10, <2>1, <2>2, NothingCut
  <2> QED
    BY <1>1, <2>1, <2>3, OrderAfter
<1>11. \/ /\ Len(l.buf) # BufMax(loop) /\ ~l.completed
          /\ loop' = l /\ UNCHANGED <<waited, out>>
       \/ /\ Len(l.buf) = BufMax(loop) \/ l.completed
          /\ Process(d)
  BY <1>2 DEF l, d
<1> HIDE DEF k
<1>12. CASE Ended(l)
  <2>1. loop'.mode = 0
    <3>1. l.mode = 0
      BY <1>12 DEF Ended
    <3> QED
      BY <1>7, <1>8, <1>11, <3>1
  <2>2. ~Straight'
    BY <1>1, <2>1 DEF Straight
  <2> QED
    BY <2>2 DEF Order
<1>13. CASE Read(l, n)
  <2>1. Len(l.buf) # BufMax(loop) /\ ~l.completed
    BY <1>1, <1>13 DEF Read
  <2>2. BufMax(l) = BufMax(loop)
    BY <1>3, <1>13 DEF Read, BufMax
  <2>3. Placed(l, k)
    BY <1>1, <1>3, <1>4, <1>5, <1>13, <2>2, PlacedRead
  <2> QED
    BY <1>9, <1>11, <2>1, <2>3
<1>14. CASE FirstMissed(l)
  <2>1. Len(l.buf) = 0 /\ l.buf = << >> /\ l.bufPos = -1 /\ ~l.known
    BY <1>14 DEF FirstMissed
  <2>2. CASE ~l.completed
    <3>1. Placed(l, k)
      BY <1>1, <1>3, <1>4, <1>5, <1>14, <2>2, PlacedFirstMissed
    <3> QED
      BY <1>4, <1>9, <1>11, <2>1, <2>2, <3>1
  <2>3. CASE l.completed
    <3>1. ~d.known
      BY <1>7, <2>1, NoOffsets
    <3>2. Len(Cut(d)) = 0
      BY <1>7, <3>1, Cutting
    <3> QED
      BY <1>10, <1>11, <2>3, <3>2
  <2> QED
    BY <2>2, <2>3
<1>15. CASE FirstFound(l, n)
  <2>1. Len(l.buf) = 1 /\ ~l.completed
    BY <1>15 DEF FirstFound
  <2>2. Placed(l, k)
    BY <1>1, <1>3, <1>4, <1>5, <1>15, PlacedFirstFound
  <2> QED
    BY <1>4, <1>9, <1>11, <2>1, <2>2
<1>16. CASE NextMissed(l, n)
  <2>1. Len(l.buf) = 1 /\ l.bufPos = 0 /\ l.known
    BY <1>16 DEF NextMissed
  <2>2. CASE ~l.completed
    <3>1. Placed(l, k)
      BY <1>1, <1>3, <1>4, <1>5, <1>16, <2>2, PlacedNextMissed
    <3> QED
      BY <1>4, <1>9, <1>11, <2>1, <2>2, <3>1
  <2>3. CASE l.completed
    <3>1. d = l
      BY <1>7, <2>1
    <3>2. Len(Cut(d)) = (1 - 0) \div Unit
      <4>1. d.known /\ d.bufPos \in 0 .. Len(d.buf) /\ Len(d.buf) = 1 /\ d.bufPos = 0 /\ d \in Loops
        BY <1>7, <2>1, <3>1
      <4>2. Len(Cut(d)) = (Len(d.buf) - d.bufPos) \div Unit
        BY <4>1, CutLength
      <4> QED
        BY Zenon, <4>1, <4>2
    <3>3. (0 * Unit + 1) \div Unit = 0
      BY DivisionUnique, Constants
    <3>4. Len(Cut(d)) = 0
      BY <3>2, <3>3, Constants
    <3> QED
      BY <1>10, <1>11, <2>3, <3>4
  <2> QED
    BY <2>2, <2>3
<1>17. CASE NextFound(l, n)
  <2> DEFINE c == Cut(d)
             r == Rest(d)
  <2>1. /\ Consecutive(l) /\ Intact(l) /\ l.offset - Len(l.buf) = FirstPos + k * Unit
        /\ Len(l.buf) % Unit = 1 /\ l.filePos = l.offset
    BY <1>1, <1>3, <1>4, <1>5, <1>17, NextFoundIntact
  <2>2. /\ n \in Nat \ {0} /\ l.bufPos = 0 /\ l.known /\ ~l.completed /\ l.mode = 1
        /\ Len(loop.buf) + n = BufMax(loop) /\ l.buf = loop.buf \o Cells(n)
    BY <1>17 DEF NextFound
  <2>3. d = l
    BY <1>7, <2>2
  <2>4. Process(d)
    <3>1. Len(l.buf) = BufMax(loop)
      BY <2>2, FilledType
    <3> QED
      BY <1>11, <3>1
  <2>5. Len(l.buf) \in Nat /\ l.offset \in Nat
    BY <1>3, LenProperties DEF Loops
  <2>6. Follows(d)
    <3>1. l.offset - Len(l.buf) + 0 = l.offset - Len(l.buf)
      BY <2>5
    <3> QED
      BY <2>1, <2>2, <2>3, <3>1 DEF Follows, k
  <2>7. /\ Passed(out \o c) /\ Len(out \o c) \in Nat
        /\ d.offset = FirstPos + Len(out \o c) * Unit + Len(r)
        /\ Len(r) = (Len(d.buf) - d.bufPos) % Unit
        /\ \A i \in 1 .. Len(r) : r[i].pos = d.offset - Len(r) + i - 1 /\ r[i].ok
    BY <1>5, <1>7, <2>1, <2>2, <2>3, <2>6, PassedOn
  <2>8. Len(r) = 1 /\ r \in Seq(Cell)
    <3>1. Len(l.buf) - 0 = Len(l.buf)
      BY <2>5
    <3> QED
      BY <1>7, <2>1, <2>2, <2>3, <2>7, <3>1, Cutting
  <2>9. /\ out' = out \o c /\ loop' \in Loops
        /\ loop'.mode = 1 /\ loop'.known
        /\ loop'.filePos = l.filePos /\ loop'.offset = l.offset
        /\ ~loop'.running \/ loop'.buf = r
    BY <1>8, <2>2, <2>3, <2>4
  <2> HIDE DEF c, r
  <2>10. ASSUME loop'.running
         PROVE  Placed(loop', Len(out'))
    <3> DEFINE cell == r[1]
    <3>1. 1 \in 1 .. Len(r) /\ cell \in Cell
      <4>1. 1 \in 1 .. Len(r)
        BY <2>8
      <4> QED
        BY <2>8, <4>1, ElementOfSeq
    <3>2. cell.pos = l.offset - 1 + 1 - 1 /\ cell.ok
      BY <2>3, <2>7, <2>8, <3>1
    <3>3. cell.pos = l.offset - 1
      BY <2>5, <3>2
    <3>4. l.offset = cell.pos + 1
      BY <2>5, <3>3
    <3>5. cell.pos = FirstPos + Len(out') * Unit
      <4> DEFINE a == Len(out') * Unit
      <4>1. l.offset = FirstPos + a + 1
        BY <2>3, <2>7, <2>8, <2>9
      <4>2. a \in Nat /\ FirstPos \in Nat
        BY <1>4, <2>7, <2>9, FirstPosition, Constants
      <4> HIDE DEF a
      <4>3. cell.pos = FirstPos + a
        BY <3>3, <4>1, <4>2
      <4> QED
        BY <4>3 DEF a
    <3>6. r = <<cell>>
      BY <2>8
    <3> HIDE DEF cell
    <3>7. Len(out') \in Nat /\ loop'.buf = <<cell>> /\ loop'.offset = loop'.filePos
          /\ loop'.filePos = cell.pos + 1
      BY <2>1, <2>7, <2>9, <2>10, <3>4, <3>6
    <3> QED
      BY <1>4, <2>9, <3>1, <3>2, <3>5, <3>7, PlacedOne DEF cell
  <2> QED
    BY <1>1, <2>7, <2>9, <2>10, OrderAfter
<1> QED
  BY <1>3, <1>12, <1>13, <1>14, <1>15, <1>16, <1>17

\* What the writer and the time do leaves the packets and the buffer alone.
LEMMA OrderUnmoved ==
  ASSUME Types, Types', Order, UNCHANGED <<input, loop, out>>
  PROVE  Order'
<1>1. FirstPos' = FirstPos
  BY DEF FirstPos
<1>2. Passed(out)' <=> Passed(out)
  BY <1>1 DEF Passed
<1>3. Whole(loop.offset)' = Whole(loop.offset)
  BY <1>1 DEF Whole
<1>4. Straight' <=> Straight
  BY DEF Straight
<1>5. ASSUME Straight, Placed(loop, Len(out))
      PROVE  Placed(loop, Len(out))'
  <2>1. loop.mode = 1 => file'.size = file.size
    BY <1>5 DEF Types, Straight
  <2> QED
    BY <1>1, <1>5, <2>1 DEF Placed, Consecutive, Intact
<1> QED
  BY <1>2, <1>3, <1>4, <1>5 DEF Order

LEMMA OrderStep ==
  ASSUME Types, Types', Order, [Next]_vars
  PROVE  Order'
<1>1. CASE Iterate /\ Straight /\ loop.mode # 1
  BY <1>1, OrderNormal
<1>2. CASE Iterate /\ Straight /\ loop.mode = 1
  BY <1>2, OrderPreallocated
<1>3. CASE Iterate /\ ~Straight
  <2>1. input' = input
    BY <1>3, Iterating
  <2>2. loop.mode = 0 => loop'.mode = 0
    <3>1. PICK n \in Reads :
            LET l == ReadBlock(n)
            IN  \/ loop' = l
                \/ Process(Located(l))
      BY <1>3, Iterating
    <3> DEFINE l == ReadBlock(n)
    <3>2. l \in Loops /\ (l.mode = loop.mode \/ loop.mode = 1) /\ l.bufPos \in {-1, 0}
      BY <1>3, Iterating, BlockTypes
    <3> HIDE DEF l
    <3>3. Located(l) \in Loops /\ Located(l).mode = l.mode
          /\ Located(l).bufPos \in 0 .. Len(Located(l).buf)
      BY <3>2, LocatedType
    <3>4. Process(Located(l)) => loop'.mode = l.mode
      BY <3>3, Processing DEF Types
    <3> QED
      BY <3>1, <3>2, <3>4 DEF l
  <2>3. ~Straight'
    BY <1>3, <2>1, <2>2 DEF Straight, Types
  <2> QED
    BY <2>3 DEF Order
<1>4. CASE Write \/ Open \/ Close \/ Tick \/ UNCHANGED vars
  <2>1. UNCHANGED <<input, loop, out>>
    BY <1>4 DEF Write, Open, Close, Tick, vars
  <2> QED
    BY <2>1, OrderUnmoved
<1> QED
  BY <1>1, <1>2, <1>3, <1>4 DEF Next

LEMMA OrderInit == Init => Order
<1> SUFFICES ASSUME Init PROVE Order
  OBVIOUS
<1>1. /\ out = << >> /\ loop.running /\ loop.buf = << >> /\ ~loop.known
      /\ loop.filePos = input.start /\ loop.offset = input.start /\ input.start \in Nat
  BY ReadAssumption DEF Init, ReadAssumption
<1>2. Len(loop.buf) = 0 /\ Len(out) = 0 /\ DOMAIN out = {}
  BY <1>1
<1>3. Passed(out)
  BY <1>2 DEF Passed
<1>4. Consecutive(loop) /\ Intact(loop)
  BY <1>2 DEF Consecutive, Intact
<1>5. loop.offset - Len(loop.buf) = input.start /\ loop.filePos = loop.offset - Len(loop.buf) + 0
  BY <1>1, <1>2
<1>6. Placed(loop, 0)
  BY <1>1, <1>2, <1>4, <1>5 DEF Placed
<1> QED
  BY <1>1, <1>2, <1>3, <1>6 DEF Order

\* When the loop is left, every whole packet that was read has been passed on, for every
\* size of the packets and of the blocks, in modes 0 and 2.
THEOREM NothingLeft == Spec => []Complete
<1>1. Init => Types /\ Order
  BY TypesInit, OrderInit
<1>2. Types /\ Order /\ [Next]_vars => Types' /\ Order'
  BY TypesStep, OrderStep
<1>3. Types /\ Order => Complete
  BY DEF Types, Order, Complete, Straight
<1> QED
  BY <1>1, <1>2, <1>3, PTL DEF Spec

\* The packets are those of the input one after the other, in every mode, of a
\* preallocated file that is not made longer.
THEOREM PacketsInOrder ==
  ASSUME Grows = FALSE
  PROVE  Spec => []InOrder
<1>1. Init => Types /\ Order
  BY TypesInit, OrderInit
<1>2. Types /\ Order /\ [Next]_vars => Types' /\ Order'
  BY TypesStep, OrderStep
<1>3. Types /\ Order => InOrder
  BY DEF Order, InOrder, Straight, Passed
<1> QED
  BY <1>1, <1>2, <1>3, PTL DEF Spec

-----------------------------------------------------------------------------
(* When the loop is left.  Only a non-blocking pipe is given up without    *)
(* the timeout, so the invariant is that mode 2 stays the mode of a pipe.  *)

PipeOnly == input.mode = 2 => input.pipe

NotYet(l) == "completed" \in DOMAIN l /\ ~l.completed

\* The cases of ReadBlock before Retried leave the loop uncompleted: of a file, at its end
\* and in sync or not.
LEMMA ReadNotYet ==
  ASSUME Types, NEW n \in Int
  PROVE  NotYet(Normal(n)) /\ NotYet(Preallocated(n))
<1>1. loop \in Loops
  BY DEF Types
<1>2. NotYet(Idle)
  BY <1>1 DEF Idle, NotYet, Loops
<1>3. NotYet(Filled(n))
  BY <1>1 DEF Filled, NotYet, Loops
<1>4. NotYet(Normal(n))
  <2>1. NotYet([Idle EXCEPT !.retry = TRUE])
    BY <1>2 DEF NotYet
  <2> DEFINE f == Filled(n)
  <2> HIDE DEF f
  <2>2. NotYet([f EXCEPT !.filePos = @ + n])
    BY <1>3 DEF NotYet, f
  <2> QED
    BY <2>1, <2>2 DEF Normal, f
<1>5. NotYet(PreallocatedEnd)
  BY <1>2 DEF PreallocatedEnd, NotYet
<1>6. ASSUME NEW l, NotYet(l)
      PROVE  NotYet(Resync(l)) /\ NotYet(PreallocatedFirst(l)) /\ NotYet(PreallocatedNext(l))
  <2> DEFINE r == Resync(l)
  <2>1. NotYet(r)
    BY <1>6 DEF Resync, NotYet
  <2> HIDE DEF r
  <2>2. NotYet(PreallocatedFirst(l))
    BY <1>6, <2>1 DEF PreallocatedFirst, NotYet, r
  <2>3. NotYet(PreallocatedNext(l))
    BY <1>6, <2>1 DEF PreallocatedNext, NotYet, r
  <2> QED
    BY <2>1, <2>2, <2>3 DEF r
<1>7. NotYet(Preallocated(n))
  <2>1. Preallocated(n) \in {PreallocatedEnd, Filled(n), PreallocatedNext(Filled(n)), PreallocatedFirst(Filled(n))}
    BY DEF Preallocated
  <2> QED
    BY <1>3, <1>5, <1>6, <2>1
<1> QED
  BY <1>4, <1>7

\* Reading a file completes the loop only when the time is over.
LEMMA ReadInTime ==
  ASSUME Types, PipeOnly, NEW n \in Reads, input.timed, ~input.pipe, ~TimedOut
  PROVE  ~ReadBlock(n).completed
<1>1. loop.mode \in {0, 1} /\ n \in Int
  <2>1. loop.mode \in {0, 1, 2} /\ loop.mode # 2
    BY DEF Types, Loops, PipeOnly
  <2> QED
    BY <2>1, ReadBounds
<1>2. ReadBlock(n) = Retried(Normal(n)) \/ ReadBlock(n) = Retried(Preallocated(n))
  BY <1>1 DEF ReadBlock
<1>3. ASSUME NEW l, NotYet(l)
      PROVE  ~Retried(l).completed
  <2>1. Retried(l) = l \/ Retried(l) = [l EXCEPT !.offset = l.filePos]
    BY DEF Retried
  <2> QED
    BY <1>3, <2>1 DEF NotYet
<1> QED
  BY <1>1, <1>2, <1>3, ReadNotYet

\* Processing a block leaves the loop when it is completed, when a write fails, or when
\* nothing was written and the time is over; and then it does leave it.
LEMMA ProcessLeaves ==
  ASSUME NEW d \in Loops, d.running, Process(d)
  PROVE  /\ ~d.completed /\ ~loop'.running /\ ~loop'.broken => input.timed /\ TimedOut
         /\ input.timed /\ TimedOut /\ waited' >= Timeout => ~loop'.running
<1>1. PICK wrote \in BOOLEAN, failed \in BOOLEAN, size \in BufSizes : Outcome(d, wrote, failed, size)
  BY ProcessOutcome
<1>2. CASE Leaves(d, wrote, failed)
  <2> DEFINE broken == wrote /\ failed
  <2>1. broken \in BOOLEAN /\ loop' = [d EXCEPT !.running = FALSE, !.broken = broken]
    BY <1>1, <1>2 DEF Outcome
  <2>2. ~broken => d.completed \/ (input.timed /\ TimedOut)
    BY <1>2 DEF Leaves
  <2> HIDE DEF broken
  <2>3. ~loop'.running /\ (loop'.broken <=> broken)
    BY <2>1 DEF Loops
  <2> QED
    BY <2>2, <2>3
<1>3. CASE ~Leaves(d, wrote, failed)
  <2>1. loop' = [d EXCEPT !.buf = Rest(d), !.bufSize = size]
    BY <1>1, <1>3 DEF Outcome
  <2>2. loop'.running
    BY <2>1 DEF Loops
  <2>3. wrote => waited' = 0
    BY <1>1 DEF Outcome
  <2>4. ~(input.timed /\ TimedOut /\ waited' >= Timeout)
    BY <1>3, <2>3, Constants DEF Leaves
  <2> QED
    BY <2>2, <2>4
<1> QED
  BY <1>2, <1>3

\* A read that does not complete the loop, after the timeout, only adds to the buffer.
LEMMA ReadKeeps ==
  ASSUME Types, loop.running, NEW n \in Reads, TimedOut, loop.mode = 1 => loop.known,
         ~ReadBlock(n).completed
  PROVE  Keeps(ReadBlock(n).buf)
<1> DEFINE l == ReadBlock(n)
<1>1. l.buf = loop.buf \/ (n \in Nat \ {0} /\ l.buf = loop.buf \o Cells(n))
  <2>1. CASE loop.mode # 1
    <3>1. Unread(l) \/ Read(l, n)
      BY <2>1, NormalCases
    <3> HIDE DEF l
    <3> QED
      BY <3>1 DEF Unread, Read
  <2>2. CASE loop.mode = 1
    <3>1. \/ Ended(l) \/ Read(l, n) \/ FirstMissed(l) \/ FirstFound(l, n)
          \/ NextMissed(l, n) \/ NextFound(l, n)
      BY <2>2, PreallocatedCases
    <3>2. ~l.completed /\ loop.known
      BY <2>2
    <3> HIDE DEF l
    <3> QED
      BY <3>1, <3>2 DEF Ended, Read, FirstMissed, FirstFound, NextMissed, NextFound
  <2> QED
    BY <2>1, <2>2
<1>2. loop.buf \in Seq(Cell) /\ Len(loop.buf) \in Nat /\ loop.offset \in Nat /\ file.written \in Nat
  BY LenProperties DEF Types, Loops
<1> DEFINE c == Cells(n)
<1>3. CASE l.buf = loop.buf
  <2>1. SubSeq(loop.buf, 1, Len(loop.buf)) = loop.buf
    BY <1>2
  <2> QED
    BY <1>2, <1>3, <2>1 DEF Keeps
<1>4. CASE n \in Nat \ {0} /\ l.buf = loop.buf \o c
  <2>1. c \in Seq(Cell)
    BY <1>2, <1>4, CellsShape
  <2> HIDE DEF c, l
  <2>2. Len(loop.buf \o c) >= Len(loop.buf) /\ SubSeq(loop.buf \o c, 1, Len(loop.buf)) = loop.buf
    BY <1>2, <2>1
  <2> QED
    BY <1>4, <2>2 DEF Keeps, l
<1> QED
  BY <1>1, <1>3, <1>4

\* With -t the loop is left in time, for packets and blocks of every size: no short read,
\* no block out of sync and no end of a preallocated file leaves it before, and after the
\* timeout a block that writes nothing does not keep it.
THEOREM LoopIsTimely == Spec => Timely
<1> DEFINE Left == loop.running /\ ~loop'.running /\ ~loop'.broken /\ input.timed /\ ~input.pipe
           Stays == /\ input.timed /\ TimedOut /\ waited' >= Timeout /\ loop'.running
                    /\ loop.mode = 1 => loop.known
<1>1. Init => Types /\ PipeOnly
  <2>1. Init => PipeOnly
    BY ReadAssumption DEF Init, PipeOnly, ReadAssumption
  <2> QED
    BY <2>1, TypesInit
<1>2. Types /\ PipeOnly /\ [Next]_vars => Types' /\ PipeOnly'
  <2>1. [Next]_vars => UNCHANGED input
    BY DEF Next, vars, Iterate, Write, Open, Close, Tick
  <2>2. PipeOnly /\ UNCHANGED input => PipeOnly'
    BY DEF PipeOnly
  <2> QED
    BY <2>1, <2>2, TypesStep
<1>3. ASSUME Types, PipeOnly, Iterate
      PROVE  (Left => TimedOut) /\ (Stays => Keeps(loop'.buf))
  <2>1. PICK n \in Reads :
          LET l == ReadBlock(n)
          IN  \/ /\ Len(l.buf) # BufMax(loop) /\ ~l.completed
                 /\ loop' = l /\ UNCHANGED <<waited, out>>
              \/ /\ Len(l.buf) = BufMax(loop) \/ l.completed
                 /\ Process(Located(l))
    BY <1>3, Iterating
  <2> DEFINE l == ReadBlock(n)
             d == Located(l)
  <2>2. loop.running
    BY <1>3, Iterating
  <2>3. l \in Loops /\ l.running /\ l.bufPos \in {-1, 0}
    BY <1>3, <2>2, BlockTypes
  <2>4. input.timed /\ ~input.pipe /\ ~TimedOut => ~l.completed
    BY <1>3, ReadInTime
  <2>5. TimedOut /\ (loop.mode = 1 => loop.known) /\ ~l.completed => Keeps(l.buf)
    BY <1>3, <2>2, ReadKeeps
  <2>6. (~l.completed /\ loop' = l) \/ Process(d)
    BY <2>1
  <2> HIDE DEF l
  <2>7. d \in Loops /\ d.running /\ (d.completed <=> l.completed)
    <3>1. d \in Loops /\ d.completed = l.completed
      BY <2>3, LocatedType
    <3>2. d.running = l.running
      BY <2>3 DEF Located, Resync, Loops
    <3> QED
      BY <2>3, <3>1, <3>2
  <2> HIDE DEF d
  <2>8. CASE ~l.completed /\ loop' = l
    BY <2>3, <2>5, <2>8
  <2>9. CASE Process(d)
    <3>1. /\ ~d.completed /\ ~loop'.running /\ ~loop'.broken => input.timed /\ TimedOut
          /\ input.timed /\ TimedOut /\ waited' >= Timeout => ~loop'.running
      BY <2>7, <2>9, ProcessLeaves
    <3> QED
      BY <2>4, <2>7, <3>1
  <2> QED
    BY <2>6, <2>8, <2>9
<1>4. ASSUME Types, UNCHANGED loop
      PROVE  (Left => TimedOut) /\ (Stays => Keeps(loop'.buf))
  <2>1. loop.buf \in Seq(Cell)
    BY <1>4 DEF Types, Loops
  <2>2. Len(loop.buf) \in Nat /\ SubSeq(loop.buf, 1, Len(loop.buf)) = loop.buf
    BY <2>1
  <2> QED
    BY <1>4, <2>2 DEF Keeps
<1>5. Types /\ PipeOnly /\ [Next]_vars => (Left => TimedOut) /\ (Stays => Keeps(loop'.buf))
  <2>1. [Next]_vars => Iterate \/ UNCHANGED loop
    BY DEF Next, vars, Write, Open, Close, Tick
  <2> QED
    BY <1>3, <1>4, <2>1
<1> QED
  BY <1>1, <1>2, <1>5, PTL DEF Spec, Timely
=============================================================================
