------------------------------ MODULE ReadLoop ------------------------------
(***************************************************************************)
(* The read loop of main (tsreadex.cpp): blocks are read from a file that  *)
(* may still be written, a preallocated file or a pipe, cut into packets   *)
(* along the sync bytes, and passed to the filters; the loop ends with the *)
(* input or when nothing was written for the timeout.                      *)
(*                                                                         *)
(* A byte is a cell [pos, ok]: its position in the input, and whether it   *)
(* had been written when it was read; in a preallocated file it may not.   *)
(* The packets of the input begin at the multiples of Unit, and only their *)
(* first bytes look like sync bytes.                                       *)
(***************************************************************************)
EXTENDS Integers, Sequences, FiniteSetsExt

CONSTANTS Unit,      \* size of a packet (188, 192 or 204)
          BufSizes,  \* sizes of the block that the measurements may choose
          Inputs,    \* [mode, pipe, timed]: -m, the kind of source, is -t not 0
          Grows,     \* may a preallocated file become longer
          Starts,    \* positions that -s may seek to
          Total,     \* bound: bytes written in the end
          Spare,     \* bytes that are preallocated at a time
          Timeout    \* -t, in ticks

ASSUME ReadAssumption ==
  /\ {Unit, Total, Timeout} \subseteq Nat \ {0} /\ Unit >= 2
  /\ Starts \subseteq Nat /\ Grows \in BOOLEAN /\ Spare \in Nat
  /\ \A s \in BufSizes : s \in Nat /\ s >= 2 * Unit
  /\ \A i \in Inputs : /\ i.mode \in 0 .. 2
                       /\ i.mode = 1 => ~i.pipe
                       /\ i.mode = 2 => i.pipe /\ i.timed
                       /\ i.pipe /\ i.mode = 0 => ~i.timed

VARIABLES
  input,   \* the source and the options: a member of Inputs, and where it starts
  file,    \* [written, size, open]: bytes written, bytes readable, has a writer
  loop,    \* the variables of the loop
  waited,  \* ticks since lastWriteTime
  out      \* the packets passed to the filters

vars == <<input, file, loop, waited, out>>

(***************************************************************************)
(* loop.mode        timeoutMode            loop.known      unitSize # 0    *)
(* loop.buf         buf, bufCount          loop.filePos    filePos         *)
(* loop.offset      the position of the file descriptor                    *)
(* loop.bufSize     bufSize                loop.connected  asyncContext = 2 *)
(* loop.bufPos      bufPos                 loop.retry, completed           *)
(* loop.running     the loop has not been left                             *)
(* loop.broken      it was left because fwrite failed                      *)
(***************************************************************************)

-----------------------------------------------------------------------------
(* Blocks.                                                                 *)

Sync(cell) == cell.ok /\ cell.pos % Unit = 0

\* The offsets from which on every Unit-th byte of the block is a sync byte.
Offsets(buf) ==
  {o \in 0 .. Min({Unit, Len(buf)}) - 1 :
     \A i \in o + 1 .. Len(buf) : (i - 1 - o) % Unit = 0 => Sync(buf[i])}

\* resync_ts: without such an offset the position after the block; an unknown unit is
\* known from the first success on.
Resync(l) ==
  LET offsets == Offsets(l.buf)
  IN  [l EXCEPT !.known  = @ \/ offsets # {},
                !.bufPos = IF offsets = {} THEN Len(l.buf) ELSE Min(offsets)]

\* Fault: in mode 1 the block ends with a packet, and not with the sync byte after it.
BufMaxWithoutSync(l) == IF l.known THEN (l.bufSize \div Unit) * Unit ELSE l.bufSize

\* How full the buffer gets.
BufMax(l) ==
  IF ~l.known THEN l.bufSize
  ELSE (l.bufSize \div Unit) * Unit - (IF l.mode = 1 THEN Unit - 1 ELSE 0)

-----------------------------------------------------------------------------
(* Reading.                                                                *)

\* What ReadFileToBuffer may return: the number of bytes, 0 or -1.  A pipe may give
\* less than was asked for; without data it blocks, or for mode 2 gives up when timed
\* out, and before a writer has come it gives 0.
Reads ==
  LET ready == Min({BufMax(loop) - Len(loop.buf), file.size - loop.offset})
  IN  IF ~input.pipe THEN {ready}
      ELSE IF ready > 0 THEN 1 .. ready
      ELSE IF ~file.open THEN {IF loop.connected THEN -1 ELSE 0}
      ELSE IF loop.mode = 2 /\ waited >= Timeout THEN {-1}
      ELSE {}

Cells(n) == [i \in 1 .. n |-> [pos |-> loop.offset + i - 1,
                               ok  |-> loop.offset + i - 1 < file.written]]

Filled(n) ==
  [loop EXCEPT !.buf = @ \o Cells(n), !.offset = @ + n,
               !.connected = @ \/ loop.mode = 2,
               !.bufPos = -1, !.retry = FALSE, !.completed = FALSE]

Idle == [loop EXCEPT !.bufPos = -1, !.retry = FALSE, !.completed = FALSE]

Normal(n) ==
  IF n <= 0 THEN [Idle EXCEPT !.retry = TRUE] ELSE [Filled(n) EXCEPT !.filePos = @ + n]

\* The end of a preallocated file: on from here as in mode 0.
PreallocatedEnd ==
  [Idle EXCEPT !.filePos = @ + Len(loop.buf) - (IF loop.known THEN 1 ELSE 0), !.mode = 0]

\* The first full block: it has to be in sync, and is read again from its first packet.
PreallocatedFirst(l) ==
  LET r == Resync(l)
      next == l.filePos + r.bufPos + 1
  IN  IF ~r.known
      THEN [l EXCEPT !.retry = TRUE, !.buf = << >>]
      ELSE [r EXCEPT !.filePos = next, !.offset = next, !.bufPos = 0,
                     !.buf = <<l.buf[r.bufPos + 1]>>]

\* A later one: it is in sync from end to end, or will be read again.
PreallocatedNext(l) ==
  LET r == Resync(l)
  IN  IF r.bufPos # 0
      THEN [l EXCEPT !.retry = TRUE, !.bufPos = 0, !.buf = <<l.buf[1]>>]
      ELSE [r EXCEPT !.filePos = @ + Len(l.buf) - 1]

Preallocated(n) ==
  IF n <= 0 THEN PreallocatedEnd
  ELSE IF Len(loop.buf) + n # BufMax(loop) THEN Filled(n)
  ELSE IF loop.known THEN PreallocatedNext(Filled(n)) ELSE PreallocatedFirst(Filled(n))

NonBlocking(n) ==
  IF n < 0 THEN [Idle EXCEPT !.completed = TRUE] ELSE Normal(n)

TimedOut == waited >= Timeout

\* Fault: the timeout is not looked at.
RetriedForever(l) ==
  IF ~l.retry THEN l
  ELSE IF ~input.timed THEN [l EXCEPT !.completed = TRUE]
  ELSE IF l.mode = 2 THEN l
  ELSE [l EXCEPT !.offset = l.filePos]

\* Another attempt from filePos, unless the time is over.
Retried(l) ==
  IF ~l.retry THEN l
  ELSE IF ~input.timed \/ TimedOut THEN [l EXCEPT !.completed = TRUE]
  ELSE IF l.mode = 2 THEN l
  ELSE [l EXCEPT !.offset = l.filePos]

ReadBlock(n) ==
  Retried(CASE loop.mode = 0 -> Normal(n)
            [] loop.mode = 1 -> Preallocated(n)
            [] loop.mode = 2 -> NonBlocking(n))

-----------------------------------------------------------------------------
(* Processing.                                                             *)

\* Fault: a packet that ends with the block is left out.
CutStrictly(l) ==
  LET n == IF l.known THEN (Len(l.buf) - l.bufPos - 1) \div Unit ELSE 0
  IN  [k \in 1 .. n |-> SubSeq(l.buf, l.bufPos + (k - 1) * Unit + 1, l.bufPos + k * Unit)]

\* The packets of a block from bufPos on.
Cut(l) ==
  LET n == IF l.known THEN (Len(l.buf) - l.bufPos) \div Unit ELSE 0
  IN  [k \in 1 .. n |-> SubSeq(l.buf, l.bufPos + (k - 1) * Unit + 1, l.bufPos + k * Unit)]

\* Fault: the packets passed on stay in the buffer.
RestUncut(l) == IF ~l.known THEN << >> ELSE SubSeq(l.buf, l.bufPos + 1, Len(l.buf))

\* The bytes behind the last packet, which the next block begins with.
Rest(l) ==
  IF ~l.known THEN << >>
  ELSE SubSeq(l.buf, Len(l.buf) - ((Len(l.buf) - l.bufPos) % Unit) + 1, Len(l.buf))

\* Fault: the timeout is looked at only where a read gives nothing.
LeavesUntimed(l, wrote, failed) == l.completed \/ (wrote /\ failed)

\* What ends the loop when a block has been processed
Leaves(l, wrote, failed) ==
  l.completed \/ (wrote /\ failed) \/ (~wrote /\ input.timed /\ TimedOut)

\* The filters may write something for the packets, or nothing, or fail.
Process(l) ==
  LET packets == Cut(l)
  IN  /\ out' = out \o packets
      /\ \E wrote \in IF packets = << >> THEN {FALSE} ELSE BOOLEAN,
            failed \in BOOLEAN, size \in BufSizes :
           /\ waited' = IF wrote THEN 0 ELSE waited
           /\ loop' = IF Leaves(l, wrote, failed)
                      THEN [l EXCEPT !.running = FALSE, !.broken = wrote /\ failed]
                      ELSE [l EXCEPT !.buf = Rest(l), !.bufSize = size]

Iterate ==
  /\ loop.running
  /\ \E n \in Reads : \E l \in {ReadBlock(n)} :
       IF Len(l.buf) = BufMax(loop) \/ l.completed
       THEN \E located \in {IF l.bufPos < 0 THEN Resync(l) ELSE l} : Process(located)
       ELSE loop' = l /\ UNCHANGED <<waited, out>>
  /\ UNCHANGED <<input, file>>

-----------------------------------------------------------------------------
(* The writer and the time.                                                *)

\* A preallocated file is longer than what has been written.
Size(written, size) ==
  IF input.mode # 1 THEN written ELSE IF written > size THEN written + Spare ELSE size

Write ==
  /\ file.open
  /\ \E w \in file.written + 1 .. Total :
       file' = [file EXCEPT !.written = w, !.size = Size(w, @)]
  /\ UNCHANGED <<input, loop, waited, out>>

Open ==
  /\ ~file.open /\ file.size = 0 /\ input.mode = 2
  /\ file' = [file EXCEPT !.open = TRUE]
  /\ UNCHANGED <<input, loop, waited, out>>

Close ==
  /\ file.open
  /\ file' = [file EXCEPT !.open = FALSE]
  /\ UNCHANGED <<input, loop, waited, out>>

Tick ==
  /\ loop.running /\ input.timed /\ waited < Timeout
  /\ waited' = waited + 1
  /\ UNCHANGED <<input, file, loop, out>>

Init ==
  /\ \E i \in Inputs, start \in Starts, size \in BufSizes :
       /\ i.pipe => start = 0
       /\ input = [mode |-> i.mode, pipe |-> i.pipe, timed |-> i.timed, start |-> start]
       /\ loop = [mode |-> i.mode, known |-> FALSE, buf |-> << >>, filePos |-> start,
                  offset |-> start, bufSize |-> size, connected |-> FALSE, bufPos |-> -1,
                  retry |-> FALSE, completed |-> FALSE, running |-> TRUE,
                  broken |-> FALSE]
  /\ file = [written |-> 0, size |-> IF input.mode # 1 THEN 0 ELSE IF Grows THEN Spare ELSE Total + Spare,
             open |-> input.mode # 2]
  /\ waited = 0
  /\ out = << >>

Next == Iterate \/ Write \/ Open \/ Close \/ Tick

\* The loop goes on when it can, time passes, and a writer closes in the end.
Spec == Init /\ [][Next]_vars /\ WF_vars(Iterate) /\ WF_vars(Tick) /\ WF_vars(Close)

-----------------------------------------------------------------------------
(* Properties.                                                             *)

TypeOK ==
  /\ loop.mode \in 0 .. 2 /\ loop.bufSize \in BufSizes
  /\ Len(loop.buf) < BufMax(loop) \/ ~loop.running
  /\ loop.filePos \in Nat /\ loop.offset \in Nat
  /\ waited \in 0 .. Timeout
  /\ file.written \in 0 .. Total /\ file.size >= file.written

\* The packets of the input from the position seeked to up to position end.
FirstPos == input.start + ((Unit - (input.start % Unit)) % Unit)
Whole(end) == IF end < FirstPos THEN 0 ELSE (end - FirstPos) \div Unit

\* No byte is lost, doubled or taken for one of another packet between the input and the
\* filters, wherever the blocks were cut, the reads fell short or the file grew: what is
\* passed on are the packets of the input one after the other.  In mode 1 this holds until
\* the end of the file is met: the bytes read before that are not read again.
InOrder ==
  (input.mode = 1 => loop.mode = 1) =>
    \A k \in DOMAIN out : \A i \in 1 .. Unit :
      out[k][i] = [pos |-> FirstPos + (k - 1) * Unit + i - 1, ok |-> TRUE]

\* When the loop is left, other than because stdout was closed, every whole packet that
\* was read has been passed on.
Complete ==
  (~loop.running /\ ~loop.broken /\ input.mode # 1) => Len(out) = Whole(loop.offset)

\* The program ends: with the input, or when there is nothing to write for the timeout.
Termination == <>~loop.running

\* The bytes in hand remain the beginning of the block.
Keeps(buf) == Len(loop.buf) <= Len(buf) /\ SubSeq(buf, 1, Len(loop.buf)) = loop.buf

\* With -t the loop is left in time.  Not early: a file that may be appended to is waited
\* for.  Nor late: once nothing was written for the timeout, the loop goes on only to fill
\* the block in hand, so that bytes which trickle in and never become output do not keep it.
\* (The first block of a preallocated file is read once more when it is in sync.)
Timely ==
  [][input.timed =>
       /\ (loop.running /\ ~loop'.running /\ ~loop'.broken /\ ~input.pipe) => TimedOut
       /\ (TimedOut /\ waited' >= Timeout /\ loop'.running /\ (loop.mode = 1 => loop.known))
            => Keeps(loop'.buf)]_vars

\* Readme.txt on -m 1: the end is where the contents are no longer a transport stream.
\* So what was read before it is passed on when the loop is left, once the stream was
\* recognised.
TailDelivered ==
  [][(loop.running /\ ~loop'.running /\ ~loop'.broken /\ input.mode = 1 /\ loop.known)
       => Len(out') >= Whole(Min({loop'.offset, file.written}))]_vars
=============================================================================
