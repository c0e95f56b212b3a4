\* Packets of two bytes and blocks of two to four of them, six packets begun.
CONSTANTS
  Unit = 2
  BufSizes = {4, 6, 9}
  Inputs <- EveryInput
  Starts = {0, 1}
  Total = 11
  Spare = 3
  Grows = FALSE
  Timeout = 2
SPECIFICATION Spec
INVARIANTS
  TypeOK
  InOrder
  Complete
PROPERTIES
  Termination
  Timely
CHECK_DEADLOCK FALSE
