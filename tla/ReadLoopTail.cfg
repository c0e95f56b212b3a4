\* A preallocated file that is read up to the part that is not written yet.
CONSTANTS
  Unit = 2
  BufSizes = {4, 6}
  Inputs <- Preallocation
  Starts = {0, 1}
  Total = 9
  Spare = 3
  Grows = FALSE
  Timeout = 1
SPECIFICATION Spec
PROPERTY TailDelivered
CHECK_DEADLOCK FALSE
