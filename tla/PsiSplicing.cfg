\* Bursts as long as a round of the counter, and packets without payload.
CONSTANTS
  CounterMod = 3
  MaxPayload = 3
  Cap = 4
  Sizes = {1, 4}
  MaxCells = 7
  MaxBurst = 3
  EmptyPackets = TRUE
SPECIFICATION PSSpec
INVARIANTS
  TypeOK
  DeliveredWhole
  Complete
  NoSplice
PROPERTIES
  Consumed
  OrderedDelivery
