SPECIFICATION InputSpec
CONSTANTS
  Frames <- SomeFrames
  Streams <- SomeStreams
  HeaderLen = 3
  MaxPes = 4
  MaxRounds = 2
  MaxElements = 1
  Elements <- SmallElements
  MaxBlocks = 2
  WordBits = 3
  BookWords = 4
INVARIANTS
  TypeOK
  StaysInStep
  ReadsInside
  Repacked
  TreeDecodes
  SpectrumValues
PROPERTY
  BackInStep
