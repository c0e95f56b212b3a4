\* The first program, whose captions are converted, gives way to the second in the PAT.
CONSTANTS
  CounterMod = 3
  PtsMod = 4
  Accept = 2
  NullPid = 99
  Options <- OnlyTagged
  Pats <- TwoPats
  Sections <- TwoSections
  Pids = {1, 3, 4}
  TextPids = {4}
  PesLength = 2
  PesMod = 2
  MaxBurst = 1
SPECIFICATION Spec
VIEW Id3View
PROPERTY SourceRemoved
