\* The first audio comes and goes while the clock runs, wraps and jumps; PES of one
\* packet, and of more than is held back.
CONSTANTS
  PtsMod = 16
  Frame = 2
  Accept = 5
  Absence = 3
  Interval = 2
  CounterMod = 2
  UnitLimit = 2
  VersionMod = 2
  NullPid = 99
  Options <- SilenceOptions
  Pats <- OnePat
  Sections <- SilenceSections
  Pids = {1, 2, 6, 7}
  AudioPids = {2}
  PesLengths = {1, 4}
  PesMod = 1
  MaxBurst = 0
  Steps = {1, 3, 7}
  Lead = 3
  Repeats = FALSE
  LowPids = {7}
SPECIFICATION Spec
VIEW SilenceView
INVARIANT TypeOK
PROPERTIES
  SilenceKeepsUp
  SilenceGapless
