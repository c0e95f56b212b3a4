\* One audio stream in every role; PES of two packets, bursts shorter than a round of the
\* counter, repeated and empty packets; silence of up to two frames at a time in between.
CONSTANTS
  PtsMod = 7
  Frame = 1
  Accept = 2
  Absence = 3
  Interval = 2
  CounterMod = 3
  UnitLimit = 4
  VersionMod = 2
  NullPid = 99
  Options <- AudioOptions
  Pats <- OnePat
  Sections <- AudioSections
  Pids = {2}
  AudioPids = {2}
  PesLengths = {2}
  PesMod = 2
  MaxBurst = 2
  Steps = {2}
  Lead = 1
  Repeats = TRUE
  LowPids = {}
SPECIFICATION Spec
INVARIANTS
  AudioWhole
VIEW AudioView
PROPERTY
  CountersContiguous
