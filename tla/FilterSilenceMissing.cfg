\* A dual mono first audio, then a PAT without the program, then a PMT without audio.
CONSTANTS
  PtsMod = 16
  Frame = 1
  Accept = 5
  Absence = 3
  Interval = 2
  CounterMod = 2
  UnitLimit = 2
  VersionMod = 2
  NullPid = 99
  Options <- DualMonoOptions
  Pats <- TablesPats
  Sections <- SilenceSections
  Pids = {1, 2}
  AudioPids = {2}
  PesLengths = {1}
  PesMod = 1
  MaxBurst = 0
  Steps = {1}
  Lead = 1
  Repeats = FALSE
  LowPids = {}
SPECIFICATION Spec
PROPERTY SilenceWhenAbsent
