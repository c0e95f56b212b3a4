\* Captions that come, stop and are withdrawn while the clock runs, wraps and jumps.
CONSTANTS
  PtsMod = 32
  Frame = 1
  Accept = 2
  Absence = 6
  Interval = 4
  CounterMod = 3
  UnitLimit = 2
  VersionMod = 2
  NullPid = 99
  Options <- TextOptions
  Pats <- OnePat
  Sections <- TextSections
  Pids = {1, 4}
  AudioPids = {}
  PesLengths = {1}
  PesMod = 1
  MaxBurst = 1
  Steps = {1, 5, 13}
  Lead = 1
  Repeats = TRUE
  LowPids = {}
SPECIFICATION HSpec
VIEW TextView
PROPERTIES
  ManagementSpacing
  ManagementDue
  TextContiguous
