\* Two programs and three PMT sections, no loss; the halves of a dual mono; the clock
\* runs and wraps.
CONSTANTS
  PtsMod = 5
  Frame = 1
  Accept = 1
  Absence = 2
  Interval = 1
  CounterMod = 2
  UnitLimit = 2
  VersionMod = 2
  NullPid = 99
  Options <- TablesOptions
  Pats <- TablesPats
  Sections <- TablesSections
  Pids = {2, 5}
  AudioPids = {2}
  PesLengths = {1}
  PesMod = 1
  MaxBurst = 0
  Steps = {1}
  Lead = 1
  Repeats = FALSE
  LowPids = {}
SPECIFICATION Spec
VIEW TablesView
INVARIANTS
  Announced
  PcrWhereAnnounced
PROPERTY
  VersionsTell
