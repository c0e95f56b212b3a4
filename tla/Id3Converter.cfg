\* Captions of two PIDs change their roles and are withdrawn while packets are lost and
\* repeated.
CONSTANTS
  CounterMod = 4
  PtsMod = 4
  Accept = 2
  NullPid = 99
  Options <- EitherWay
  Pats <- SmallPats
  Sections <- SmallSections
  Pids = {1, 3, 4}
  TextPids = {4}
  PesLength = 3
  PesMod = 2
  MaxBurst = 3
SPECIFICATION Spec
VIEW Id3View
INVARIANTS
  TypeOK
PROPERTIES
  Id3PidOwn
  PmtOfPid
  Id3Whole
  Id3Complete
  PtsMonotonous
