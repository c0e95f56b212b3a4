SPECIFICATION TextSpec
CONSTANTS
  RingSize = 2
  Codes = {a, b, c}
  Tags = {1, 2}
  NullPid = 99
  PmtPids = {8}
  Sections <- SmallSections
  TextPids = {3, 4}
  MaxLanguages = 2
  MaxItems = 2
  Tokens <- SmallTokens
  MaxTokens = 4
  MaxBodies = 2
VIEW TraceView
SYMMETRY AlikeCodes
INVARIANTS TypeOK LanguagesAsSent TextAnnounced PositionsTold
PROPERTY Windows
