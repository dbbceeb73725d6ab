SPECIFICATION Spec
CONSTANTS
  Documents <- MCDocuments
  Malformed = {"malformed"}
  Unknown = {"unknown"}
  Invalid = {"invalid"}
  LevelText <- MCLevels
  Sections = {"server", "trace"}
  Section <- MCSection
  Loggers = {"root", "child"}
  Root = "root"
  None = None
INVARIANTS
  LevelFollows
  RestartAgrees
  DriftIsReported
  OTelWithinStdout
CHECK_DEADLOCK FALSE
