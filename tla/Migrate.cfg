\* Two runs at a time, every command line.
SPECIFICATION Spec

CONSTANTS
  Runs = {r1, r2}
  N = 4
  UpName <- UpFiles
  DownName <- DownFiles
  NoName = NoName
  Requires <- References
  MaxSteps = 2
  MaxStarts = 4

INVARIANTS
  TypeOK
  CheckpointExact
  AlwaysWorks

PROPERTY
  CommitsAsAsked

CHECK_DEADLOCK FALSE
