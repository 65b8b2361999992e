SPECIFICATION FairSpec
CONSTANTS
  Absent = Absent
  Job = {j1, j2, j3}
  File = {f, g}
  Content = {Absent, u, v}
  MayWrite <- AnyFile
  Attempts = 2
  MayDie = TRUE
INVARIANTS TypeOK SuccessMeansWritten ConflictHasCause ExhaustionHasCause
PROPERTIES FirstCommitterWins ImplementsStore EveryJobEnds
