SPECIFICATION Spec
CONSTANTS
  Tree <- FlatFilesTree
  Commands = {"start"}
  PullRequest = TRUE
  Sayings = {}
  Limit <- Replayed
INVARIANTS ManifestSeeded DoneIsEarned
CONSTRAINT FewJobs
CHECK_DEADLOCK FALSE
