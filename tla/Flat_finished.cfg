SPECIFICATION Spec
CONSTANTS
  Tree <- FlatFilesTree
  Commands = {"start"}
  PullRequest = TRUE
  Sayings = {}
  Limit <- OneRun
INVARIANT FinishedIsShown
CHECK_DEADLOCK FALSE
