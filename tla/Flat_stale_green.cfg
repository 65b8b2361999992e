SPECIFICATION Spec
CONSTANTS
  Tree <- FlatFilesTree
  Commands = {"start"}
  PullRequest = TRUE
  Sayings = {}
  Limit <- Restarted
INVARIANT GreenOnlyWhenReviewed
CHECK_DEADLOCK FALSE
