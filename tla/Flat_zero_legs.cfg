SPECIFICATION Spec
CONSTANTS
  Tree <- FlatFilesTree
  Commands = {"start"}
  PullRequest = TRUE
  Sayings = {}
  Limit <- OneRun
INVARIANT ZeroLegsAdvance
CHECK_DEADLOCK FALSE
