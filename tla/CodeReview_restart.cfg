SPECIFICATION Spec
CONSTANTS
  Tree <- OneRetryTree
  Commands = {"start"}
  PullRequest = TRUE
  Sayings = {}
  Limit <- Restarted
INVARIANT NeverTwoWriters
CHECK_DEADLOCK FALSE
