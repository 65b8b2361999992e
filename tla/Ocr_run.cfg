SPECIFICATION FairSpec
CONSTANTS
  Tree <- TwoFilesTree
  Commands = {"start"}
  PullRequest = TRUE
  Sayings = {}
  Limit <- OneRun
INVARIANTS NestedJoinSound SettledWhenQuiet
PROPERTY RunSettles
CHECK_DEADLOCK FALSE
