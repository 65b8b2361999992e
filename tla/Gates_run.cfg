SPECIFICATION Spec
CONSTANTS
  Tree <- DeepGatesTree
  PullRequest = FALSE
  Commands = {"start", "answer"}
  Sayings <- ToBranches
  Limit <- Died
INVARIANTS GatesAnswered SettledWhenQuiet GateOpened
PROPERTY AnswersStay
CHECK_DEADLOCK FALSE
