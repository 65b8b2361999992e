SPECIFICATION Spec
CONSTANTS
  Tree <- OneRetryTree
  Commands <- AllCommands
  PullRequest = TRUE
  Sayings = {}
  Limit <- OneRun
INVARIANTS TypeOK PhaseExplained GreenIsEarned AttemptsBounded CommentCreatedOnce SingleFlight SettledWhenQuiet StatusAgrees
PROPERTIES TerminalStays TransitionsGrow
CHECK_DEADLOCK FALSE
