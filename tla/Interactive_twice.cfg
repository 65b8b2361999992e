SPECIFICATION Spec
CONSTANTS
  Tree <- InteractiveTree
  PullRequest = FALSE
  Commands = {"start", "answer"}
  Sayings <- OneOrBoth
  Limit <- AnsweredTwice
PROPERTY TerminalStays
CHECK_DEADLOCK FALSE
