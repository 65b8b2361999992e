SPECIFICATION FairSpec
CONSTANTS
  Leg = {grumpy, security, style}
  MaxIterations = 2
  Policy <- TwoOfThree
INVARIANTS TypeOK JoinSound EnteredOnce AttemptsBounded NoLostJoin
PROPERTIES MeetsContract JoinHappens
CHECK_DEADLOCK FALSE
