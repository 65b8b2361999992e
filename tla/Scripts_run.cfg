SPECIFICATION Spec
INVARIANTS CommentReachesProtocol DoneMeansChecked BlockHeard ReadsWhatIsWritten ReadsOwnLeg MergesWhatLegsWrote JoinClosesItsFanout
