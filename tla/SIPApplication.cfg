SPECIFICATION FairSpec
PROPERTIES   FailureEnds
CHECK_DEADLOCK FALSE
