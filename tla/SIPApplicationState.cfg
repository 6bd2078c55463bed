SPECIFICATION Spec
PROPERTY StateMovesOn
CHECK_DEADLOCK FALSE
