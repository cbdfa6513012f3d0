SPECIFICATION Spec
PROPERTY NothingHangs
CHECK_DEADLOCK FALSE
