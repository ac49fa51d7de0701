\* An operation that is stopped before its apply has acquired the run.
SPECIFICATION Spec
CONSTANT
    Node = {1, 2}
PROPERTY StoppedStartsNothing
CHECK_DEADLOCK FALSE
