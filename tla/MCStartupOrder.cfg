SPECIFICATION Spec
INVARIANTS ExecuteAssertedFirst
CHECK_DEADLOCK FALSE
