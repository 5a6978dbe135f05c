SPECIFICATION Spec
INVARIANTS TypeOK ServesGuarded NeverFreeWhenPaid StdioEndsReleased
PROPERTIES ComesUpOrFails
\* The process ends, well or badly.
CHECK_DEADLOCK FALSE
