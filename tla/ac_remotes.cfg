SPECIFICATION Spec
INVARIANTS TypeOK Rules Rereads PowerCycles
CHECK_DEADLOCK FALSE
