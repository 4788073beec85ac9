SPECIFICATION Spec
CONSTANT Threads = {t1, t2}
INVARIANT NeverNull
CHECK_DEADLOCK FALSE
