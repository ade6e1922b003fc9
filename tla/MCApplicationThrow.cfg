SPECIFICATION ThrowSpec
INVARIANT NoOversleep
CHECK_DEADLOCK FALSE
