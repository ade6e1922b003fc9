SPECIFICATION Spec
INVARIANT NoOversleep
PROPERTY NoWindowLeftBehind
PROPERTY ApplicationFollowsPolicy
CHECK_DEADLOCK FALSE
