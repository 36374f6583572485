CONSTANT LastYear = 2600
SPECIFICATION Spec
INVARIANT CountsAgree
CHECK_DEADLOCK FALSE
