\* The driver of one test case, over every fixture provider shape.
CONSTANT NULL = NULL
INIT Init
NEXT Next
\* A test case's execution ends: it returns, unwinds or is signalled.
CHECK_DEADLOCK FALSE
INVARIANT TeardownAnnounced
