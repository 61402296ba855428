CONSTANTS
    MaxRequests = 2
SPECIFICATION Spec
INVARIANT LastSpansExported
\* Both programs may have ended.
CHECK_DEADLOCK FALSE
