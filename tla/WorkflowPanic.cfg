CONSTANTS
    N = 3
    CanaryNum = 1
    Concurrency = 1
    MaxFailures = 2
    Retries = 2
SPECIFICATION Spec

INVARIANT RetriesAllFailed
\* The program exits.
CHECK_DEADLOCK FALSE
