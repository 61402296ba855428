CONSTANTS
    N = 4
    CanaryNum = 2
    Concurrency = 2
    MaxFailures = 2
    Retries = 1
SPECIFICATION RSpec
INVARIANTS CapacityKept NothingLeftBehind ReplacedOutOfService SuccessMeansUpgraded
\* The program ends.
CHECK_DEADLOCK FALSE
