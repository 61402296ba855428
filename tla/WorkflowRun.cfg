CONSTANTS
    N = 6
    CanaryNum = 1
    Concurrency = 2
    MaxFailures = 2
    Retries = 2
SPECIFICATION FairSpec
INVARIANTS FailureBound EndStateHonest
PROPERTIES RunReturns UpgradedStaysUpgraded
\* The program exits.
CHECK_DEADLOCK FALSE
