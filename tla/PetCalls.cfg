CONSTANTS
    Id = {p, q}
    Name = {a, b}
    Type = {t}
    Day = {1}
    Client = {c, d}
    SearchNames = {a}
    Filters <- MCFilters
SPECIFICATION FairSpec
INVARIANTS IndexComplete
PROPERTIES StorageSpec DeleteReturns
\* A read lock that is not released can leave every client waiting.
CHECK_DEADLOCK FALSE
