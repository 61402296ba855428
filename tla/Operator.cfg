CONSTANTS
    Resource = {r, s}
    k = k
    l = l
    kb = kb
    Trim <- MCTrim
    Specs <- MCSpecs
    Applied <- MCApplied
    Id = {i1, i2, i3, i4, i5}
    NoId = NoId
    MaxEdits = 1
    MaxTrouble = 1
SPECIFICATION FairSpec
INVARIANTS OrphanPerTrouble
PROPERTIES KeeperSpec Converges
\* Everything rests once the resources are gone.
CHECK_DEADLOCK FALSE
