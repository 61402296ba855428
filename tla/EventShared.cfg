CONSTANTS
    User = {u1, u2}
    MaxEvents = 3
    BufSize = 1
    MaxUses = 2
SPECIFICATION Spec
INVARIANT RendersOwn
\* The uses of the bound run out.
CHECK_DEADLOCK FALSE
