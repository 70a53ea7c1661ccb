SPECIFICATION FairSpec
CONSTANTS
    Replicas = {0, 1, 2}
    BaseLength = 0
    MaxInsert = 1
    MaxRanges = 2
    MaxOps <- One
    MaxWaits <- OnlyLast
    MaxOpened <- None
INVARIANTS
    Converge
    OrderAgrees
PROPERTIES
    Settles
\* Replicas at rest have nothing left to do.
CHECK_DEADLOCK FALSE
