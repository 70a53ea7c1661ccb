SPECIFICATION Spec
CONSTANTS
    Replicas = {0, 1}
    BaseLength = 0
    MaxInsert = 1
    MaxRanges = 1
    MaxOps <- ThreeOne
    MaxWaits <- None
    MaxOpened <- OnlySecond
INVARIANTS
    TypeOK
    Causal
    VisibleAgrees
    QueueIsLate
    StacksAgree
\* Replicas at rest have nothing left to do.
CHECK_DEADLOCK FALSE
