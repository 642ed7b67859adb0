CONSTANTS
    Types <- MCTypes
    PkColumns = {"k", "g"}
    BTree = {"v", "f", "s"}
    Trigram = {"s"}
    MaxIters = 5
    MaxRows = 0
    MaxText = 6
    Starts <- MCTriggers
INIT Init
NEXT Next
INVARIANTS PartsSkipped
CHECK_DEADLOCK FALSE
