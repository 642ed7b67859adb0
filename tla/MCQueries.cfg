CONSTANTS
    Types <- MCTypes
    PkColumns = {"k", "g"}
    BTree = {"v", "f", "s"}
    Trigram = {"s"}
    MaxIters = 5
    MaxRows = 4
    MaxText = 5
    Starts <- MCStarts
INIT Init
NEXT Next
INVARIANTS PathsAgree GroupsAgree WindowsAgree JoinsAgree SetsAgree TextsAgree
CHECK_DEADLOCK FALSE
