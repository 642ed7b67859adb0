SPECIFICATION Spec
CONSTANTS
    Game = {g}
    Tcp = {t}
    a = a
    b = b
    Rows <- MCRows
    Pair <- MCRows
    Names = {"c", "C"}
    Lower <- MCLower
    None = None
    Templates = {"panic"}
    Params <- MCParams
    Batches <- MCBatches
    Limits = {1, 2}
    Capacity = 2
    OutputBuf = 2
    MaxDepth = 1
    MaxOffset = 3
INVARIANTS TypeOK CacheAgrees PagesMissNothing PairsTogether
PROPERTIES LargeBatchesRefused
