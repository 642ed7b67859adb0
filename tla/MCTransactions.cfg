SPECIFICATION Spec
CONSTANTS
    Clients = {c1, c2}
    Items = {w1, w2, w3}
    Names = {s1, s2}
    NoName = NoName
    MaxDepth = 4
    Exclusive = TRUE
SYMMETRY Symmetry
INVARIANTS TypeOK NoLostWrites
PROPERTIES IdleRollbackIsNoop ImplementsLayers
