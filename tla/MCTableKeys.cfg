SPECIFICATION Spec
CONSTANTS
    MaxId = 3
    a = a
    b = b
    Values = {a, b}
    Null = Null
    Succ = Succ
    Checked <- MCChecked
    MaxRows = 3
    MaxBatch = 2
    Disciplined = TRUE
    Replaces = TRUE
    Truncates = FALSE
SYMMETRY Symmetry
INVARIANT TypeOK
INVARIANT PkAgrees
INVARIANT UniqueAgrees
INVARIANT NoDuplicates
PROPERTY ImplementsKeyed
