SPECIFICATION Spec
CONSTANTS
    MaxId = 2
    a = a
    b = b
    Values = {a, b}
    Null = Null
    Succ = Succ
    Checked <- MCChecked
    MaxRows = 2
    MaxBatch = 2
    Disciplined = FALSE
    Replaces = FALSE
    Truncates = TRUE
SYMMETRY Symmetry
INVARIANT IndexAgrees
