SPECIFICATION Spec
CONSTANTS
    Data = {d0, d1, d2}
    NoData = d0
    DupKeys = {FALSE}
    MaxFailures = 2
    MaxFaults = 0
    Absent = Absent
    Corrupt = Corrupt
SYMMETRY Symmetry
INVARIANTS TypeOK NoAckedSaveLost
PROPERTIES KeepsAGoodSave ImplementsStore
