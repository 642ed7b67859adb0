SPECIFICATION Spec
CONSTANTS
    None = None
    New = New
    NewPlus1 = NewPlus1
    MaxDepth = 2
    TableOrder <- MCOrder
    Parent <- MCParent
    OnDelete <- MCOnDelete
    OnUpdate <- MCOnUpdate
    Indexed <- MCIndexed
    Bodies <- MCBodies
    ClientStmts <- MCClientStmts
INVARIANTS
    TypeOK
    ReferencesExist
    DepthReturns
    StackBounded
    IndexAgrees
PROPERTIES
    RefusedKeepsTarget
    OnlyOrphansGo
    GuardHolds
