SPECIFICATION Spec
CONSTANTS
    Grids <- MCGrids
    UShort2 = 65536
INVARIANTS TypeOK SizesAgree InOrder
PROPERTY ImplementsStore
