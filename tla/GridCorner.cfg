CONSTANTS
    Cases <- WithBitmap
    Undef = 90
    Ulp = 2
    CubeScans = {0, 64}
    Windows <- ReadWindows
    Points <- ProbedPoints
    Strays = {13}
SPECIFICATION Spec
CHECK_DEADLOCK FALSE
INVARIANT InterpolatesOnlyValues
