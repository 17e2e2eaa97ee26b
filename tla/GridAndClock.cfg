CONSTANTS
    Cases <- AllCases
    Undef = 90
    Ulp = 2
    CubeScans = {0, 64}
    Windows <- ReadWindows
    Points <- ProbedPoints
    Strays = {13}
    Starts <- MCStarts
    Span = 4
    Months <- MCMonths
    TimeZones <- MCTimeZones
    Seconds <- MCSeconds
SPECIFICATION GridAndClockSpec

\* The walks through the data and through the years end.
CHECK_DEADLOCK FALSE

INVARIANTS
    DecodesInPlace
    MissingIsApart
    StatisticsAreExact
    NumbersStringsInUse
    ReadsBackWhatWasDecoded
    ProbesWhatWasDecoded
    DatesAreRight
    ScanInvertsPrint
    AddsMonths
    DaylightIsRight
