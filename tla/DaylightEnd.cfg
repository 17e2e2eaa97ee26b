CONSTANTS
    Starts <- MCStarts
    Span = 4
    Months <- MCMonths
    TimeZones <- MCTimeZones
    Seconds <- MCSeconds

SPECIFICATION ClockSpec

\* A walk ends with its span.
CHECK_DEADLOCK FALSE

INVARIANT ClocksArePutBack
